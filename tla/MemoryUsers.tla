---------------------------- MODULE MemoryUsers ----------------------------
(***************************************************************************)
(* The account store in memory (adapter/repository/memory/user.go): the    *)
(* accounts by id, each with its proofs, and beside them an index from a   *)
(* proof to its holder, written by hand.  A mutex makes every method one   *)
(* step.  A sign-in reads the index first, so an entry that outlives its   *)
(* account, or a proof without one, is a sign-in nobody can explain.       *)
(***************************************************************************)
EXTENDS UserRows

VARIABLES items,          \* the account stored under each id
          index,          \* byCredential and byIdentity
          told            \* the last answer

memoryVars == <<items, index, told>>

Stored(a) == items[a] # Absent
Holds(a, p) == Stored(a) /\ items[a].ways[p] # Free
Ways(a) == {p \in Proofs : items[a].ways[p] # Free}

With(u, ps) == [name |-> u.name, look |-> u.look, image |-> u.image,
                ways |-> [p \in Proofs |-> IF p \in ps THEN Fresh ELSE Free]]

Tell(call, a, on, says) == told' = [call |-> call, id |-> a, on |-> on, says |-> says]
Refuse(call, a, on, why) == Tell(call, a, on, why) /\ UNCHANGED <<items, index>>

MemoryTypeOK ==
    /\ items \in [Ids -> Account \cup {Absent}]
    /\ index \in [Proofs -> Ids \cup {Free}]

\* The index and the accounts say the same of every proof.
Indexed == \A a \in Ids, p \in Proofs : index[p] = a <=> Holds(a, p)

MemoryInit ==
    /\ items = [a \in Ids |-> Absent]
    /\ index = [p \in Proofs |-> Free]
    /\ told = [call |-> "none", id |-> Absent, on |-> {}, says |-> "done"]

-----------------------------------------------------------------------------
\* Every proof is looked up before any is written.
Create(a, u, ps) ==
    \/ /\ ~Stored(a) /\ \A p \in ps : index[p] = Free
       /\ items' = [items EXCEPT ![a] = With(u, ps)]
       /\ index' = [p \in Proofs |-> IF p \in ps THEN a ELSE index[p]]
       /\ Tell("Create", a, ps, "done")
    \/ /\ Stored(a) \/ \E p \in ps : index[p] # Free
       /\ Refuse("Create", a, ps, "refused")

EnsureGuest(a, n) ==
    /\ items' = IF Stored(a) THEN items
                ELSE [items EXCEPT ![a] = With(Plain(n), {})]
    /\ UNCHANGED index
    /\ Tell("EnsureGuest", a, {}, "done")

\* ByCredentialID and ByIdentity: the index, then the account it names.
ByProof(p) ==
    \/ index[p] = Free /\ Refuse("ByProof", Absent, {p}, "missing")
    \/ /\ index[p] # Free
       /\ Refuse("ByProof", index[p], {p}, IF Stored(index[p]) THEN "found" ELSE "ghost")

ByID(a) == Refuse("ByID", a, {}, IF Stored(a) THEN "found" ELSE "missing")

\* TouchCredential and TouchIdentity look in the account, not in the index.
Touch(a, p, m) ==
    \/ /\ Holds(a, p)
       /\ items' = [items EXCEPT ![a].ways[p] = m]
       /\ UNCHANGED index
       /\ Tell("Touch", a, {p}, "done")
    \/ ~Holds(a, p) /\ Refuse("Touch", a, {p}, "missing")

AddIdentity(a, p) ==
    \/ ~Stored(a) /\ Refuse("AddIdentity", a, {p}, "missing")
    \/ Stored(a) /\ index[p] # Free /\ Refuse("AddIdentity", a, {p}, "refused")
    \/ /\ Stored(a) /\ index[p] = Free
       /\ items' = [items EXCEPT ![a].ways[p] = Fresh]
       /\ index' = [index EXCEPT ![p] = a]
       /\ Tell("AddIdentity", a, {p}, "done")

RemoveIdentity(a, p) ==
    \/ ~Holds(a, p) /\ Refuse("RemoveIdentity", a, {p}, "missing")
    \/ /\ Holds(a, p)
       /\ items' = [items EXCEPT ![a].ways[p] = Free]
       /\ index' = [index EXCEPT ![p] = Free]
       /\ Tell("RemoveIdentity", a, {p}, "done")

SetAppearance(a, v) ==
    \/ ~Stored(a) /\ Refuse("SetAppearance", a, {}, "missing")
    \/ /\ Stored(a)
       /\ items' = [items EXCEPT ![a].look = v]
       /\ UNCHANGED index
       /\ Tell("SetAppearance", a, {}, "done")

SetImage(a, v) ==
    \/ ~Stored(a) /\ Refuse("SetImage", a, {}, "missing")
    \/ /\ Stored(a)
       /\ items' = [items EXCEPT ![a].image = v]
       /\ UNCHANGED index
       /\ Tell("SetImage", a, {}, "done")

\* Mutant...: see Membership.
MutantDelete(a) ==
    \/ ~Stored(a) /\ Refuse("Delete", a, {}, "missing")
    \/ /\ Stored(a)
       /\ items' = [items EXCEPT ![a] = Absent]
       /\ UNCHANGED index
       /\ Tell("Delete", a, {}, "done")

Delete(a) ==
    \/ ~Stored(a) /\ Refuse("Delete", a, {}, "missing")
    \/ /\ Stored(a)
       /\ index' = [p \in Proofs |-> IF p \in Ways(a) THEN Free ELSE index[p]]
       /\ items' = [items EXCEPT ![a] = Absent]
       /\ Tell("Delete", a, {}, "done")

MemoryNext ==
    \/ \E p \in Proofs : ByProof(p)
    \/ \E a \in Ids :
        \/ \E u \in Row, ps \in SUBSET Proofs : Create(a, u, ps)
        \/ \E n \in Names : EnsureGuest(a, n)
        \/ ByID(a)
        \/ \E p \in Proofs, m \in Marks : Touch(a, p, m)
        \/ \E p \in Subjects : AddIdentity(a, p) \/ RemoveIdentity(a, p)
        \/ \E v \in Looks : SetAppearance(a, v)
        \/ \E v \in Images : SetImage(a, v)
        \/ Delete(a)

MemorySpec == MemoryInit /\ [][MemoryNext]_memoryVars

-----------------------------------------------------------------------------
\* The contract's accounts and proofs, read off the accounts alone.
RowOf(a) == IF Stored(a) THEN [name |-> items[a].name, look |-> items[a].look,
                               image |-> items[a].image]
            ELSE Absent
HolderOf(p) == CHOOSE a \in Ids : Holds(a, p)
ProofOf(p) == IF \E a \in Ids : Holds(a, p)
              THEN [by |-> HolderOf(p), mark |-> items[HolderOf(p)].ways[p]]
              ELSE Free

Rows == [a \in Ids |-> RowOf(a)]
Held == [p \in Proofs |-> ProofOf(p)]

Contract == INSTANCE UsersContract WITH row <- Rows, proof <- Held, said <- told

\* The store keeps the contract of the ports although its index is kept by
\* hand: a proof resolves to the account that holds it, none resolves to an
\* account that is gone, and a deleted account's proofs are free.
UsersInMemory == Contract!Spec
=============================================================================
