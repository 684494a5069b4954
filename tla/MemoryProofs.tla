---------------------------- MODULE MemoryProofs ----------------------------
(***************************************************************************)
(* The stores in memory implement their contracts, each by itself and all  *)
(* of them together, for any accounts, people, groups, games, folders,     *)
(* characters and packs.  What makes it so is that the maps a store keeps  *)
(* never disagree.  From that, every method's step is the contract's step  *)
(* of the same name, or changes nothing it can see.  What a loop over a    *)
(* list leaves is told from lists that grow at their end.                  *)
(***************************************************************************)
EXTENDS MemoryStores, Filter, FiniteSetTheorems, TLAPS

-----------------------------------------------------------------------------
(* Accounts.                                                               *)

MemoryInv == MemoryTypeOK /\ Indexed

-----------------------------------------------------------------------------
(* The index and the accounts agree.                                       *)

LEMMA WithIsAccount ==
  ASSUME NEW u \in Row, NEW ps \in SUBSET Proofs
  PROVE  /\ With(u, ps) \in Account
         /\ With(u, ps) # Absent
         /\ \A p \in Proofs : With(u, ps).ways[p] # Free <=> p \in ps
  BY UserAssumption DEF With, Row, Account

LEMMA PlainIsRow == \A n \in Names : Plain(n) \in Row
  BY UserAssumption DEF Plain, Row

LEMMA MemoryInitInv == MemoryInit => MemoryInv
  BY UserAssumption DEF MemoryInit, MemoryInv, MemoryTypeOK, Indexed, Holds, Stored

LEMMA MemoryNextInv == MemoryInv /\ [MemoryNext]_memoryVars => MemoryInv'
  <1> SUFFICES ASSUME MemoryInv, [MemoryNext]_memoryVars PROVE MemoryInv'
    OBVIOUS
  <1> USE UserAssumption DEF MemoryInv, MemoryTypeOK, Indexed, Holds, Stored
  <1>1. ASSUME NEW p \in Proofs, ByProof(p) PROVE MemoryInv'
    BY <1>1 DEF ByProof, Refuse
  <1>2. ASSUME NEW a \in Ids, NEW u \in Row, NEW ps \in SUBSET Proofs, Create(a, u, ps)
        PROVE  MemoryInv'
    <2>1. CASE UNCHANGED <<items, index>>
      BY <2>1
    <2>2. CASE /\ ~Stored(a) /\ \A p \in ps : index[p] = Free
               /\ items' = [items EXCEPT ![a] = With(u, ps)]
               /\ index' = [p \in Proofs |-> IF p \in ps THEN a ELSE index[p]]
      BY <2>2, WithIsAccount
    <2> QED BY <1>2, <2>1, <2>2 DEF Create, Refuse
  <1>3. ASSUME NEW a \in Ids, NEW n \in Names, EnsureGuest(a, n) PROVE MemoryInv'
    <2>1. CASE UNCHANGED <<items, index>>
      BY <2>1
    <2>2. CASE ~Stored(a) /\ items' = [items EXCEPT ![a] = With(Plain(n), {})] /\ UNCHANGED index
      <3>1. Plain(n) \in Row
        BY PlainIsRow
      <3>2. /\ With(Plain(n), {}) \in Account
            /\ \A p \in Proofs : With(Plain(n), {}).ways[p] = Free
        BY <3>1, WithIsAccount
      <3> QED BY <2>2, <3>2
    <2> QED BY <1>3, <2>1, <2>2 DEF EnsureGuest
  <1>4. ASSUME NEW a \in Ids, ByID(a) PROVE MemoryInv'
    BY <1>4 DEF ByID, Refuse
  <1>5. ASSUME NEW a \in Ids, NEW p \in Proofs, NEW m \in Marks, Touch(a, p, m)
        PROVE  MemoryInv'
    BY <1>5 DEF Touch, Refuse, Account
  <1>6. ASSUME NEW a \in Ids, NEW p \in Proofs, AddIdentity(a, p) PROVE MemoryInv'
    BY <1>6, SMTT(20) DEF AddIdentity, Refuse, Account
  <1>7. ASSUME NEW a \in Ids, NEW p \in Proofs, RemoveIdentity(a, p) PROVE MemoryInv'
    BY <1>7 DEF RemoveIdentity, Refuse, Account
  <1>8. ASSUME NEW a \in Ids, NEW v \in Looks, SetAppearance(a, v) PROVE MemoryInv'
    BY <1>8 DEF SetAppearance, Refuse, Account
  <1>9. ASSUME NEW a \in Ids, NEW v \in Images, SetImage(a, v) PROVE MemoryInv'
    BY <1>9 DEF SetImage, Refuse, Account
  <1>10. ASSUME NEW a \in Ids, Delete(a) PROVE MemoryInv'
    BY <1>10 DEF Delete, Refuse, Ways
  <1>11. CASE UNCHANGED memoryVars
    BY <1>11 DEF memoryVars
  <1> QED
    BY <1>1, <1>2, <1>3, <1>4, <1>5, <1>6, <1>7, <1>8, <1>9, <1>10, <1>11
    DEF MemoryNext, Proofs

\* A proof resolves, through the index, to the account that lists it, and to
\* no account that is gone (the hand-kept maps of memory/user.go).
THEOREM IndexAgrees == MemorySpec => [](MemoryTypeOK /\ Indexed)
  BY MemoryInitInv, MemoryNextInv, PTL DEF MemorySpec, MemoryInv

-----------------------------------------------------------------------------
(* The contract's variables, and what each method does to them.            *)

\* Read off the accounts, a proof is where the index says it is.
Mapped ==
    /\ \A a \in Ids : Rows[a] = RowOf(a) /\ (RowOf(a) = Absent <=> ~Stored(a))
    /\ \A p \in Proofs : index[p] = Free => Held[p] = Free
    /\ \A p \in Proofs : index[p] # Free =>
          /\ Stored(index[p])
          /\ Held[p] = [by |-> index[p], mark |-> items[index[p]].ways[p]]
          /\ Held[p].by = index[p]
          /\ Held[p] # Free

LEMMA Mapping == MemoryInv => Mapped
  <1> SUFFICES ASSUME MemoryInv PROVE Mapped
    OBVIOUS
  <1>1. ASSUME NEW a \in Ids
        PROVE  Rows[a] = RowOf(a) /\ (RowOf(a) = Absent <=> ~Stored(a))
    <2>1. CASE Stored(a)
      <3>1. RowOf(a) \in Row
        BY <2>1 DEF MemoryInv, MemoryTypeOK, RowOf, Row, Account, Stored
      <3> QED BY <2>1, <3>1, UserAssumption DEF Rows
    <2>2. CASE ~Stored(a)
      BY <2>2 DEF Rows, RowOf
    <2> QED BY <2>1, <2>2
  <1>2. ASSUME NEW p \in Proofs, index[p] = Free
        PROVE  Held[p] = Free
    <2>1. \A a \in Ids : ~Holds(a, p)
      BY <1>2, UserAssumption DEF MemoryInv, Indexed
    <2> QED BY <2>1 DEF Held, ProofOf
  <1>3. ASSUME NEW p \in Proofs, index[p] # Free
        PROVE  /\ Stored(index[p])
               /\ Held[p] = [by |-> index[p], mark |-> items[index[p]].ways[p]]
               /\ Held[p].by = index[p]
               /\ Held[p] # Free
    <2>1. index[p] \in Ids /\ Holds(index[p], p) /\ \A b \in Ids : Holds(b, p) => b = index[p]
      BY <1>3 DEF MemoryInv, MemoryTypeOK, Indexed
    <2>2. HolderOf(p) = index[p]
      BY <2>1 DEF HolderOf
    <2>3. items[index[p]].ways[p] \in Marks
      BY <2>1 DEF Holds, Stored, MemoryInv, MemoryTypeOK, Account
    <2>4. Held[p] = [by |-> index[p], mark |-> items[index[p]].ways[p]]
      BY <2>1, <2>2 DEF Held, ProofOf
    <2> QED BY <2>1, <2>3, <2>4, UserAssumption DEF Holds
  <1> QED BY <1>1, <1>2, <1>3 DEF Mapped

LEMMA Still == UNCHANGED <<items, index>> => UNCHANGED <<Rows, Held>>
  BY DEF Rows, Held, RowOf, ProofOf, HolderOf, Holds, Stored

LEMMA Refusing ==
  ASSUME NEW call, NEW a, NEW on, NEW why, Refuse(call, a, on, why)
  PROVE  Contract!Declines(call, a, on, why)
  BY Still DEF Refuse, Tell, Contract!Declines, Contract!Answer

LEMMA SeenStored == MemoryInv => \A a \in Ids : Contract!Stored(a) <=> Stored(a)
  BY Mapping DEF Mapped, Contract!Stored

LEMMA SameSets == Contract!Proofs = Proofs /\ Contract!Row = Row
  BY DEF Contract!Proofs, Proofs, Contract!Row, Row

LEMMA SeenHeld ==
  MemoryInv => \A a \in Ids, p \in Proofs :
                  /\ p \in Contract!HeldBy(a) <=> Holds(a, p)
                  /\ Held[p] = Free <=> index[p] = Free
  <1> SUFFICES ASSUME MemoryInv, NEW a \in Ids, NEW p \in Proofs
               PROVE  /\ p \in Contract!HeldBy(a) <=> Holds(a, p)
                      /\ Held[p] = Free <=> index[p] = Free
    OBVIOUS
  <1>1. Mapped
    BY Mapping
  <1>2. Holds(a, p) <=> index[p] = a
    BY DEF MemoryInv, Indexed
  <1>3. Held[p] = Free <=> index[p] = Free
    BY <1>1 DEF Mapped
  <1>4. index[p] # Free => Held[p].by = index[p]
    BY <1>1 DEF Mapped
  <1>5. p \in Contract!HeldBy(a) <=> Held[p] # Free /\ Held[p].by = a
    BY SameSets DEF Contract!HeldBy
  <1>6. a # Free
    BY UserAssumption
  <1> QED BY <1>2, <1>3, <1>4, <1>5, <1>6

\* What the contract sees of one account and of one proof after a step.
LEMMA RowAfter ==
  ASSUME NEW a \in Ids
  PROVE  Rows[a] = (IF Stored(a) THEN [name |-> items[a].name, look |-> items[a].look,
                                       image |-> items[a].image]
                    ELSE Absent)
  BY DEF Rows, RowOf

ProofsSeen == \A p \in Proofs :
    Held[p] = IF index[p] = Free THEN Free
              ELSE [by |-> index[p], mark |-> items[index[p]].ways[p]]

LEMMA ProofAfter == MemoryInv => ProofsSeen
  BY Mapping DEF Mapped, ProofsSeen

LEMMA SameProof ==
  ASSUME MemoryInv, MemoryInv', NEW p \in Proofs, index'[p] = index[p],
         index[p] # Free => items'[index[p]].ways[p] = items[index[p]].ways[p]
  PROVE  Held'[p] = Held[p]
  <1>1. ProofsSeen /\ ProofsSeen'
    BY ProofAfter, PTL
  <1> QED BY <1>1 DEF ProofsSeen

LEMMA NewProof ==
  ASSUME MemoryInv', NEW p \in Proofs, NEW a \in Ids, index'[p] = a
  PROVE  Held'[p] = Contract!Held(a, items'[a].ways[p])
  <1>1. ProofsSeen'
    BY ProofAfter, PTL
  <1> QED BY <1>1, UserAssumption DEF ProofsSeen, Contract!Held

LEMMA FreedProof ==
  ASSUME MemoryInv', NEW p \in Proofs, index'[p] = Free
  PROVE  Held'[p] = Free
  <1>1. ProofsSeen'
    BY ProofAfter, PTL
  <1> QED BY <1>1 DEF ProofsSeen

\* A step that leaves every account's row is not seen in the rows.
LEMMA SameRows ==
  ASSUME \A a \in Ids : RowOf(a)' = RowOf(a)
  PROVE  Rows' = Rows
  BY DEF Rows

\* A step that gives one account another row changes that row alone.
LEMMA OneRow ==
  ASSUME NEW a \in Ids, NEW r, RowOf(a)' = r,
         \A b \in Ids : b # a => items'[b] = items[b]
  PROVE  Rows' = [Rows EXCEPT ![a] = r]
  <1>1. \A b \in Ids : b # a => RowOf(b)' = RowOf(b)
    BY DEF RowOf, Stored
  <1> QED BY <1>1 DEF Rows

LEMMA Done ==
  ASSUME NEW call, NEW a, NEW on, Tell(call, a, on, "done")
  PROVE  Contract!Happens(call, a, on)
  BY DEF Tell, Contract!Happens, Contract!Answer

-----------------------------------------------------------------------------
(* Every method is the contract's operation of the same name.              *)

LEMMA CreateImplements ==
  ASSUME MemoryInv, MemoryInv', NEW a \in Ids, NEW u \in Row, NEW ps \in SUBSET Proofs,
         Create(a, u, ps)
  PROVE  Contract!Create(a, ps)
  <1>1. CASE /\ Stored(a) \/ \E p \in ps : index[p] # Free
             /\ Refuse("Create", a, ps, "refused")
    <2>1. Contract!Stored(a) \/ \E p \in ps : Held[p] # Free
      BY <1>1, SeenStored, SeenHeld
    <2> QED BY <1>1, <2>1, Refusing DEF Contract!Create
  <1>2. CASE /\ ~Stored(a) /\ \A p \in ps : index[p] = Free
             /\ items' = [items EXCEPT ![a] = With(u, ps)]
             /\ index' = [p \in Proofs |-> IF p \in ps THEN a ELSE index[p]]
             /\ Tell("Create", a, ps, "done")
    <2>1. ~Contract!Stored(a) /\ \A p \in ps : Held[p] = Free
      BY <1>2, SeenStored, SeenHeld
    <2>2. /\ items'[a] = With(u, ps) /\ \A b \in Ids : b # a => items'[b] = items[b]
          /\ \A p \in Proofs : index'[p] = IF p \in ps THEN a ELSE index[p]
      BY <1>2 DEF MemoryInv, MemoryTypeOK
    <2>3. Rows' = [Rows EXCEPT ![a] = u]
      <3>1. With(u, ps) # Absent /\ [name |-> With(u, ps).name, look |-> With(u, ps).look,
                                     image |-> With(u, ps).image] = u
        BY WithIsAccount DEF With, Row
      <3>2. RowOf(a)' = u
        BY <3>1, <2>2 DEF RowOf, Stored
      <3> QED BY <3>2, <2>2, OneRow
    <2>4. ASSUME NEW p \in Proofs
          PROVE  Held'[p] = IF p \in ps THEN Contract!Held(a, Fresh) ELSE Held[p]
      <3>1. CASE p \in ps
        <4>1. index'[p] = a /\ items'[a].ways[p] = Fresh
          BY <3>1, <2>2 DEF With
        <4> QED BY <3>1, <4>1, NewProof
      <3>2. CASE p \notin ps
        <4>1. index'[p] = index[p] /\ index[p] # a
          BY <3>2, <2>2, <1>2, UserAssumption DEF MemoryInv, Indexed, Holds
        <4>2. index[p] # Free => items'[index[p]] = items[index[p]]
          BY <4>1, <2>2 DEF MemoryInv, MemoryTypeOK
        <4> QED BY <3>2, <4>1, <4>2, SameProof
      <3> QED BY <3>1, <3>2
    <2>5. Held' = [p \in Contract!Proofs |->
                     IF p \in ps THEN Contract!Held(a, Fresh) ELSE Held[p]]
      BY <2>4, SameSets DEF Held
    <2>6. \E new \in Contract!Row : Rows' = [Rows EXCEPT ![a] = new]
      BY <2>3, SameSets
    <2>7. Contract!Happens("Create", a, ps)
      BY <1>2, Done
    <2> QED BY <2>1, <2>5, <2>6, <2>7 DEF Contract!Create
  <1> QED BY <1>1, <1>2 DEF Create

LEMMA EnsureGuestImplements ==
  ASSUME MemoryInv, MemoryInv', NEW a \in Ids, NEW n \in Names, EnsureGuest(a, n)
  PROVE  Contract!EnsureGuest(a)
  <1>1. Contract!Happens("EnsureGuest", a, {})
    BY Done DEF EnsureGuest
  <1>2. CASE Stored(a)
    <2>1. UNCHANGED <<Rows, Held>>
      BY <1>2, Still DEF EnsureGuest
    <2>2. Contract!Stored(a) /\ \E new \in Contract!Row : TRUE
      BY <1>2, SeenStored, SameSets, PlainIsRow
    <2> QED BY <1>1, <2>1, <2>2 DEF Contract!EnsureGuest
  <1>3. CASE ~Stored(a)
    <2>1. /\ items'[a] = With(Plain(n), {}) /\ \A b \in Ids : b # a => items'[b] = items[b]
          /\ index' = index
      BY <1>3 DEF EnsureGuest, MemoryInv, MemoryTypeOK
    <2>2. Plain(n) \in Row
      BY PlainIsRow
    <2>3. Rows' = [Rows EXCEPT ![a] = Plain(n)]
      <3>1. With(Plain(n), {}) # Absent
        BY <2>2, WithIsAccount
      <3>2. RowOf(a)' = Plain(n)
        BY <3>1, <2>1 DEF RowOf, Stored, With, Plain
      <3> QED BY <3>2, <2>1, OneRow
    <2>4. ASSUME NEW p \in Proofs PROVE Held'[p] = Held[p]
      <3>1. index[p] # a
        BY <1>3 DEF MemoryInv, Indexed, Holds
      <3>2. index[p] # Free => items'[index[p]] = items[index[p]]
        BY <3>1, <2>1 DEF MemoryInv, MemoryTypeOK
      <3> QED BY <2>1, <3>2, SameProof
    <2>5. Held' = Held
      BY <2>4 DEF Held
    <2>6. ~Contract!Stored(a)
      BY <1>3, SeenStored
    <2> QED BY <1>1, <2>2, <2>3, <2>5, <2>6, SameSets DEF Contract!EnsureGuest
  <1> QED BY <1>2, <1>3

LEMMA ByProofImplements ==
  ASSUME MemoryInv, NEW p \in Proofs, ByProof(p)
  PROVE  Contract!ByProof(p)
  <1>1. CASE index[p] = Free
    <2>1. Held[p] = Free
      BY <1>1, Mapping DEF Mapped
    <2>2. Refuse("ByProof", Absent, {p}, "missing")
      BY <1>1 DEF ByProof
    <2> QED BY <2>1, <2>2, Refusing DEF Contract!ByProof
  <1>2. CASE index[p] # Free
    <2>1. index[p] \in Ids
      BY <1>2 DEF MemoryInv, MemoryTypeOK
    <2>2. Held[p] # Free /\ Held[p].by = index[p] /\ Stored(index[p])
      BY <1>2, Mapping DEF Mapped
    <2>3. Contract!Stored(index[p])
      BY <2>1, <2>2, SeenStored
    <2>4. Refuse("ByProof", index[p], {p}, "found")
      BY <1>2, <2>2 DEF ByProof
    <2> QED BY <2>2, <2>3, <2>4, Refusing DEF Contract!ByProof
  <1> QED BY <1>1, <1>2

LEMMA ByIDImplements ==
  ASSUME MemoryInv, NEW a \in Ids, ByID(a)
  PROVE  Contract!ByID(a)
  BY SeenStored, Refusing DEF ByID, Contract!ByID

LEMMA TouchImplements ==
  ASSUME MemoryInv, MemoryInv', NEW a \in Ids, NEW p \in Proofs, NEW m \in Marks, Touch(a, p, m)
  PROVE  Contract!Touch(a, p)
  <1>1. CASE ~Holds(a, p)
    <2>1. p \notin Contract!HeldBy(a)
      BY <1>1, SeenHeld
    <2>2. Refuse("Touch", a, {p}, "missing")
      BY <1>1 DEF Touch
    <2> QED BY <2>1, <2>2, Refusing DEF Contract!Touch
  <1>2. CASE Holds(a, p)
    <2>1. /\ items' = [items EXCEPT ![a].ways[p] = m] /\ index' = index
          /\ Tell("Touch", a, {p}, "done")
      BY <1>2 DEF Touch
    <2>2. items[a] \in Account
      BY <1>2 DEF Holds, Stored, MemoryInv, MemoryTypeOK
    <2>3. /\ items'[a].ways = [items[a].ways EXCEPT ![p] = m]
          /\ items'[a].name = items[a].name /\ items'[a].look = items[a].look
          /\ items'[a].image = items[a].image /\ items'[a] \in Account
          /\ \A b \in Ids : b # a => items'[b] = items[b]
      BY <2>1, <2>2 DEF Account, MemoryInv, MemoryTypeOK
    <2>4. Rows' = Rows
      <3>1. \A b \in Ids : RowOf(b)' = RowOf(b)
        BY <2>2, <2>3, UserAssumption DEF RowOf, Stored
      <3> QED BY <3>1, SameRows
    <2>5. Held'[p] = Contract!Held(a, m)
      <3>1. index'[p] = a /\ items'[a].ways[p] = m
        BY <1>2, <2>1, <2>2, <2>3 DEF MemoryInv, Indexed, Account
      <3> QED BY <3>1, NewProof
    <2>6. ASSUME NEW o \in Proofs, o # p PROVE Held'[o] = Held[o]
      <3>1. index[o] # Free => items'[index[o]].ways[o] = items[index[o]].ways[o]
        BY <2>2, <2>3, <2>6 DEF Account, MemoryInv, MemoryTypeOK
      <3> QED BY <2>1, <3>1, SameProof
    <2>7. Held' = [Held EXCEPT ![p] = Contract!Held(a, m)]
      BY <2>5, <2>6 DEF Held
    <2>8. p \in Contract!HeldBy(a)
      BY <1>2, SeenHeld
    <2> QED BY <2>1, <2>4, <2>7, <2>8, Done DEF Contract!Touch
  <1> QED BY <1>1, <1>2

LEMMA AddIdentityImplements ==
  ASSUME MemoryInv, MemoryInv', NEW a \in Ids, NEW p \in Proofs, AddIdentity(a, p)
  PROVE  Contract!AddIdentity(a, p)
  <1>1. CASE ~Stored(a)
    <2>1. Refuse("AddIdentity", a, {p}, "missing") /\ ~Contract!Stored(a)
      BY <1>1, SeenStored DEF AddIdentity
    <2> QED BY <2>1, Refusing DEF Contract!AddIdentity
  <1>2. CASE Stored(a) /\ index[p] # Free
    <2>1. Refuse("AddIdentity", a, {p}, "refused") /\ Held[p] # Free
      BY <1>2, SeenHeld DEF AddIdentity
    <2> QED BY <2>1, Refusing DEF Contract!AddIdentity
  <1>3. CASE Stored(a) /\ index[p] = Free
    <2>1. /\ items' = [items EXCEPT ![a].ways[p] = Fresh] /\ index' = [index EXCEPT ![p] = a]
          /\ Tell("AddIdentity", a, {p}, "done")
      BY <1>3 DEF AddIdentity
    <2>2. items[a] \in Account
      BY <1>3 DEF Stored, MemoryInv, MemoryTypeOK
    <2>3. /\ items'[a].ways = [items[a].ways EXCEPT ![p] = Fresh]
          /\ items'[a].name = items[a].name /\ items'[a].look = items[a].look
          /\ items'[a].image = items[a].image /\ items'[a] \in Account
          /\ \A b \in Ids : b # a => items'[b] = items[b]
      BY <2>1, <2>2, UserAssumption DEF Account, MemoryInv, MemoryTypeOK
    <2>4. Rows' = Rows
      <3>1. \A b \in Ids : RowOf(b)' = RowOf(b)
        BY <2>2, <2>3, UserAssumption DEF RowOf, Stored
      <3> QED BY <3>1, SameRows
    <2>5. Held'[p] = Contract!Held(a, Fresh)
      <3>1. index'[p] = a /\ items'[a].ways[p] = Fresh
        BY <2>1, <2>2, <2>3 DEF MemoryInv, MemoryTypeOK, Account
      <3> QED BY <3>1, NewProof
    <2>6. ASSUME NEW o \in Proofs, o # p PROVE Held'[o] = Held[o]
      <3>1. index[o] # Free => items'[index[o]].ways[o] = items[index[o]].ways[o]
        BY <2>2, <2>3, <2>6 DEF Account, MemoryInv, MemoryTypeOK
      <3>2. index'[o] = index[o]
        BY <2>1, <2>6 DEF MemoryInv, MemoryTypeOK
      <3> QED BY <3>1, <3>2, SameProof
    <2>7. Held' = [Held EXCEPT ![p] = Contract!Held(a, Fresh)]
      BY <2>5, <2>6 DEF Held
    <2>8. Contract!Stored(a) /\ Held[p] = Free
      BY <1>3, SeenHeld, SeenStored
    <2> QED BY <2>1, <2>4, <2>7, <2>8, Done DEF Contract!AddIdentity
  <1> QED BY <1>1, <1>2, <1>3

LEMMA RemoveIdentityImplements ==
  ASSUME MemoryInv, MemoryInv', NEW a \in Ids, NEW p \in Proofs, RemoveIdentity(a, p)
  PROVE  Contract!RemoveIdentity(a, p)
  <1>1. CASE ~Holds(a, p)
    <2>1. p \notin Contract!HeldBy(a)
      BY <1>1, SeenHeld
    <2>2. Refuse("RemoveIdentity", a, {p}, "missing")
      BY <1>1 DEF RemoveIdentity
    <2> QED BY <2>1, <2>2, Refusing DEF Contract!RemoveIdentity
  <1>2. CASE Holds(a, p)
    <2>1. /\ items' = [items EXCEPT ![a].ways[p] = Free] /\ index' = [index EXCEPT ![p] = Free]
          /\ Tell("RemoveIdentity", a, {p}, "done")
      BY <1>2 DEF RemoveIdentity
    <2>2. items[a] \in Account
      BY <1>2 DEF Holds, Stored, MemoryInv, MemoryTypeOK
    <2>3. /\ items'[a].ways = [items[a].ways EXCEPT ![p] = Free]
          /\ items'[a].name = items[a].name /\ items'[a].look = items[a].look
          /\ items'[a].image = items[a].image /\ items'[a] \in Account
          /\ \A b \in Ids : b # a => items'[b] = items[b]
      BY <2>1, <2>2 DEF Account, MemoryInv, MemoryTypeOK
    <2>4. Rows' = Rows
      <3>1. \A b \in Ids : RowOf(b)' = RowOf(b)
        BY <2>2, <2>3, UserAssumption DEF RowOf, Stored
      <3> QED BY <3>1, SameRows
    <2>5. Held'[p] = Free
      BY <2>1, FreedProof DEF MemoryInv, MemoryTypeOK
    <2>6. ASSUME NEW o \in Proofs, o # p PROVE Held'[o] = Held[o]
      <3>1. index[o] # Free => items'[index[o]].ways[o] = items[index[o]].ways[o]
        BY <2>2, <2>3, <2>6 DEF Account, MemoryInv, MemoryTypeOK
      <3>2. index'[o] = index[o]
        BY <2>1, <2>6 DEF MemoryInv, MemoryTypeOK
      <3> QED BY <3>1, <3>2, SameProof
    <2>7. Held' = [Held EXCEPT ![p] = Free]
      BY <2>5, <2>6 DEF Held
    <2>8. p \in Contract!HeldBy(a)
      BY <1>2, SeenHeld
    <2> QED BY <2>1, <2>4, <2>7, <2>8, Done DEF Contract!RemoveIdentity
  <1> QED BY <1>1, <1>2

\* Another field of the row leaves every proof where it was.
LEMMA SameWays ==
  ASSUME MemoryInv, MemoryInv', UNCHANGED index,
         \A a \in Ids : Stored(a) => items'[a].ways = items[a].ways
  PROVE  Held' = Held
  <1>1. ASSUME NEW p \in Proofs PROVE Held'[p] = Held[p]
    <2>1. index[p] # Free => index[p] \in Ids /\ Stored(index[p])
      BY DEF MemoryInv, MemoryTypeOK, Indexed, Holds
    <2> QED BY <2>1, SameProof
  <1> QED BY <1>1 DEF Held

LEMMA SetAppearanceImplements ==
  ASSUME MemoryInv, MemoryInv', NEW a \in Ids, NEW v \in Looks, SetAppearance(a, v)
  PROVE  Contract!SetAppearance(a)
  <1>1. CASE ~Stored(a)
    <2>1. Refuse("SetAppearance", a, {}, "missing") /\ ~Contract!Stored(a)
      BY <1>1, SeenStored DEF SetAppearance
    <2> QED BY <2>1, Refusing DEF Contract!SetAppearance
  <1>2. CASE Stored(a)
    <2>1. /\ items' = [items EXCEPT ![a].look = v] /\ UNCHANGED index
          /\ Tell("SetAppearance", a, {}, "done") /\ Contract!Stored(a)
      BY <1>2, SeenStored DEF SetAppearance
    <2>2. items[a] \in Account
      BY <1>2 DEF Stored, MemoryInv, MemoryTypeOK
    <2>3. /\ items'[a] = [items[a] EXCEPT !.look = v] /\ items'[a] \in Account
          /\ \A b \in Ids : b # a => items'[b] = items[b]
      BY <2>1, <2>2 DEF Account, MemoryInv, MemoryTypeOK
    <2>4. RowOf(a)' = [Rows[a] EXCEPT !.look = v]
      BY <1>2, <2>2, <2>3, UserAssumption DEF RowOf, Rows, Stored, Account
    <2>5. Rows' = [Rows EXCEPT ![a].look = v]
      BY <2>3, <2>4, OneRow
    <2>6. Held' = Held
      BY <2>1, <2>2, <2>3, SameWays DEF Account
    <2> QED BY <2>1, <2>5, <2>6, Done DEF Contract!SetAppearance
  <1> QED BY <1>1, <1>2

LEMMA SetImageImplements ==
  ASSUME MemoryInv, MemoryInv', NEW a \in Ids, NEW v \in Images, SetImage(a, v)
  PROVE  Contract!SetImage(a)
  <1>1. CASE ~Stored(a)
    <2>1. Refuse("SetImage", a, {}, "missing") /\ ~Contract!Stored(a)
      BY <1>1, SeenStored DEF SetImage
    <2> QED BY <2>1, Refusing DEF Contract!SetImage
  <1>2. CASE Stored(a)
    <2>1. /\ items' = [items EXCEPT ![a].image = v] /\ UNCHANGED index
          /\ Tell("SetImage", a, {}, "done") /\ Contract!Stored(a)
      BY <1>2, SeenStored DEF SetImage
    <2>2. items[a] \in Account
      BY <1>2 DEF Stored, MemoryInv, MemoryTypeOK
    <2>3. /\ items'[a] = [items[a] EXCEPT !.image = v] /\ items'[a] \in Account
          /\ \A b \in Ids : b # a => items'[b] = items[b]
      BY <2>1, <2>2 DEF Account, MemoryInv, MemoryTypeOK
    <2>4. RowOf(a)' = [Rows[a] EXCEPT !.image = v]
      BY <1>2, <2>2, <2>3, UserAssumption DEF RowOf, Rows, Stored, Account
    <2>5. Rows' = [Rows EXCEPT ![a].image = v]
      BY <2>3, <2>4, OneRow
    <2>6. Held' = Held
      BY <2>1, <2>2, <2>3, SameWays DEF Account
    <2> QED BY <2>1, <2>5, <2>6, Done DEF Contract!SetImage
  <1> QED BY <1>1, <1>2

LEMMA DeleteImplements ==
  ASSUME MemoryInv, MemoryInv', NEW a \in Ids, Delete(a)
  PROVE  Contract!Delete(a)
  <1>1. CASE ~Stored(a)
    <2>1. Refuse("Delete", a, {}, "missing") /\ ~Contract!Stored(a)
      BY <1>1, SeenStored DEF Delete
    <2> QED BY <2>1, Refusing DEF Contract!Delete
  <1>2. CASE Stored(a)
    <2>1. /\ items' = [items EXCEPT ![a] = Absent]
          /\ index' = [p \in Proofs |-> IF p \in Ways(a) THEN Free ELSE index[p]]
          /\ Tell("Delete", a, {}, "done") /\ Contract!Stored(a)
      BY <1>2, SeenStored DEF Delete
    <2>2. items'[a] = Absent /\ \A b \in Ids : b # a => items'[b] = items[b]
      BY <2>1 DEF MemoryInv, MemoryTypeOK
    <2>3. RowOf(a)' = Absent
      BY <2>2 DEF RowOf, Stored
    <2>4. Rows' = [Rows EXCEPT ![a] = Absent]
      BY <2>2, <2>3, OneRow
    <2>5. ASSUME NEW p \in Proofs
          PROVE  Held'[p] = IF p \in Contract!HeldBy(a) THEN Free ELSE Held[p]
      <3>1. CASE p \in Ways(a)
        <4>1. p \in Contract!HeldBy(a)
          BY <1>2, <3>1, SeenHeld DEF Ways, Holds
        <4>2. index'[p] = Free
          BY <2>1, <3>1
        <4> QED BY <4>1, <4>2, FreedProof
      <3>2. CASE p \notin Ways(a)
        <4>1. p \notin Contract!HeldBy(a) /\ index[p] # a
          BY <1>2, <3>2, SeenHeld DEF Ways, Holds, MemoryInv, Indexed
        <4>2. index'[p] = index[p]
          BY <2>1, <3>2
        <4>3. index[p] # Free => items'[index[p]] = items[index[p]]
          BY <2>2, <4>1 DEF MemoryInv, MemoryTypeOK
        <4> QED BY <4>1, <4>2, <4>3, SameProof
      <3> QED BY <3>1, <3>2
    <2>6. Held' = [p \in Contract!Proofs |-> IF p \in Contract!HeldBy(a) THEN Free ELSE Held[p]]
      BY <2>5, SameSets DEF Held
    <2> QED BY <2>1, <2>4, <2>6, Done DEF Contract!Delete
  <1> QED BY <1>1, <1>2

-----------------------------------------------------------------------------
(* The refinement.                                                         *)

\* Whatever the contract lets be done to an account is a step of its.
LEMMA Steps ==
  ASSUME NEW a \in Ids,
         \/ \E ps \in SUBSET Proofs : Contract!Create(a, ps)
         \/ \E p \in Proofs : Contract!Touch(a, p)
         \/ \E p \in Subjects : Contract!AddIdentity(a, p) \/ Contract!RemoveIdentity(a, p)
         \/ Contract!EnsureGuest(a) \/ Contract!ByID(a)
         \/ Contract!SetAppearance(a) \/ Contract!SetImage(a) \/ Contract!Delete(a)
  PROVE  Contract!Next
  <1>1. told'.id = a
    <2>1. \A call, on, why : Contract!Declines(call, a, on, why) => told'.id = a
      BY DEF Contract!Declines, Contract!Answer
    <2>2. \A call, on : Contract!Happens(call, a, on) => told'.id = a
      BY DEF Contract!Happens, Contract!Answer
    <2>3. \A call, on : Contract!Fails(call, a, on) => told'.id = a
      BY <2>1 DEF Contract!Fails
    <2> QED BY <2>1, <2>2, <2>3
            DEF Contract!Create, Contract!Touch, Contract!AddIdentity, Contract!RemoveIdentity,
                Contract!EnsureGuest, Contract!ByID, Contract!SetAppearance, Contract!SetImage,
                Contract!Delete
  <1> QED BY <1>1, SameSets DEF Contract!Next

LEMMA InitImplements == MemoryInit => Contract!Init
  <1> SUFFICES ASSUME MemoryInit PROVE Contract!Init
    OBVIOUS
  <1>1. Rows = [a \in Ids |-> Absent]
    BY DEF MemoryInit, Rows, RowOf, Stored
  <1>2. \A a \in Ids, p \in Proofs : ~Holds(a, p)
    BY DEF MemoryInit, Holds, Stored
  <1>3. Held = [p \in Proofs |-> Free]
    BY <1>2 DEF Held, ProofOf
  <1> QED BY <1>1, <1>3, SameSets DEF Contract!Init, Contract!Answer, MemoryInit

LEMMA NextImplements ==
  MemoryInv /\ MemoryInv' /\ [MemoryNext]_memoryVars => [Contract!Next]_(Contract!contractVars)
  <1> SUFFICES ASSUME MemoryInv, MemoryInv', [MemoryNext]_memoryVars
               PROVE  Contract!Next \/ UNCHANGED Contract!contractVars
    OBVIOUS
  <1>1. ASSUME NEW p \in Proofs, ByProof(p) PROVE Contract!Next
    BY <1>1, ByProofImplements, SameSets DEF Contract!Next
  <1>2. ASSUME NEW a \in Ids, NEW u \in Row, NEW ps \in SUBSET Proofs, Create(a, u, ps)
        PROVE  Contract!Next
    BY <1>2, CreateImplements, Steps
  <1>3. ASSUME NEW a \in Ids, NEW n \in Names, EnsureGuest(a, n) PROVE Contract!Next
    BY <1>3, EnsureGuestImplements, Steps
  <1>4. ASSUME NEW a \in Ids, ByID(a) PROVE Contract!Next
    BY <1>4, ByIDImplements, Steps
  <1>5. ASSUME NEW a \in Ids, NEW p \in Proofs, NEW m \in Marks, Touch(a, p, m)
        PROVE  Contract!Next
    BY <1>5, TouchImplements, Steps
  <1>6. ASSUME NEW a \in Ids, NEW p \in Subjects, AddIdentity(a, p) PROVE Contract!Next
    BY <1>6, AddIdentityImplements, Steps DEF Proofs
  <1>7. ASSUME NEW a \in Ids, NEW p \in Subjects, RemoveIdentity(a, p) PROVE Contract!Next
    BY <1>7, RemoveIdentityImplements, Steps DEF Proofs
  <1>8. ASSUME NEW a \in Ids, NEW v \in Looks, SetAppearance(a, v) PROVE Contract!Next
    BY <1>8, SetAppearanceImplements, Steps
  <1>9. ASSUME NEW a \in Ids, NEW v \in Images, SetImage(a, v) PROVE Contract!Next
    BY <1>9, SetImageImplements, Steps
  <1>10. ASSUME NEW a \in Ids, Delete(a) PROVE Contract!Next
    BY <1>10, DeleteImplements, Steps
  <1>11. CASE UNCHANGED memoryVars
    BY <1>11, Still DEF memoryVars, Contract!contractVars
  <1> QED
    BY <1>1, <1>2, <1>3, <1>4, <1>5, <1>6, <1>7, <1>8, <1>9, <1>10, <1>11 DEF MemoryNext

\* The store in memory keeps the contract of the ports: whatever is called, in
\* whatever order, every answer of memory/user.go is one the contract allows.
THEOREM MemoryKeepsContract == MemorySpec => UsersInMemory
  <1>1. MemorySpec => []MemoryInv
    BY MemoryInitInv, MemoryNextInv, PTL DEF MemorySpec
  <1> QED BY <1>1, InitImplements, NextImplements, PTL
          DEF MemorySpec, UsersInMemory, Contract!Spec

-----------------------------------------------------------------------------
(* Lists.                                                                  *)

LEMMA Least ==
  ASSUME NEW T \in SUBSET Nat, T # {}
  PROVE  \E x \in T : \A y \in T : x <= y
  <1> DEFINE Below == {1..x : x \in T}
  <1>1. Below \subseteq FiniteSubsetsOf(Nat) /\ Below # {}
    <2>1. \A x \in T : 1..x \in SUBSET Nat /\ IsFiniteSet(1..x)
      BY FS_Interval
    <2> QED BY <2>1 DEF FiniteSubsetsOf
  <1>2. PICK I \in Below : \A J \in Below : <<J, I>> \notin StrictSubsetOrdering(Nat)
    <2> HIDE DEF Below
    <2> QED BY <1>1, FS_StrictSubsetOrderingWellFounded, WFMin
  <1>3. PICK x \in T : I = 1..x
    BY <1>2
  <1>4. \A y \in T : ~ (y < x)
    <2> SUFFICES ASSUME NEW y \in T, y < x PROVE FALSE
      OBVIOUS
    <2>1. 1..y \in SUBSET Nat /\ 1..x \in SUBSET Nat /\ x \in 1..x /\ x \notin 1..y
      OBVIOUS
    <2>2. 1..y \subseteq 1..x
      OBVIOUS
    <2>3. <<1..y, I>> \in StrictSubsetOrdering(Nat)
      BY <1>3, <2>1, <2>2 DEF StrictSubsetOrdering
    <2> QED BY <1>2, <2>3
  <1> QED BY <1>3, <1>4

LEMMA Appended ==
  ASSUME NEW S, NEW l \in Seq(S), NEW v, NEW m, m = Append(l, v)
  PROVE  /\ m \in Seq(S \cup {v}) /\ Len(m) = Len(l) + 1
         /\ m[Len(l) + 1] = v /\ \A i \in 1..Len(l) : m[i] = l[i]
  <1>1. l \in Seq(S \cup {v}) /\ v \in S \cup {v}
    OBVIOUS
  <1>2. /\ Append(l, v) \in Seq(S \cup {v}) /\ Len(Append(l, v)) = Len(l) + 1
        /\ Append(l, v)[Len(l) + 1] = v /\ \A i \in 1..Len(l) : Append(l, v)[i] = l[i]
    BY <1>1
  <1> QED BY <1>2, Zenon

\* One element of a list is passed: it is kept if it is one of a set, or if it
\* is not there yet.
Onward(how, so, e) ==
    IF how[1] = "seat" THEN IF e \in ToSet(so) THEN so ELSE Append(so, e)
    ELSE IF e \in how[2] THEN Append(so, e) ELSE so

Latest(x) == CHOOSE m \in x : \A y \in x : m >= y

\* What a fold computes from the places x of a sequence.
Folds(how, l, s, iter) ==
    iter = [x \in SUBSET DOMAIN s |-> IF x = {} THEN l ELSE Onward(how, iter[x \ {Latest(x)}], s[Latest(x)])]

Folded(how, l, s) == (CHOOSE iter : Folds(how, l, s, iter))[DOMAIN s]

Once(r, c) == IF c \in ToSet(r) THEN r ELSE Append(r, c)

LEMMA OnlyIs == \A s, S : Only(s, S) = Folded(<<"only", S>>, <<>>, s)
  BY DEF Only, FoldLeft, MapThenFoldSet, Max, Folded, Folds, Onward, Latest

LEMMA OnceIs == \A l, s : FoldLeft(Once, l, s) = Folded(<<"seat", {}>>, l, s)
  BY DEF Once, FoldLeft, MapThenFoldSet, Max, Folded, Folds, Onward, Latest

LEMMA LatestIs == ASSUME NEW k \in Nat, NEW x \in SUBSET (1..k), k \in x PROVE Latest(x) = k
  <1>1. \A y \in x : k >= y
    OBVIOUS
  <1>2. Latest(x) \in x /\ \A y \in x : Latest(x) >= y
    BY <1>1 DEF Latest
  <1>3. Latest(x) \in 1..k /\ Latest(x) >= k /\ k >= Latest(x)
    BY <1>1, <1>2
  <1> QED BY <1>3

LEMMA FoldDefined ==
  ASSUME NEW how, NEW l, NEW s, NEW n \in Nat, DOMAIN s = 1..n
  PROVE  \E iter : Folds(how, l, s, iter)
  <1> DEFINE Upto(k, g) ==
                g = [x \in SUBSET (1..k) |-> IF x = {} THEN l
                                             ELSE Onward(how, g[x \ {Latest(x)}], s[Latest(x)])]
             T == {k \in Nat : ~ \E g : Upto(k, g)}
  <1>1. \E g : Upto(0, g)
    <2>1. PICK g : g = [x \in SUBSET (1..0) |-> l]
      OBVIOUS
    <2>2. \A x \in SUBSET (1..0) : x = {}
      OBVIOUS
    <2>3. Upto(0, g)
      BY <2>1, <2>2
    <2> QED BY <2>3
  <1>2. ASSUME NEW k \in Nat, k # 0, NEW g, Upto(k - 1, g) PROVE \E h : Upto(k, h)
    <2>1. PICK h : h = [x \in SUBSET (1..k) |-> IF k \in x THEN Onward(how, g[x \ {k}], s[k]) ELSE g[x]]
      OBVIOUS
    <2>2. ASSUME NEW x \in SUBSET (1..k)
          PROVE  h[x] = IF x = {} THEN l ELSE Onward(how, h[x \ {Latest(x)}], s[Latest(x)])
      <3>1. CASE k \in x
        <4>1. Latest(x) = k
          BY <3>1, LatestIs
        <4>2. x \ {k} \in SUBSET (1..k) /\ k \notin x \ {k}
          OBVIOUS
        <4>3. h[x \ {k}] = g[x \ {k}]
          BY <2>1, <4>2
        <4> QED BY <2>1, <3>1, <4>1, <4>3
      <3>2. CASE k \notin x
        <4>1. x \in SUBSET (1..(k - 1))
          BY <3>2
        <4>2. g[x] = IF x = {} THEN l ELSE Onward(how, g[x \ {Latest(x)}], s[Latest(x)])
          BY <1>2, <4>1
        <4>3. x \ {Latest(x)} \in SUBSET (1..k) /\ k \notin x \ {Latest(x)}
          BY <3>2
        <4>4. h[x \ {Latest(x)}] = g[x \ {Latest(x)}] /\ h[x] = g[x]
          BY <2>1, <3>2, <4>3
        <4> QED BY <4>2, <4>4
      <3> QED BY <3>1, <3>2
    <2>3. Upto(k, h)
      BY <2>1, <2>2
    <2> QED BY <2>3
  <1>3. T = {}
    <2> SUFFICES ASSUME T # {} PROVE FALSE
      OBVIOUS
    <2>1. T \in SUBSET Nat
      OBVIOUS
    <2>2. PICK k \in T : \A y \in T : k <= y
      BY <2>1, Least
    <2> HIDE DEF Upto
    <2>3. k \in Nat /\ k # 0
      BY <1>1
    <2>4. k - 1 \in Nat /\ k - 1 \notin T
      BY <2>2, <2>3
    <2>5. \E g : Upto(k - 1, g)
      BY <2>4
    <2> QED BY <1>2, <2>3, <2>5
  <1>4. PICK g : Upto(n, g)
    <2> HIDE DEF Upto
    <2> QED BY <1>3
  <1>5. Folds(how, l, s, g)
    BY <1>4 DEF Folds
  <1> QED BY <1>5

LEMMA FoldLocal ==
  ASSUME NEW how, NEW l, NEW s, NEW t, NEW n \in Nat, NEW m \in Nat, n <= m,
         DOMAIN s = 1..n, DOMAIN t = 1..m, \A i \in 1..n : s[i] = t[i],
         NEW g, Folds(how, l, s, g), NEW h, Folds(how, l, t, h)
  PROVE  \A x \in SUBSET (1..n) : g[x] = h[x]
  <1>1. \A x \in SUBSET (1..n) :
           g[x] = IF x = {} THEN l ELSE Onward(how, g[x \ {Latest(x)}], s[Latest(x)])
    BY DEF Folds
  <1>2. \A x \in SUBSET (1..n) :
           h[x] = IF x = {} THEN l ELSE Onward(how, h[x \ {Latest(x)}], t[Latest(x)])
    <2>1. \A x \in SUBSET (1..m) :
             h[x] = IF x = {} THEN l ELSE Onward(how, h[x \ {Latest(x)}], t[Latest(x)])
      BY DEF Folds
    <2>2. \A x \in SUBSET (1..n) : x \in SUBSET (1..m)
      OBVIOUS
    <2> QED BY <2>1, <2>2
  <1> DEFINE T == {k \in Nat : k <= n /\ \E x \in SUBSET (1..k) : g[x] # h[x]}
  <1>3. T = {}
    <2> SUFFICES ASSUME T # {} PROVE FALSE
      OBVIOUS
    <2>1. T \in SUBSET Nat
      OBVIOUS
    <2>2. PICK k \in T : \A y \in T : k <= y
      BY <2>1, Least
    <2>3. PICK x \in SUBSET (1..k) : g[x] # h[x]
      OBVIOUS
    <2>4. x \in SUBSET (1..n) /\ k \in Nat /\ k <= n
      OBVIOUS
    <2>5. x # {}
      BY <1>1, <1>2, <2>3, <2>4
    <2>6. k # 0
      <3> SUFFICES ASSUME k = 0 PROVE x = {}
        BY <2>5
      <3> QED BY <2>3
    <2>7. k - 1 \in Nat /\ \A y \in SUBSET (1..(k - 1)) : g[y] = h[y]
      <3>1. k - 1 \in Nat /\ k - 1 <= n /\ ~(k <= k - 1)
        BY <2>4, <2>6
      <3>2. k - 1 \notin T
        BY <2>2, <3>1
      <3> QED BY <3>1, <3>2
    <2>8. k \in x
      <3> SUFFICES ASSUME k \notin x PROVE FALSE
        OBVIOUS
      <3>1. x \in SUBSET (1..(k - 1))
        BY <2>4
      <3> QED BY <2>3, <2>7, <3>1
    <2>9. Latest(x) = k /\ k \in 1..n
      BY <2>4, <2>8, LatestIs
    <2>10. g[x \ {k}] = h[x \ {k}]
      <3>1. x \ {k} \in SUBSET (1..(k - 1))
        BY <2>4
      <3> QED BY <2>7, <3>1
    <2>11. s[k] = t[k]
      BY <2>9
    <2> QED BY <1>1, <1>2, <2>3, <2>4, <2>5, <2>9, <2>10, <2>11
  <1>4. n \notin T
    BY <1>3
  <1> QED BY <1>4

LEMMA FoldNone == ASSUME NEW how, NEW l PROVE Folded(how, l, <<>>) = l
  <1>1. DOMAIN <<>> = 1..0
    OBVIOUS
  <1>2. PICK iter : Folds(how, l, <<>>, iter) /\ Folded(how, l, <<>>) = iter[DOMAIN <<>>]
    BY <1>1, FoldDefined DEF Folded
  <1>3. iter[{}] = l
    BY <1>2 DEF Folds
  <1> QED BY <1>1, <1>2, <1>3

LEMMA FoldNext ==
  ASSUME NEW how, NEW l, NEW S, NEW s \in Seq(S), NEW e
  PROVE  Folded(how, l, Append(s, e)) = Onward(how, Folded(how, l, s), e)
  <1>1. PICK n \in Nat : n = Len(s) /\ DOMAIN s = 1..n
    OBVIOUS
  <1>2. PICK t : /\ t = Append(s, e) /\ Len(t) = n + 1 /\ DOMAIN t = 1..(n + 1)
                 /\ t[n + 1] = e /\ \A i \in 1..n : t[i] = s[i]
    <2>1. PICK t : t = Append(s, e)
      OBVIOUS
    <2>2. /\ t \in Seq(S \cup {e}) /\ Len(t) = n + 1
          /\ t[n + 1] = e /\ \A i \in 1..n : t[i] = s[i]
      BY <1>1, <2>1, Appended
    <2>3. DOMAIN t = 1..(n + 1)
      BY <2>2
    <2> QED BY <2>1, <2>2, <2>3, Zenon
  <1>3. PICK g : Folds(how, l, s, g) /\ Folded(how, l, s) = g[1..n]
    BY <1>1, FoldDefined DEF Folded
  <1>4. PICK h : Folds(how, l, t, h) /\ Folded(how, l, t) = h[1..(n + 1)]
    <2>1. n + 1 \in Nat
      OBVIOUS
    <2> QED BY <1>2, <2>1, FoldDefined DEF Folded
  <1>5. g[1..n] = h[1..n]
    <2>1. PICK m \in Nat : m = n + 1 /\ n <= m
      OBVIOUS
    <2>2. DOMAIN s = 1..n
      BY <1>1
    <2>3. DOMAIN t = 1..m
      BY <1>2, <2>1
    <2>4. \A i \in 1..n : s[i] = t[i]
      BY <1>2
    <2>5. Folds(how, l, s, g)
      BY <1>3
    <2>6. Folds(how, l, t, h)
      BY <1>4
    <2>7. n \in Nat /\ m \in Nat /\ n <= m
      BY <1>1, <2>1
    <2>8. \A x \in SUBSET (1..n) : g[x] = h[x]
      BY <2>2, <2>3, <2>4, <2>5, <2>6, <2>7, FoldLocal
    <2> QED BY <2>8
  <1>6. h[1..(n + 1)] = Onward(how, h[1..n], t[n + 1])
    <2>1. PICK x : x = 1..(n + 1)
      OBVIOUS
    <2>2. x \in SUBSET DOMAIN t /\ x # {} /\ x \ {n + 1} = 1..n
      BY <1>2, <2>1
    <2>3. Latest(x) = n + 1
      <3>1. n + 1 \in Nat /\ x \in SUBSET (1..(n + 1)) /\ n + 1 \in x
        BY <2>1
      <3> QED BY <3>1, LatestIs
    <2>4. h[x] = Onward(how, h[x \ {Latest(x)}], t[Latest(x)])
      BY <1>4, <2>2 DEF Folds
    <2> QED BY <2>1, <2>2, <2>3, <2>4
  <1> QED BY <1>2, <1>3, <1>4, <1>5, <1>6

\* What holds of the empty list, and of a list with one more when it holds of
\* the list, holds of every list.
LEMMA Lists ==
  ASSUME NEW S, NEW G, <<>> \in G, \A s \in Seq(S) : \A e \in S : s \in G => Append(s, e) \in G
  PROVE  Seq(S) \subseteq G
  <1> DEFINE T == {k \in Nat : \E s \in Seq(S) : Len(s) = k /\ s \notin G}
  <1>1. SUFFICES ASSUME T # {} PROVE FALSE
    <2>1. \A s \in Seq(S) : Len(s) \in Nat
      OBVIOUS
    <2> QED BY <2>1
  <1>2. T \in SUBSET Nat
    OBVIOUS
  <1>3. PICK k \in T : \A y \in T : k <= y
    <2> HIDE DEF T
    <2> QED BY <1>1, <1>2, Least
  <1>4. PICK s \in Seq(S) : Len(s) = k /\ s \notin G
    BY <1>3
  <1>5. k # 0
    <2> SUFFICES ASSUME k = 0 PROVE FALSE
      OBVIOUS
    <2>1. s = <<>>
      BY <1>4
    <2> QED BY <1>4, <2>1
  <1>6. k \in Nat
    OBVIOUS
  <1> DEFINE b == SubSeq(s, 1, k - 1)
  <1>7. b \in Seq(S) /\ Len(b) = k - 1 /\ s[k] \in S /\ s = Append(b, s[k])
    BY <1>4, <1>5, <1>6
  <1>8. k - 1 \in Nat /\ k - 1 \notin T
    BY <1>3, <1>5, <1>6
  <1> HIDE DEF b
  <1>9. b \in G
    BY <1>7, <1>8
  <1> QED BY <1>4, <1>7, <1>9

LEMMA OnlyNone == \A S : Only(<<>>, S) = <<>>
  BY OnlyIs, FoldNone

LEMMA OnlyNext ==
  ASSUME NEW T, NEW s \in Seq(T), NEW e, NEW S
  PROVE  Only(Append(s, e), S) = IF e \in S THEN Append(Only(s, S), e) ELSE Only(s, S)
  <1>1. Folded(<<"only", S>>, <<>>, Append(s, e)) = Onward(<<"only", S>>, Folded(<<"only", S>>, <<>>, s), e)
    BY FoldNext
  <1> QED BY <1>1, OnlyIs DEF Onward

LEMMA OnceNone == \A l : FoldLeft(Once, l, <<>>) = l
  BY OnceIs, FoldNone

LEMMA OnceNext ==
  ASSUME NEW T, NEW s \in Seq(T), NEW e, NEW l
  PROVE  FoldLeft(Once, l, Append(s, e)) = Once(FoldLeft(Once, l, s), e)
  <1>1. Folded(<<"seat", {}>>, l, Append(s, e)) = Onward(<<"seat", {}>>, Folded(<<"seat", {}>>, l, s), e)
    BY FoldNext
  <1> QED BY <1>1, OnceIs DEF Onward, Once

LEMMA AppendIs ==
  ASSUME NEW T, NEW s \in Seq(T), NEW e \in T
  PROVE  /\ Append(s, e) \in Seq(T) /\ Len(Append(s, e)) = Len(s) + 1 /\ Len(s) \in Nat
         /\ Append(s, e)[Len(s) + 1] = e
         /\ \A i \in 1..Len(s) : Append(s, e)[i] = s[i] /\ s[i] \in ToSet(s)
         /\ ToSet(Append(s, e)) = ToSet(s) \cup {e}
  <1>1. PICK t : t = Append(s, e)
    OBVIOUS
  <1>2. /\ t \in Seq(T) /\ Len(t) = Len(s) + 1 /\ Len(s) \in Nat
        /\ t[Len(s) + 1] = e /\ \A i \in 1..Len(s) : t[i] = s[i]
    BY <1>1
  <1>3. \A i \in 1..Len(s) : s[i] \in ToSet(s)
    BY DEF ToSet
  <1>4. ToSet(t) = ToSet(s) \cup {e}
    <2>1. DOMAIN t = 1..(Len(s) + 1) /\ DOMAIN s = 1..Len(s)
      BY <1>2
    <2>2. DOMAIN t = DOMAIN s \cup {Len(s) + 1}
      BY <1>2, <2>1
    <2>3. \A i \in DOMAIN s : t[i] = s[i]
      BY <1>2, <2>1
    <2> QED BY <1>2, <2>2, <2>3 DEF ToSet
  <1> QED BY <1>1, <1>2, <1>3, <1>4, Zenon

\* A list in the order R, a set of pairs.
Ascending(s, R) == \A i, j \in 1..Len(s) : i < j => <<s[i], s[j]>> \in R

LEMMA AscendingNext ==
  ASSUME NEW T, NEW s \in Seq(T), NEW e \in T, NEW R
  PROVE  Ascending(Append(s, e), R) <=> Ascending(s, R) /\ \A x \in ToSet(s) : <<x, e>> \in R
  <1>1. PICK t : t = Append(s, e)
    OBVIOUS
  <1>2. /\ Len(t) = Len(s) + 1 /\ Len(s) \in Nat /\ t[Len(s) + 1] = e
        /\ \A i \in 1..Len(s) : t[i] = s[i]
    BY <1>1
  <1>3. ASSUME Ascending(t, R) PROVE Ascending(s, R) /\ \A x \in ToSet(s) : <<x, e>> \in R
    <2>1. \A i \in 1..Len(s) : <<s[i], e>> \in R
      BY <1>2, <1>3 DEF Ascending
    <2>2. DOMAIN s = 1..Len(s)
      OBVIOUS
    <2>3. Ascending(s, R)
      BY <1>2, <1>3 DEF Ascending
    <2> QED BY <2>1, <2>2, <2>3 DEF ToSet
  <1>4. ASSUME Ascending(s, R), \A x \in ToSet(s) : <<x, e>> \in R PROVE Ascending(t, R)
    <2> SUFFICES ASSUME NEW i \in 1..Len(t), NEW j \in 1..Len(t), i < j
                 PROVE  <<t[i], t[j]>> \in R
      BY DEF Ascending
    <2>1. i \in 1..Len(s) /\ s[i] \in ToSet(s)
      BY <1>2 DEF ToSet
    <2>2. CASE j \in 1..Len(s)
      BY <1>2, <1>4, <2>1, <2>2 DEF Ascending
    <2>3. CASE j = Len(s) + 1
      BY <1>2, <1>4, <2>1, <2>3
    <2> QED BY <1>2, <2>2, <2>3
  <1> QED BY <1>1, <1>3, <1>4

LEMMA AscendingNone == \A R : Ascending(<<>>, R)
  BY DEF Ascending

\* What is left of a list are its elements that are asked for, in its order.
Kept(s, T, S) ==
    /\ Only(s, S) \in Seq(T)
    /\ ToSet(Only(s, S)) = ToSet(s) \cap S
    /\ ToSet(s) \subseteq S => Only(s, S) = s
    /\ Len(Only(s, S)) <= Len(s)
    /\ ~ (ToSet(s) \subseteq S) => Len(Only(s, S)) < Len(s)

LEMMA OnlyKeeps ==
  ASSUME NEW T, NEW S, NEW s \in Seq(T)
  PROVE  Kept(s, T, S)
  <1> DEFINE G == {l \in Seq(T) : Kept(l, T, S)}
  <1>1. <<>> \in G
    <2>1. ToSet(<<>>) = {}
      BY DEF ToSet
    <2>2. <<>> \in Seq(T) /\ Len(<<>>) = 0
      OBVIOUS
    <2>3. PICK n : n = <<>>
      OBVIOUS
    <2>4. n \in Seq(T) /\ Len(n) = 0 /\ ToSet(n) = {} /\ Only(n, S) = n
      BY <2>1, <2>2, <2>3, OnlyNone, Zenon
    <2>5. Kept(n, T, S)
      BY <2>4 DEF Kept
    <2> QED BY <2>3, <2>4, <2>5
  <1>2. ASSUME NEW l \in Seq(T), NEW e \in T, l \in G PROVE Append(l, e) \in G
    <2>1. PICK k \in Seq(T) : k = Only(l, S)
      BY <1>2 DEF Kept
    <2>2. PICK m : m = Append(l, e)
      OBVIOUS
    <2>3. /\ m \in Seq(T) /\ Len(m) = Len(l) + 1 /\ Len(l) \in Nat
          /\ ToSet(m) = ToSet(l) \cup {e}
      BY <2>2, AppendIs
    <2>4. /\ ToSet(k) = ToSet(l) \cap S /\ Len(k) <= Len(l) /\ Len(k) \in Nat
          /\ ToSet(l) \subseteq S => k = l
          /\ ~ (ToSet(l) \subseteq S) => Len(k) < Len(l)
      BY <1>2, <2>1 DEF Kept
    <2>5. Only(m, S) = IF e \in S THEN Append(k, e) ELSE k
      BY <2>1, <2>2, OnlyNext
    <2>6. CASE e \in S
      <3>1. PICK n : n = Append(k, e)
        OBVIOUS
      <3>2. /\ n \in Seq(T) /\ Len(n) = Len(k) + 1 /\ ToSet(n) = ToSet(k) \cup {e}
        BY <3>1, AppendIs
      <3>3. Only(m, S) = n
        BY <2>5, <2>6, <3>1
      <3>4. ToSet(l) \subseteq S => n = m
        BY <2>2, <2>4, <3>1
      <3>5. Kept(m, T, S)
        BY <2>3, <2>4, <2>6, <3>2, <3>3, <3>4 DEF Kept
      <3> QED BY <2>2, <2>3, <3>5
    <2>7. CASE e \notin S
      <3>1. Only(m, S) = k
        BY <2>5, <2>7
      <3>2. Kept(m, T, S)
        BY <2>1, <2>3, <2>4, <2>7, <3>1 DEF Kept
      <3> QED BY <2>2, <2>3, <3>2
    <2> QED BY <2>6, <2>7
  <1>3. Seq(T) \subseteq G
    <2> HIDE DEF G
    <2> QED BY <1>1, <1>2, Lists
  <1> QED BY <1>3

LEMMA OnlyAscends ==
  ASSUME NEW T, NEW S, NEW R, NEW s \in Seq(T), Ascending(s, R)
  PROVE  Ascending(Only(s, S), R)
  <1> DEFINE G == {l \in Seq(T) : Ascending(l, R) => Ascending(Only(l, S), R)}
  <1>1. <<>> \in G
    BY OnlyNone, AscendingNone
  <1>2. ASSUME NEW l \in Seq(T), NEW e \in T, l \in G PROVE Append(l, e) \in G
    <2>1. PICK k \in Seq(T) : k = Only(l, S) /\ ToSet(k) \subseteq ToSet(l)
      BY OnlyKeeps DEF Kept
    <2>2. PICK m \in Seq(T) : m = Append(l, e)
      BY AppendIs
    <2>3. Only(m, S) = IF e \in S THEN Append(k, e) ELSE k
      BY <2>1, <2>2, OnlyNext
    <2>4. ASSUME Ascending(m, R) PROVE Ascending(Only(m, S), R)
      <3>1. Ascending(l, R) /\ \A x \in ToSet(l) : <<x, e>> \in R
        BY <2>2, <2>4, AscendingNext
      <3>2. Ascending(k, R)
        BY <1>2, <2>1, <3>1
      <3>3. Ascending(Append(k, e), R)
        BY <2>1, <3>1, <3>2, AscendingNext
      <3> QED BY <2>3, <3>2, <3>3
    <2> QED BY <2>2, <2>4
  <1>3. Seq(T) \subseteq G
    <2> HIDE DEF G
    <2> QED BY <1>1, <1>2, Lists
  <1> QED BY <1>3

Different(T) == {xy \in T \X T : xy[1] # xy[2]}

LEMMA InjectiveAscends ==
  ASSUME NEW T, NEW s \in Seq(T)
  PROVE  IsInjective(s) <=> Ascending(s, Different(T))
  <1>1. DOMAIN s = 1..Len(s) /\ Len(s) \in Nat /\ \A i \in 1..Len(s) : s[i] \in T
    OBVIOUS
  <1>2. ASSUME IsInjective(s) PROVE Ascending(s, Different(T))
    BY <1>1, <1>2 DEF IsInjective, Ascending, Different
  <1>3. ASSUME Ascending(s, Different(T)), NEW i \in 1..Len(s), NEW j \in 1..Len(s), s[i] = s[j]
        PROVE  i = j
    <2>1. ~(i < j) /\ ~(j < i)
      BY <1>3 DEF Ascending, Different
    <2> QED BY <1>1, <2>1
  <1> QED BY <1>1, <1>2, <1>3 DEF IsInjective

\* A list without repetition is as long as what it lists.
LEMMA DifferentLength ==
  ASSUME NEW S, NEW s \in Seq(S), IsInjective(s)
  PROVE  /\ IsFiniteSet(ToSet(s)) /\ Cardinality(ToSet(s)) = Len(s)
         /\ IsFiniteSet(S) => Len(s) <= Cardinality(S)
  <1>1. PICK n \in Nat : n = Len(s) /\ DOMAIN s = 1..n /\ s \in [1..n -> S]
    OBVIOUS
  <1>2. IsFiniteSet(1..n) /\ Cardinality(1..n) = n
    BY FS_Interval
  <1>3. s \in [1..n -> ToSet(s)] /\ \A e \in ToSet(s) : \E i \in 1..n : s[i] = e
    BY <1>1 DEF ToSet
  <1>4. s \in Injection(1..n, ToSet(s)) /\ s \in Surjection(1..n, ToSet(s))
    BY <1>1, <1>3 DEF Injection, Surjection, IsInjective
  <1>5. IsFiniteSet(ToSet(s)) /\ Cardinality(ToSet(s)) = n
    BY <1>2, <1>4, FS_Surjection
  <1>6. ASSUME IsFiniteSet(S) PROVE n <= Cardinality(S)
    <2>1. s \in Injection(1..n, S)
      BY <1>1 DEF Injection, IsInjective
    <2> QED BY <1>2, <1>6, <2>1, FS_Injection
  <1> QED BY <1>1, <1>5, <1>6

First(s, c) == CHOOSE i \in DOMAIN s : s[i] = c /\ \A k \in 1..(i - 1) : s[k] # c

LEMMA FirstIs ==
  ASSUME NEW T, NEW s \in Seq(T), NEW i \in 1..Len(s), \A k \in 1..(i - 1) : s[k] # s[i]
  PROVE  First(s, s[i]) = i
  <1>1. DOMAIN s = 1..Len(s) /\ Len(s) \in Nat
    OBVIOUS
  <1>2. ASSUME NEW j \in 1..Len(s), s[j] = s[i], \A k \in 1..(j - 1) : s[k] # s[i]
        PROVE  j = i
    <2>1. ~(i < j) /\ ~(j < i)
      BY <1>2
    <2> QED BY <2>1
  <1>3. First(s, s[i]) = CHOOSE j \in 1..Len(s) : s[j] = s[i] /\ \A k \in 1..(j - 1) : s[k] # s[i]
    BY <1>1 DEF First
  <1> QED BY <1>2, <1>3

LEMMA FirstExists ==
  ASSUME NEW T, NEW s \in Seq(T), NEW c \in ToSet(s)
  PROVE  \E i \in 1..Len(s) : s[i] = c /\ \A k \in 1..(i - 1) : s[k] # s[i]
  <1> DEFINE at == {i \in 1..Len(s) : s[i] = c}
  <1>1. at \in SUBSET Nat /\ at # {}
    BY DEF ToSet
  <1>2. PICK i \in at : \A k \in at : i <= k
    BY <1>1, Least
  <1>3. \A k \in 1..(i - 1) : k \notin at /\ k \in 1..Len(s)
    <2> SUFFICES ASSUME NEW k \in 1..(i - 1) PROVE k \notin at /\ k \in 1..Len(s)
      OBVIOUS
    <2>1. i \in 1..Len(s) /\ Len(s) \in Nat /\ k \in 1..Len(s) /\ ~(i <= k)
      BY <1>2
    <2> QED BY <1>2, <2>1
  <1> QED BY <1>2, <1>3

LEMMA FirstNext ==
  ASSUME NEW T, NEW s \in Seq(T), NEW e \in T
  PROVE  /\ \A c \in ToSet(s) : First(Append(s, e), c) = First(s, c) /\ First(s, c) \in 1..Len(s)
         /\ e \notin ToSet(s) => First(Append(s, e), e) = Len(s) + 1
  <1>1. PICK t \in Seq(T) : t = Append(s, e)
    BY AppendIs
  <1>2. /\ Len(t) = Len(s) + 1 /\ Len(s) \in Nat /\ t[Len(s) + 1] = e
        /\ \A i \in 1..Len(s) : t[i] = s[i] /\ s[i] \in ToSet(s)
    BY <1>1, AppendIs
  <1>3. ASSUME NEW c \in ToSet(s) PROVE First(t, c) = First(s, c) /\ First(s, c) \in 1..Len(s)
    <2>1. PICK i \in 1..Len(s) : s[i] = c /\ \A k \in 1..(i - 1) : s[k] # s[i]
      BY FirstExists
    <2>2. First(s, c) = i
      BY <2>1, FirstIs
    <2>3. i \in 1..Len(t) /\ t[i] = c /\ \A k \in 1..(i - 1) : t[k] # t[i]
      BY <1>2, <2>1
    <2>4. First(t, c) = i
      BY <2>3, FirstIs
    <2> QED BY <2>2, <2>4
  <1>4. ASSUME e \notin ToSet(s) PROVE First(t, e) = Len(s) + 1
    <2>1. PICK i \in 1..Len(t) : i = Len(s) + 1 /\ t[i] = e /\ \A k \in 1..(i - 1) : t[k] # t[i]
      BY <1>2, <1>4
    <2> QED BY <2>1, FirstIs
  <1> QED BY <1>1, <1>3, <1>4

\* What seating the characters cs one after another makes of a roster l.
Added(T, l, cs, new) ==
    /\ new \in Seq(T) /\ IsInjective(new)
    /\ Len(l) <= Len(new) /\ \A i \in 1..Len(l) : new[i] = l[i]
    /\ ToSet(new) = ToSet(l) \cup ToSet(cs)
    /\ \A i, j \in (Len(l) + 1)..Len(new) : i < j => First(cs, new[i]) < First(cs, new[j])

LEMMA OnceNothing ==
  ASSUME NEW T, NEW l \in Seq(T), IsInjective(l)
  PROVE  Added(T, l, <<>>, l)
  <1>1. ToSet(<<>>) = {} /\ Len(l) \in Nat /\ (Len(l) + 1)..Len(l) = {}
    BY DEF ToSet
  <1> QED BY <1>1 DEF Added

LEMMA OnceOne ==
  ASSUME NEW T, NEW l \in Seq(T), NEW cs \in Seq(T), NEW e \in T, NEW new, Added(T, l, cs, new)
  PROVE  Added(T, l, Append(cs, e), Once(new, e))
  <1>1. /\ new \in Seq(T) /\ IsInjective(new)
        /\ Len(l) <= Len(new) /\ \A i \in 1..Len(l) : new[i] = l[i]
        /\ ToSet(new) = ToSet(l) \cup ToSet(cs)
        /\ \A i, j \in (Len(l) + 1)..Len(new) : i < j => First(cs, new[i]) < First(cs, new[j])
    BY DEF Added
  <1>2. PICK ds \in Seq(T) : ds = Append(cs, e) /\ ToSet(ds) = ToSet(cs) \cup {e}
    <2>1. Append(cs, e) \in Seq(T)
      OBVIOUS
    <2>2. ToSet(Append(cs, e)) = ToSet(cs) \cup {e}
      BY AppendIs
    <2> QED BY <2>1, <2>2
  <1>3. Len(l) \in Nat /\ Len(new) \in Nat /\ Len(cs) \in Nat
    BY <1>1
  <1>4. \A i \in (Len(l) + 1)..Len(new) : new[i] \in ToSet(cs)
    <2> SUFFICES ASSUME NEW i \in (Len(l) + 1)..Len(new), new[i] \in ToSet(l) PROVE FALSE
      <3>1. \A i \in 1..Len(new) : new[i] \in ToSet(new)
        BY <1>1 DEF ToSet
      <3> QED BY <1>1, <1>3, <3>1
    <2>1. PICK k \in 1..Len(l) : l[k] = new[i]
      BY DEF ToSet
    <2>2. k \in DOMAIN new /\ i \in DOMAIN new /\ new[k] = new[i] /\ k # i
      BY <1>1, <1>3, <2>1
    <2> QED BY <1>1, <2>2 DEF IsInjective
  <1>5. \A c \in ToSet(cs) : First(ds, c) = First(cs, c) /\ First(cs, c) \in 1..Len(cs)
    BY <1>2, FirstNext
  <1>6. \A i, j \in (Len(l) + 1)..Len(new) : i < j => First(ds, new[i]) < First(ds, new[j])
    BY <1>1, <1>4, <1>5
  <1>7. CASE e \in ToSet(new)
    <2>1. Once(new, e) = new /\ ToSet(new) = ToSet(l) \cup ToSet(ds)
      BY <1>1, <1>2, <1>7 DEF Once
    <2> QED BY <1>1, <1>2, <1>6, <2>1 DEF Added
  <1>8. CASE e \notin ToSet(new)
    <2>1. PICK m \in Seq(T) : m = Append(new, e)
      BY <1>1, AppendIs
    <2>2. /\ Len(m) = Len(new) + 1 /\ m[Len(new) + 1] = e
          /\ \A i \in 1..Len(new) : m[i] = new[i] /\ new[i] \in ToSet(new)
      BY <1>1, <2>1, AppendIs
    <2>3. ToSet(m) = ToSet(new) \cup {e}
      BY <1>1, <2>1, AppendIs
    <2>4. Once(new, e) = m
      BY <1>8, <2>1 DEF Once
    <2>5. IsInjective(m)
      <3>1. DOMAIN m = 1..(Len(new) + 1) /\ DOMAIN new = 1..Len(new)
        BY <1>1, <2>2
      <3> SUFFICES ASSUME NEW i \in 1..(Len(new) + 1), NEW j \in 1..(Len(new) + 1), m[i] = m[j]
                   PROVE  i = j
        BY <3>1 DEF IsInjective
      <3>2. CASE i \in 1..Len(new) /\ j \in 1..Len(new)
        BY <1>1, <2>2, <3>1, <3>2 DEF IsInjective
      <3>3. CASE i = Len(new) + 1 \/ j = Len(new) + 1
        BY <1>3, <1>8, <2>2, <3>3
      <3> QED BY <1>3, <3>2, <3>3
    <2>6. e \notin ToSet(cs)
      BY <1>1, <1>8
    <2>7. First(ds, e) = Len(cs) + 1
      BY <1>2, <2>6, FirstNext
    <2>8. ASSUME NEW i \in (Len(l) + 1)..Len(m), NEW j \in (Len(l) + 1)..Len(m), i < j
          PROVE  First(ds, m[i]) < First(ds, m[j])
      <3>1. i \in (Len(l) + 1)..Len(new) /\ i \in 1..Len(new)
        BY <1>3, <2>2, <2>8
      <3>2. m[i] = new[i] /\ First(ds, new[i]) \in 1..Len(cs)
        BY <1>4, <1>5, <2>2, <3>1
      <3>3. CASE j = Len(m)
        BY <1>3, <2>2, <2>7, <3>2, <3>3
      <3>4. CASE j # Len(m)
        <4>1. j \in (Len(l) + 1)..Len(new) /\ j \in 1..Len(new)
          BY <1>3, <2>2, <3>4
        <4> QED BY <1>6, <2>2, <2>8, <3>1, <3>2, <4>1
      <3> QED BY <3>3, <3>4
    <2>9. Len(l) <= Len(m) /\ \A i \in 1..Len(l) : m[i] = l[i]
      <3>1. Len(l) <= Len(new) /\ Len(l) \in Nat /\ Len(new) \in Nat /\ Len(m) = Len(new) + 1
        BY <1>1, <1>3, <2>2
      <3>2. \A i \in 1..Len(l) : i \in 1..Len(new)
        BY <3>1
      <3>3. \A i \in 1..Len(l) : m[i] = l[i]
        BY <1>1, <2>2, <3>2
      <3> QED BY <3>1, <3>3
    <2>10. ToSet(m) = ToSet(l) \cup ToSet(ds)
      BY <1>1, <1>2, <2>3
    <2> QED BY <1>2, <2>4, <2>5, <2>8, <2>9, <2>10 DEF Added
  <1> QED BY <1>7, <1>8

LEMMA OnceAdds ==
  ASSUME NEW T, NEW l \in Seq(T), IsInjective(l), NEW cs \in Seq(T)
  PROVE  Added(T, l, cs, FoldLeft(Once, l, cs))
  <1> DEFINE G == {ds \in Seq(T) : Added(T, l, ds, FoldLeft(Once, l, ds))}
  <1>1. <<>> \in G
    BY OnceNothing, OnceNone
  <1>2. ASSUME NEW ds \in Seq(T), NEW e \in T, ds \in G PROVE Append(ds, e) \in G
    <2>1. FoldLeft(Once, l, Append(ds, e)) = Once(FoldLeft(Once, l, ds), e)
      BY OnceNext
    <2>2. Added(T, l, Append(ds, e), Once(FoldLeft(Once, l, ds), e))
      BY <1>2, OnceOne
    <2> QED BY <2>1, <2>2
  <1>3. Seq(T) \subseteq G
    <2> HIDE DEF G
    <2> QED BY <1>1, <1>2, Lists
  <1> QED BY <1>3

-----------------------------------------------------------------------------
(* Lists by counting: each element stands where as many as come before it  *)
(* leave it.                                                               *)

Earlier(S, R, f) == {h \in S : <<h, f>> \in R}

Counts(s, S, R) ==
    /\ IsFiniteSet(S) /\ Cardinality(S) = Len(s) /\ ToSet(s) = S
    /\ \A i \in 1..Len(s) : s[i] \in S
    /\ \A i \in 1..Len(s) : \A f \in S : Cardinality(Earlier(S, R, f)) = i - 1 <=> f = s[i]

OneWay(S, R) == \A x, y \in S : <<x, y>> \in R => <<y, x>> \notin R
Strict(S, R) ==
    /\ OneWay(S, R)
    /\ \A x, y, z \in S : <<x, y>> \in R /\ <<y, z>> \in R => <<x, z>> \in R
    /\ \A x, y \in S : x # y => <<x, y>> \in R \/ <<y, x>> \in R

LEMMA AscendingInjective ==
  ASSUME NEW T, NEW R, NEW s \in Seq(T), OneWay(ToSet(s), R), Ascending(s, R)
  PROVE  IsInjective(s)
  <1>1. DOMAIN s = 1..Len(s) /\ Len(s) \in Nat /\ \A i \in 1..Len(s) : s[i] \in ToSet(s)
    BY DEF ToSet
  <1> SUFFICES ASSUME NEW i \in 1..Len(s), NEW j \in 1..Len(s), s[i] = s[j] PROVE i = j
    BY <1>1 DEF IsInjective
  <1>2. ~(i < j) /\ ~(j < i)
    BY <1>1 DEF Ascending, OneWay
  <1> QED BY <1>1, <1>2

LEMMA AscendingCounts ==
  ASSUME NEW T, NEW R, NEW s \in Seq(T), OneWay(ToSet(s), R), Ascending(s, R)
  PROVE  Counts(s, ToSet(s), R)
  <1> DEFINE S == ToSet(s)
  <1>1. DOMAIN s = 1..Len(s) /\ Len(s) \in Nat /\ \A i \in 1..Len(s) : s[i] \in S
    BY DEF ToSet
  <1>2. IsInjective(s)
    BY AscendingInjective
  <1>3. IsFiniteSet(S) /\ Cardinality(S) = Len(s)
    BY <1>2, DifferentLength
  <1>4. \A f \in S : \E j \in 1..Len(s) : f = s[j]
    BY <1>1 DEF ToSet
  <1> HIDE DEF S
  <1>5. ASSUME NEW i \in 1..Len(s) PROVE Cardinality(Earlier(S, R, s[i])) = i - 1
    <2> DEFINE E == Earlier(S, R, s[i])
               u == [k \in 1..(i - 1) |-> s[k]]
    <2>1. i \in Nat /\ i - 1 \in Nat /\ \A k \in 1..(i - 1) : k \in 1..Len(s) /\ k < i
      BY <1>1
    <2>2. \A k \in 1..(i - 1) : s[k] \in E
      BY <1>1, <2>1 DEF Earlier, Ascending
    <2>3. ASSUME NEW h \in E PROVE \E k \in 1..(i - 1) : s[k] = h
      <3>1. PICK j \in 1..Len(s) : h = s[j] /\ <<s[j], s[i]>> \in R
        BY <1>4 DEF Earlier
      <3>2. <<s[i], s[j]>> \notin R
        BY <1>1, <3>1 DEF OneWay, S
      <3>3. ~(i < j) /\ i # j
        BY <3>1, <3>2 DEF Ascending
      <3>4. j \in 1..(i - 1)
        BY <1>1, <3>3
      <3> QED BY <3>1, <3>4
    <2> HIDE DEF E
    <2>4. u \in Surjection(1..(i - 1), E)
      BY <2>2, <2>3 DEF Surjection
    <2>5. u \in Injection(1..(i - 1), E)
      BY <1>1, <1>2, <2>1, <2>2 DEF Injection, IsInjective
    <2>6. IsFiniteSet(1..(i - 1)) /\ Cardinality(1..(i - 1)) = i - 1
      BY <2>1, FS_Interval
    <2> HIDE DEF u
    <2>7. Cardinality(E) = Cardinality(1..(i - 1))
      BY <2>4, <2>5, <2>6, FS_Surjection
    <2> QED BY <2>6, <2>7 DEF E
  <1>6. ASSUME NEW i \in 1..Len(s), NEW f \in S
        PROVE  Cardinality(Earlier(S, R, f)) = i - 1 <=> f = s[i]
    <2>1. PICK j \in 1..Len(s) : f = s[j]
      BY <1>4
    <2>2. Cardinality(Earlier(S, R, f)) = j - 1
      BY <1>5, <2>1
    <2>3. f = s[i] => i = j
      BY <1>1, <1>2, <2>1 DEF IsInjective
    <2> QED BY <1>1, <2>1, <2>2, <2>3
  <1> QED BY <1>1, <1>3, <1>6 DEF Counts, S

\* A finite set in a strict order has its list.
LEMMA OrderLists ==
  ASSUME NEW T, NEW S \in SUBSET T, IsFiniteSet(S), NEW R, Strict(S, R)
  PROVE  \E s \in Seq(T) : Ascending(s, R) /\ ToSet(s) = S
  <1> DEFINE n == Cardinality(S)
             rank == [f \in S |-> Cardinality(Earlier(S, R, f)) + 1]
  <1>1. n \in Nat
    BY FS_CardinalityType
  <1>2. \A f \in S : Earlier(S, R, f) \in SUBSET S /\ f \notin Earlier(S, R, f)
    BY DEF Earlier, Strict, OneWay
  <1>3. \A f \in S : IsFiniteSet(Earlier(S, R, f)) /\ Cardinality(Earlier(S, R, f)) \in Nat
    BY <1>2, FS_Subset, FS_CardinalityType
  <1>4. \A f \in S : Cardinality(Earlier(S, R, f)) < n
    <2> SUFFICES ASSUME NEW f \in S PROVE Cardinality(Earlier(S, R, f)) < n
      OBVIOUS
    <2>1. Cardinality(Earlier(S, R, f)) <= n /\ (n = Cardinality(Earlier(S, R, f)) => S = Earlier(S, R, f))
      BY <1>2, FS_Subset
    <2> QED BY <1>1, <1>2, <1>3, <2>1
  <1>5. rank \in [S -> 1..n]
    BY <1>1, <1>3, <1>4
  <1>6. ASSUME NEW f \in S, NEW g \in S, <<f, g>> \in R PROVE rank[f] < rank[g]
    <2>1. Earlier(S, R, f) \in SUBSET Earlier(S, R, g)
      BY <1>6 DEF Earlier, Strict
    <2>2. f \in Earlier(S, R, g) /\ f \notin Earlier(S, R, f)
      BY <1>2, <1>6 DEF Earlier
    <2>3. /\ Cardinality(Earlier(S, R, f)) <= Cardinality(Earlier(S, R, g))
          /\ Cardinality(Earlier(S, R, f)) # Cardinality(Earlier(S, R, g))
      BY <1>3, <2>1, <2>2, FS_Subset
    <2> QED BY <1>3, <2>3
  <1> HIDE DEF rank
  <1>7. \A f, g \in S : rank[f] = rank[g] => f = g
    <2> SUFFICES ASSUME NEW f \in S, NEW g \in S, rank[f] = rank[g], f # g PROVE FALSE
      OBVIOUS
    <2>1. <<f, g>> \in R \/ <<g, f>> \in R
      BY DEF Strict
    <2>2. rank[f] < rank[g] \/ rank[g] < rank[f]
      BY <1>6, <2>1
    <2> QED BY <1>1, <1>5, <2>2
  <1>8. \A i \in 1..n : \E f \in S : rank[f] = i
    <2>1. rank \in Injection(S, 1..n)
      BY <1>5, <1>7 DEF Injection, IsInjective
    <2>2. IsFiniteSet(1..n) /\ Cardinality(1..n) = n
      BY <1>1, FS_Interval
    <2>3. rank \in Surjection(S, 1..n)
      BY <2>1, <2>2, FS_Injection
    <2> QED BY <2>3 DEF Surjection
  <1> DEFINE s == [i \in 1..n |-> CHOOSE f \in S : rank[f] = i]
  <1>9. s \in [1..n -> S] /\ \A i \in 1..n : rank[s[i]] = i
    BY <1>8
  <1>10. s \in Seq(T) /\ Len(s) = n /\ DOMAIN s = 1..n
    <2>1. s \in Seq(S)
      BY <1>1, <1>9
    <2>2. s \in Seq(T)
      BY <2>1
    <2>3. DOMAIN s = 1..n
      OBVIOUS
    <2>4. Len(s) = n
      BY <1>1, <2>1, <2>3
    <2> QED BY <2>2, <2>3, <2>4
  <1> HIDE DEF s
  <1>11. Ascending(s, R)
    <2> SUFFICES ASSUME NEW i \in 1..n, NEW j \in 1..n, i < j PROVE <<s[i], s[j]>> \in R
      BY <1>10 DEF Ascending
    <2>1. s[i] \in S /\ s[j] \in S /\ rank[s[i]] = i /\ rank[s[j]] = j
      BY <1>9
    <2>2. s[i] # s[j]
      BY <2>1
    <2>3. <<s[j], s[i]>> \in R => j < i
      BY <1>6, <2>1
    <2>4. <<s[i], s[j]>> \in R \/ <<s[j], s[i]>> \in R
      BY <2>1, <2>2 DEF Strict
    <2> QED BY <1>1, <2>3, <2>4
  <1>12. ToSet(s) = S
    <2>1. \A i \in 1..n : s[i] \in S
      BY <1>9
    <2>2. ASSUME NEW f \in S PROVE \E i \in 1..n : s[i] = f
      <3>1. rank[f] \in 1..n
        BY <1>5
      <3>2. s[rank[f]] \in S /\ rank[s[rank[f]]] = rank[f]
        BY <1>9, <3>1
      <3>3. s[rank[f]] = f
        BY <1>7, <3>2
      <3> QED BY <3>1, <3>3
    <2> QED BY <1>10, <2>1, <2>2 DEF ToSet
  <1> QED BY <1>10, <1>11, <1>12

\* A set has one list in a strict order.
LEMMA SameList ==
  ASSUME NEW T, NEW R, NEW s \in Seq(T), NEW t \in Seq(T), ToSet(s) = ToSet(t),
         OneWay(ToSet(s), R), Ascending(s, R), Ascending(t, R)
  PROVE  s = t
  <1> DEFINE S == ToSet(s)
  <1>1. Counts(s, S, R) /\ Counts(t, S, R)
    BY AscendingCounts
  <1> HIDE DEF S
  <1>2. Len(s) = Len(t)
    BY <1>1 DEF Counts
  <1>3. ASSUME NEW i \in 1..Len(s) PROVE s[i] = t[i]
    <2>1. s[i] \in S /\ t[i] \in S
      BY <1>1, <1>2 DEF Counts
    <2>2. Cardinality(Earlier(S, R, s[i])) = i - 1
      BY <1>1, <2>1 DEF Counts
    <2> QED BY <1>1, <1>2, <2>1, <2>2 DEF Counts
  <1> QED BY <1>2, <1>3

\* A list without the element at one place.
Less(s, i) == [j \in 1..(Len(s) - 1) |-> IF j < i THEN s[j] ELSE s[j + 1]]

LEMMA LessIs ==
  ASSUME NEW T, NEW s \in Seq(T), NEW i \in 1..Len(s)
  PROVE  /\ Less(s, i) \in Seq(T) /\ Len(Less(s, i)) = Len(s) - 1
         /\ \A j \in 1..(Len(s) - 1) : Less(s, i)[j] = IF j < i THEN s[j] ELSE s[j + 1]
  <1>1. Len(s) \in Nat /\ Len(s) - 1 \in Nat
    OBVIOUS
  <1>2. \A j \in 1..(Len(s) - 1) : j \in 1..Len(s) /\ j + 1 \in 1..Len(s)
    BY <1>1
  <1>3. \A j \in 1..Len(s) : s[j] \in T
    OBVIOUS
  <1>4. Less(s, i) \in [1..(Len(s) - 1) -> T]
    BY <1>2, <1>3 DEF Less
  <1>5. Less(s, i) \in Seq(T)
    BY <1>1, <1>4
  <1>6. DOMAIN Less(s, i) = 1..(Len(s) - 1)
    BY <1>4
  <1>7. Len(Less(s, i)) = Len(s) - 1
    BY <1>1, <1>5, <1>6
  <1> QED BY <1>5, <1>7 DEF Less

LEMMA LessAscends ==
  ASSUME NEW T, NEW R, NEW s \in Seq(T), NEW i \in 1..Len(s), Ascending(s, R)
  PROVE  Ascending(Less(s, i), R)
  <1>1. Len(s) \in Nat
    OBVIOUS
  <1>2. PICK l : l = Less(s, i) /\ Len(l) = Len(s) - 1
    BY LessIs
  <1> SUFFICES ASSUME NEW j \in 1..Len(l), NEW k \in 1..Len(l), j < k PROVE <<l[j], l[k]>> \in R
    BY <1>2 DEF Ascending
  <1>3. /\ l[j] = IF j < i THEN s[j] ELSE s[j + 1]
        /\ l[k] = IF k < i THEN s[k] ELSE s[k + 1]
    BY <1>2, LessIs
  <1>4. j \in Nat /\ k \in Nat /\ i \in Nat /\ j <= Len(s) - 1 /\ k <= Len(s) - 1 /\ 1 <= j /\ 1 <= k
    BY <1>1, <1>2
  <1>5. CASE k < i
    <2>1. j < i /\ j \in 1..Len(s) /\ k \in 1..Len(s)
      BY <1>1, <1>4, <1>5
    <2> QED BY <1>3, <1>5, <2>1 DEF Ascending
  <1>6. CASE ~(k < i)
    <2>1. k + 1 \in 1..Len(s) /\ j \in 1..Len(s) /\ j + 1 \in 1..Len(s) /\ j < k + 1 /\ j + 1 < k + 1
      BY <1>1, <1>4, <1>6
    <2>2. <<s[j], s[k + 1]>> \in R /\ <<s[j + 1], s[k + 1]>> \in R
      BY <2>1 DEF Ascending
    <2> QED BY <1>3, <1>6, <2>2
  <1> QED BY <1>5, <1>6

LEMMA LessLists ==
  ASSUME NEW T, NEW s \in Seq(T), NEW i \in 1..Len(s), IsInjective(s)
  PROVE  ToSet(Less(s, i)) = ToSet(s) \ {s[i]}
  <1>1. Len(s) \in Nat /\ DOMAIN s = 1..Len(s)
    OBVIOUS
  <1>2. PICK l \in Seq(T) : l = Less(s, i) /\ Len(l) = Len(s) - 1
    BY LessIs
  <1>3. DOMAIN l = 1..(Len(s) - 1)
    BY <1>2
  <1>4. ASSUME NEW j \in 1..(Len(s) - 1) PROVE l[j] \in ToSet(s) \ {s[i]}
    <2>1. l[j] = IF j < i THEN s[j] ELSE s[j + 1]
      BY <1>2, LessIs
    <2>2. j \in 1..Len(s) /\ j + 1 \in 1..Len(s)
      BY <1>1
    <2>3. CASE j < i
      <3>1. j # i
        BY <2>3
      <3>2. s[j] # s[i]
        BY <1>1, <2>2, <3>1 DEF IsInjective
      <3> QED BY <1>1, <2>1, <2>2, <2>3, <3>2 DEF ToSet
    <2>4. CASE ~(j < i)
      <3>1. j + 1 # i
        BY <2>4
      <3>2. s[j + 1] # s[i]
        BY <1>1, <2>2, <3>1 DEF IsInjective
      <3> QED BY <1>1, <2>1, <2>2, <2>4, <3>2 DEF ToSet
    <2> QED BY <2>3, <2>4
  <1>5. ASSUME NEW e \in ToSet(s), e # s[i] PROVE \E j \in 1..(Len(s) - 1) : l[j] = e
    <2>1. PICK k \in 1..Len(s) : e = s[k]
      BY <1>1 DEF ToSet
    <2>2. k # i
      BY <1>5, <2>1
    <2>3. CASE k < i
      <3>1. k \in 1..(Len(s) - 1)
        BY <1>1, <2>3
      <3> QED BY <1>2, <2>1, <2>3, <3>1, LessIs
    <2>4. CASE ~(k < i)
      <3>1. k - 1 \in 1..(Len(s) - 1) /\ ~(k - 1 < i) /\ (k - 1) + 1 = k
        BY <1>1, <2>2, <2>4
      <3>2. l[k - 1] = s[(k - 1) + 1]
        BY <1>2, <3>1, LessIs
      <3> QED BY <2>1, <3>1, <3>2
    <2> QED BY <2>3, <2>4
  <1>6. ToSet(l) = {l[j] : j \in 1..(Len(s) - 1)}
    BY <1>3 DEF ToSet
  <1> QED BY <1>2, <1>4, <1>5, <1>6

LEMMA PartIs ==
  ASSUME NEW T, NEW s \in Seq(T), NEW a \in Nat \ {0}, NEW n \in Nat, a + n - 1 <= Len(s)
  PROVE  /\ SubSeq(s, a, a + n - 1) \in Seq(T) /\ Len(SubSeq(s, a, a + n - 1)) = n
         /\ \A j \in 1..n : SubSeq(s, a, a + n - 1)[j] = s[a + j - 1]
  <1>1. \A j \in a..(a + n - 1) : j \in 1..Len(s)
    OBVIOUS
  <1>2. SubSeq(s, a, a + n - 1) = [j \in 1..n |-> s[a + j - 1]]
    OBVIOUS
  <1>3. \A j \in 1..n : a + j - 1 \in 1..Len(s)
    OBVIOUS
  <1>4. \A j \in 1..n : s[a + j - 1] \in T
    BY <1>3
  <1>5. [j \in 1..n |-> s[a + j - 1]] \in [1..n -> T]
    BY <1>4
  <1>6. SubSeq(s, a, a + n - 1) \in Seq(T)
    BY <1>2, <1>5
  <1>7. DOMAIN SubSeq(s, a, a + n - 1) = 1..n
    BY <1>2
  <1>8. Len(SubSeq(s, a, a + n - 1)) = n
    BY <1>6, <1>7
  <1> QED BY <1>2, <1>6, <1>8

LEMMA JoinIs ==
  ASSUME NEW T, NEW s \in Seq(T), NEW t \in Seq(T)
  PROVE  /\ s \o t \in Seq(T) /\ Len(s \o t) = Len(s) + Len(t)
         /\ Len(s) \in Nat /\ Len(t) \in Nat
         /\ \A j \in 1..Len(s) : (s \o t)[j] = s[j]
         /\ \A j \in 1..Len(t) : (s \o t)[Len(s) + j] = t[j]
  OBVIOUS

\* Put back where it was.
LEMMA LessInserted ==
  ASSUME NEW T, NEW s \in Seq(T), NEW i \in 1..Len(s)
  PROVE  Files!Contract!InsertAt(Less(s, i), i, s[i]) = s
  <1>1. Len(s) \in Nat /\ i \in Nat \ {0} /\ i <= Len(s)
    OBVIOUS
  <1>2. s[i] \in T
    OBVIOUS
  <1>3. PICK n \in Nat : n = Len(s)
    BY <1>1
  <1>4. PICK l \in Seq(T) : l = Less(s, i) /\ Len(l) = n - 1
    BY <1>3, LessIs
  <1>5. \A j \in 1..(n - 1) : l[j] = IF j < i THEN s[j] ELSE s[j + 1]
    BY <1>3, <1>4, LessIs
  <1>6. PICK x \in Seq(T) : /\ x = SubSeq(l, 1, i - 1) /\ Len(x) = i - 1
                            /\ \A j \in 1..(i - 1) : x[j] = l[j]
    <2>1. i - 1 \in Nat /\ 1 + (i - 1) - 1 = i - 1 /\ i - 1 <= Len(l)
      BY <1>1, <1>3, <1>4
    <2>2. \A j \in 1..(i - 1) : 1 + j - 1 = j
      BY <2>1
    <2>3. /\ SubSeq(l, 1, 1 + (i - 1) - 1) \in Seq(T) /\ Len(SubSeq(l, 1, 1 + (i - 1) - 1)) = i - 1
          /\ \A j \in 1..(i - 1) : SubSeq(l, 1, 1 + (i - 1) - 1)[j] = l[1 + j - 1]
      BY <2>1, PartIs
    <2> QED BY <2>1, <2>2, <2>3
  <1>7. PICK z \in Seq(T) : /\ z = SubSeq(l, i, n - 1) /\ Len(z) = n - i
                            /\ \A j \in 1..(n - i) : z[j] = l[i + j - 1]
    <2>1. n - i \in Nat /\ i + (n - i) - 1 = n - 1 /\ n - 1 <= Len(l)
      BY <1>1, <1>3, <1>4
    <2>2. /\ SubSeq(l, i, i + (n - i) - 1) \in Seq(T) /\ Len(SubSeq(l, i, i + (n - i) - 1)) = n - i
          /\ \A j \in 1..(n - i) : SubSeq(l, i, i + (n - i) - 1)[j] = l[i + j - 1]
      BY <1>1, <2>1, PartIs
    <2> QED BY <2>1, <2>2
  <1>8. PICK e \in Seq(T) : e = <<s[i]>> /\ Len(e) = 1 /\ e[1] = s[i]
    <2>1. PICK v \in T : v = s[i]
      BY <1>2
    <2>2. <<v>> \in Seq(T)
      OBVIOUS
    <2>3. Len(<<v>>) = 1 /\ <<v>>[1] = v
      OBVIOUS
    <2> QED BY <2>1, <2>2, <2>3
  <1>9. PICK y \in Seq(T) : /\ y = x \o e /\ Len(y) = i /\ y[i] = s[i]
                            /\ \A j \in 1..(i - 1) : y[j] = x[j]
    <2>1. /\ x \o e \in Seq(T) /\ Len(x \o e) = (i - 1) + 1
          /\ \A j \in 1..(i - 1) : (x \o e)[j] = x[j]
          /\ \A j \in 1..1 : (x \o e)[(i - 1) + j] = e[j]
      BY <1>6, <1>8, JoinIs
    <2>2. (i - 1) + 1 = i /\ 1 \in 1..1
      BY <1>1
    <2> QED BY <1>8, <2>1, <2>2
  <1>10. PICK w \in Seq(T) : /\ w = y \o z /\ Len(w) = n
                             /\ \A j \in 1..i : w[j] = y[j]
                             /\ \A j \in 1..(n - i) : w[i + j] = z[j]
    <2>1. /\ y \o z \in Seq(T) /\ Len(y \o z) = i + (n - i)
          /\ \A j \in 1..i : (y \o z)[j] = y[j]
          /\ \A j \in 1..(n - i) : (y \o z)[i + j] = z[j]
      <3>1. /\ y \o z \in Seq(T) /\ Len(y \o z) = Len(y) + Len(z)
            /\ \A j \in 1..Len(y) : (y \o z)[j] = y[j]
            /\ \A j \in 1..Len(z) : (y \o z)[Len(y) + j] = z[j]
        BY JoinIs
      <3>2. Len(y) = i /\ Len(z) = n - i
        BY <1>7, <1>9
      <3> QED BY <3>1, <3>2, Zenon
    <2>2. i + (n - i) = n
      BY <1>1, <1>3
    <2> QED BY <2>1, <2>2
  <1>11. ASSUME NEW j \in 1..n PROVE w[j] = s[j]
    <2>1. CASE j < i
      <3>1. j \in 1..i /\ j \in 1..(i - 1) /\ j \in 1..(n - 1)
        BY <1>1, <1>3, <2>1
      <3>2. w[j] = l[j]
        BY <1>6, <1>9, <1>10, <3>1
      <3> QED BY <1>5, <2>1, <3>1, <3>2
    <2>2. CASE j = i
      <3>1. i \in 1..i
        BY <1>1
      <3> QED BY <1>9, <1>10, <2>2, <3>1
    <2>3. CASE i < j
      <3>1. PICK k \in 1..(n - i) : j = i + k
        <4>1. j - i \in 1..(n - i) /\ j = i + (j - i)
          BY <1>1, <1>3, <2>3
        <4> QED BY <4>1
      <3>2. i + k - 1 \in 1..(n - 1) /\ ~(i + k - 1 < i) /\ (i + k - 1) + 1 = j
        BY <1>1, <1>3, <3>1
      <3>3. w[j] = l[i + k - 1]
        BY <1>7, <1>10, <3>1
      <3>4. l[i + k - 1] = s[(i + k - 1) + 1]
        BY <1>5, <3>2
      <3> QED BY <3>2, <3>3, <3>4
    <2> QED BY <1>1, <2>1, <2>2, <2>3
  <1>12. w = s
    <2>1. Len(w) = Len(s) /\ \A j \in 1..Len(w) : w[j] = s[j]
      BY <1>3, <1>10, <1>11
    <2> QED BY <2>1
  <1>13. Files!Contract!InsertAt(l, i, s[i]) = w
    BY <1>3, <1>4, <1>6, <1>7, <1>8, <1>9, <1>10 DEF Files!Contract!InsertAt
  <1> QED BY <1>4, <1>12, <1>13

-----------------------------------------------------------------------------
(* Groups.                                                                 *)

Offices == {"owner", "dm", "player"}

\* What says that nothing is stored is nothing that is.
AbsentIsNoSeat ==
    /\ Absent \notin Offices
    /\ Absent \notin [PersonIds -> Offices \cup {Absent}]
    /\ Absent \notin [owner : PersonIds, rank : [PersonIds -> {"none", "player", "dm"}]]

\* A group is open when there is a map of its seats, and one of them is its
\* owner's.
GroupsInv ==
    /\ groups \subseteq GroupIds
    /\ members \in [GroupIds -> [PersonIds -> Offices \cup {Absent}] \cup {Absent}]
    /\ \A g \in GroupIds : g \in groups <=> members[g] # Absent
    /\ \A g \in groups : \E u \in PersonIds :
          members[g][u] = "owner" /\ \A v \in PersonIds : members[g][v] = "owner" => v = u

\* What a group's seats are to a reader of the contract.
SeatsAre(seats, o) ==
    /\ seats \in [PersonIds -> Offices \cup {Absent}]
    /\ \A u \in PersonIds : seats[u] = "owner" <=> u = o

AsRanks(seats) == [u \in PersonIds |-> IF seats[u] \in {"dm", "player"} THEN seats[u] ELSE "none"]

LEMMA GroupReads ==
  ASSUME AbsentIsNoSeat, NEW g \in GroupIds, NEW o \in PersonIds, NEW seats,
         groups \subseteq GroupIds, members[g] = seats, g \in groups, SeatsAre(seats, o)
  PROVE  Tables!GroupAt(g) = [owner |-> o, rank |-> AsRanks(seats)]
  <1>1. seats # Absent
    BY DEF SeatsAre, AbsentIsNoSeat
  <1>2. \A u \in PersonIds : Tables!Seat(g, u) = seats[u]
    BY <1>1 DEF Tables!Seat
  <1>3. (CHOOSE u \in PersonIds : Tables!Seat(g, u) = "owner") = o
    BY <1>2 DEF SeatsAre
  <1> QED BY <1>2, <1>3 DEF Tables!GroupAt, AsRanks

LEMMA SeatsRead ==
  ASSUME AbsentIsNoSeat, GroupsInv, NEW g \in GroupIds
  PROVE  /\ Tables!Contract!Open(g) <=> g \in groups
         /\ \A u \in PersonIds :
              /\ g \notin groups => Tables!Seat(g, u) = Absent
              /\ Tables!Contract!Owner(g, u) <=> Tables!Seat(g, u) = "owner"
              /\ Tables!Contract!Other(g, u) <=> Tables!Seat(g, u) \in {"dm", "player"}
              /\ Tables!Contract!RankOf(g, u) =
                   IF Tables!Seat(g, u) = Absent THEN "none" ELSE Tables!Seat(g, u)
              /\ Tables!Seat(g, u) \in Offices \cup {Absent}
  <1>1. CASE g \notin groups
    <2>1. Tables!GroupAt(g) = Absent /\ members[g] = Absent
      BY <1>1 DEF Tables!GroupAt, GroupsInv
    <2>2. ~ Tables!Contract!Open(g)
      BY <2>1 DEF Tables!Contract!Open
    <2>3. \A u \in PersonIds : Tables!Seat(g, u) = Absent
      BY <2>1 DEF Tables!Seat
    <2> QED BY <1>1, <2>2, <2>3
             DEF Tables!Contract!Owner, Tables!Contract!Other, Tables!Contract!RankOf, AbsentIsNoSeat, Offices
  <1>2. CASE g \in groups
    <2>1. PICK o \in PersonIds : SeatsAre(members[g], o)
      BY <1>2 DEF GroupsInv, SeatsAre
    <2>2. PICK seats : seats = members[g] /\ SeatsAre(seats, o)
      BY <2>1
    <2>3. Tables!GroupAt(g) = [owner |-> o, rank |-> AsRanks(seats)]
      BY <1>2, <2>2, GroupReads DEF GroupsInv
    <2>4. AsRanks(seats) \in [PersonIds -> {"none", "player", "dm"}]
      BY DEF AsRanks
    <2>5. Tables!GroupAt(g) # Absent
      BY <2>3, <2>4 DEF AbsentIsNoSeat
    <2>6. Tables!Contract!Open(g)
      BY <2>5 DEF Tables!Contract!Open
    <2>7. \A u \in PersonIds : Tables!Seat(g, u) = seats[u] /\ seats[u] \in Offices \cup {Absent}
      BY <1>2, <2>2 DEF Tables!Seat, GroupsInv, SeatsAre
    <2>8. \A u \in PersonIds : Tables!Contract!Owner(g, u) <=> u = o
      BY <2>3, <2>6 DEF Tables!Contract!Owner
    <2>9. \A u \in PersonIds : Tables!Contract!Other(g, u) <=> AsRanks(seats)[u] # "none"
      BY <2>3, <2>6 DEF Tables!Contract!Other
    <2>10. \A u \in PersonIds : Tables!Contract!Other(g, u) <=> seats[u] \in {"dm", "player"}
      BY <2>9 DEF AsRanks
    <2>11. \A u \in PersonIds : Tables!Contract!Owner(g, u) <=> seats[u] = "owner"
      BY <2>2, <2>8 DEF SeatsAre
    <2>12. \A u \in PersonIds : Tables!Contract!Other(g, u) =>
             Tables!Contract!RankOf(g, u) = seats[u]
      <3> SUFFICES ASSUME NEW u \in PersonIds, Tables!Contract!Other(g, u)
                   PROVE  Tables!Contract!RankOf(g, u) = seats[u]
        OBVIOUS
      <3>1. seats[u] \in {"dm", "player"} /\ ~Tables!Contract!Owner(g, u)
        BY <2>10, <2>11
      <3>2. Tables!GroupAt(g).rank[u] = seats[u]
        BY <2>3, <3>1 DEF AsRanks
      <3> QED BY <3>1, <3>2 DEF Tables!Contract!RankOf
    <2>13. \A u \in PersonIds : Tables!Contract!Owner(g, u) =>
             Tables!Contract!RankOf(g, u) = "owner"
      BY DEF Tables!Contract!RankOf
    <2>14. \A u \in PersonIds : ~Tables!Contract!Owner(g, u) /\ ~Tables!Contract!Other(g, u) =>
             Tables!Contract!RankOf(g, u) = "none"
      BY DEF Tables!Contract!RankOf
    <2>15. Absent \notin Offices
      BY DEF AbsentIsNoSeat
    <2> QED BY <1>2, <2>6, <2>7, <2>10, <2>11, <2>12, <2>13, <2>14, <2>15 DEF Offices
  <1> QED BY <1>1, <1>2

GroupRows == [g \in GroupIds |-> Tables!GroupAt(g)]

\* A write of a group's seats shows in the contract's row of that group.
LEMMA SeatsWritten ==
  ASSUME AbsentIsNoSeat, GroupsInv, NEW g \in groups, NEW seats, NEW o \in PersonIds, SeatsAre(seats, o),
         members' = [members EXCEPT ![g] = seats], groups' = groups
  PROVE  /\ GroupsInv'
         /\ GroupRows' = [GroupRows EXCEPT ![g] = [owner |-> o, rank |-> AsRanks(seats)]]
  <1>1. g \in GroupIds /\ members'[g] = seats /\ \A h \in GroupIds : h # g => members'[h] = members[h]
    BY DEF GroupsInv
  <1>2. seats # Absent /\ seats[o] = "owner" /\ \A v \in PersonIds : seats[v] = "owner" => v = o
    BY DEF SeatsAre, AbsentIsNoSeat
  <1>3. GroupsInv'
    <2>1. members' \in [GroupIds -> [PersonIds -> Offices \cup {Absent}] \cup {Absent}]
      BY DEF GroupsInv, SeatsAre
    <2>2. \A h \in GroupIds : h \in groups' <=> members'[h] # Absent
      BY <1>1, <1>2 DEF GroupsInv
    <2>3. \A h \in groups' : \E u \in PersonIds :
             members'[h][u] = "owner" /\ \A v \in PersonIds : members'[h][v] = "owner" => v = u
      BY <1>1, <1>2 DEF GroupsInv
    <2> QED BY <2>1, <2>2, <2>3 DEF GroupsInv
  <1>4. Tables!GroupAt(g)' = [owner |-> o, rank |-> AsRanks(seats)]
    <2>1. \A u \in PersonIds : Tables!Seat(g, u)' = seats[u]
      BY <1>1, <1>2 DEF Tables!Seat
    <2>2. (CHOOSE u \in PersonIds : Tables!Seat(g, u)' = "owner") = o
      BY <2>1 DEF SeatsAre
    <2> QED BY <2>1, <2>2 DEF Tables!GroupAt, AsRanks
  <1>5. \A h \in GroupIds : h # g => Tables!GroupAt(h)' = Tables!GroupAt(h)
    BY <1>1 DEF Tables!GroupAt, Tables!Seat
  <1> QED BY <1>1, <1>3, <1>4, <1>5 DEF GroupRows

\* A refusal or a reading leaves the rows as they are.
LEMMA GroupsStand ==
  ASSUME GroupsInv, UNCHANGED <<groups, members>>
  PROVE  GroupsInv' /\ GroupRows' = GroupRows
  BY DEF GroupsInv, GroupRows, Tables!GroupAt, Tables!Seat

LEMMA GroupReadings ==
  ASSUME AbsentIsNoSeat, GroupsInv, NEW g \in GroupIds
  PROVE  /\ Tables!ByID(g) => Tables!Contract!ByID(g) /\ groupTold'.call # "none" /\ groupTold'.on[1] = g
         /\ Tables!Members(g) => Tables!Contract!Members(g) /\ groupTold'.call # "none" /\ groupTold'.on[1] = g
         /\ \A u \in PersonIds : Tables!MemberRole(g, u) =>
               Tables!Contract!MemberRole(g, u) /\ groupTold'.call # "none" /\ groupTold'.on[1] = g
  <1> USE DEF Tables!Contract!GroupSays, Tables!Contract!Answer, Tables!GroupTells, Tables!Answer
  <1>1. ASSUME Tables!ByID(g)
        PROVE  Tables!Contract!ByID(g) /\ groupTold'.call # "none" /\ groupTold'.on[1] = g
    <2>1. GroupRows' = GroupRows
      BY <1>1, GroupsStand DEF Tables!ByID
    <2> QED BY <1>1, <2>1, SeatsRead DEF Tables!ByID, Tables!Contract!ByID, GroupRows
  <1>2. ASSUME Tables!Members(g)
        PROVE  Tables!Contract!Members(g) /\ groupTold'.call # "none" /\ groupTold'.on[1] = g
    <2>1. GroupRows' = GroupRows
      BY <1>2, GroupsStand DEF Tables!Members
    <2>2. members[g] # Absent <=> g \in groups
      BY DEF GroupsInv
    <2>3. Absent \notin Offices /\ "none" \notin Offices
      BY DEF AbsentIsNoSeat, Offices
    <2>4. {<<u, Tables!Seat(g, u)>> : u \in Tables!Seated(g)}
          = {<<u, Tables!Contract!RankOf(g, u)>> : u \in {v \in PersonIds : Tables!Contract!RankOf(g, v) # "none"}}
      BY <2>3, SeatsRead DEF Tables!Seated
    <2>5. g \in groups <=> Tables!Contract!Open(g)
      BY SeatsRead
    <2>6. groupTold'.call = "Members" /\ groupTold'.on = <<g>>
      BY <1>2 DEF Tables!Members
    <2> QED BY <1>2, <2>1, <2>2, <2>4, <2>5, <2>6 DEF Tables!Members, Tables!Contract!Members, GroupRows
  <1>3. ASSUME NEW u \in PersonIds, Tables!MemberRole(g, u)
        PROVE  Tables!Contract!MemberRole(g, u) /\ groupTold'.call # "none" /\ groupTold'.on[1] = g
    <2>1. GroupRows' = GroupRows
      BY <1>3, GroupsStand DEF Tables!MemberRole
    <2>2. Absent \notin Offices /\ "none" \notin Offices
      BY DEF AbsentIsNoSeat, Offices
    <2>3. /\ u \in Tables!Seated(g) <=> Tables!Contract!RankOf(g, u) # "none"
          /\ u \in Tables!Seated(g) => Tables!Contract!RankOf(g, u) = Tables!Seat(g, u)
      BY <2>2, SeatsRead DEF Tables!Seated
    <2> QED BY <1>3, <2>1, <2>3 DEF Tables!MemberRole, Tables!Contract!MemberRole, GroupRows
  <1> QED BY <1>1, <1>2, <1>3

LEMMA GroupsListed ==
  ASSUME AbsentIsNoSeat, GroupsInv, NEW u \in PersonIds, Tables!ListFor(u)
  PROVE  Tables!Contract!ListFor(u) /\ groupTold'.call # "none"
  <1>1. GroupRows' = GroupRows
    BY GroupsStand DEF Tables!ListFor, Tables!GroupTells
  <1>2. Absent \notin Offices /\ "none" \notin Offices
    BY DEF AbsentIsNoSeat, Offices
  <1>3. \A g \in GroupIds :
           /\ u \in Tables!Seated(g) <=> Tables!Contract!RankOf(g, u) # "none"
           /\ u \in Tables!Seated(g) => /\ Tables!Contract!RankOf(g, u) = Tables!Seat(g, u)
                                        /\ g \in groups
    BY <1>2, SeatsRead DEF Tables!Seated
  <1>4. {<<IF g \in groups THEN g ELSE Absent, Tables!Seat(g, u)>> : g \in {h \in GroupIds : u \in Tables!Seated(h)}}
        = {<<g, Tables!Contract!RankOf(g, u)>> : g \in {h \in GroupIds : Tables!Contract!RankOf(h, u) # "none"}}
    BY <1>3
  <1> QED BY <1>1, <1>4 DEF Tables!ListFor, Tables!GroupTells, Tables!Answer, Tables!Contract!ListFor,
             Tables!Contract!GroupSays, Tables!Contract!Answer, GroupRows

\* A step and what a call of the contract's says of itself.
GroupDoes(g, A) == A /\ groupTold'.call # "none" /\ groupTold'.on[1] = g

LEMMA GroupCreated ==
  ASSUME AbsentIsNoSeat, GroupsInv, NEW g \in GroupIds, NEW u \in PersonIds, Tables!Create(g, u)
  PROVE  GroupsInv' /\ GroupDoes(g, Tables!Contract!Create(g, u))
  <1>1. groupTold'.call = "Create" /\ groupTold'.on = <<g, u>> /\ groupTold'.on[1] = g
    BY DEF Tables!Create, Tables!GroupTells, Tables!Answer
  <1>2. CASE g \in groups /\ Tables!GroupTells("Create", <<g, u>>, "refused", {})
    <2>1. GroupsInv' /\ GroupRows' = GroupRows
      BY <1>2, GroupsStand DEF Tables!GroupTells
    <2>2. Tables!Contract!Open(g)
      BY <1>2, SeatsRead
    <2> QED BY <1>1, <1>2, <2>1, <2>2 DEF GroupDoes, Tables!Contract!Create, Tables!Contract!GroupSays,
               Tables!Contract!Answer, Tables!GroupTells, Tables!Answer, GroupRows
  <1>3. CASE /\ g \notin groups
             /\ groups' = groups \cup {g}
             /\ members' = [members EXCEPT ![g] = [v \in PersonIds |-> IF v = u THEN "owner" ELSE Absent]]
             /\ groupTold' = Tables!Answer("Create", <<g, u>>, "done", {})
    <2>1. PICK seats : seats = [v \in PersonIds |-> IF v = u THEN "owner" ELSE Absent]
      OBVIOUS
    <2>2. SeatsAre(seats, u) /\ seats # Absent
      BY <2>1 DEF SeatsAre, Offices, AbsentIsNoSeat
    <2>3. /\ members'[g] = seats /\ \A h \in GroupIds : h # g => members'[h] = members[h]
          /\ members' \in [GroupIds -> [PersonIds -> Offices \cup {Absent}] \cup {Absent}]
      BY <1>3, <2>1, <2>2 DEF GroupsInv, SeatsAre
    <2>4. GroupsInv'
      <3>1. groups' \subseteq GroupIds /\ \A h \in GroupIds : h \in groups' <=> members'[h] # Absent
        BY <1>3, <2>2, <2>3 DEF GroupsInv
      <3>2. \A h \in groups' : \E v \in PersonIds :
               members'[h][v] = "owner" /\ \A w \in PersonIds : members'[h][w] = "owner" => w = v
        BY <1>3, <2>2, <2>3 DEF GroupsInv, SeatsAre
      <3> QED BY <2>3, <3>1, <3>2 DEF GroupsInv
    <2>5. AsRanks(seats) = [v \in PersonIds |-> "none"]
      BY <2>1 DEF AsRanks, AbsentIsNoSeat, Offices
    <2>6. Tables!GroupAt(g)' = [owner |-> u, rank |-> AsRanks(seats)]
      <3>1. \A v \in PersonIds : Tables!Seat(g, v)' = seats[v]
        BY <2>2, <2>3 DEF Tables!Seat
      <3>2. (CHOOSE v \in PersonIds : Tables!Seat(g, v)' = "owner") = u
        BY <2>2, <3>1 DEF SeatsAre
      <3>3. g \in groups'
        BY <1>3
      <3> QED BY <3>1, <3>2, <3>3 DEF Tables!GroupAt, AsRanks
    <2>7. \A h \in GroupIds : h # g => Tables!GroupAt(h)' = Tables!GroupAt(h)
      BY <1>3, <2>3 DEF Tables!GroupAt, Tables!Seat
    <2>8. GroupRows' = [GroupRows EXCEPT ![g] = [owner |-> u, rank |-> [v \in PersonIds |-> "none"]]]
      BY <2>5, <2>6, <2>7 DEF GroupRows
    <2>9. ~Tables!Contract!Open(g)
      BY <1>3, SeatsRead
    <2> QED BY <1>1, <1>3, <2>4, <2>8, <2>9 DEF GroupDoes, Tables!Contract!Create,
               Tables!Contract!Answer, Tables!Answer, GroupRows
  <1> QED BY <1>2, <1>3 DEF Tables!Create

LEMMA GroupDeleted ==
  ASSUME AbsentIsNoSeat, GroupsInv, NEW g \in GroupIds, Tables!Delete(g)
  PROVE  GroupsInv' /\ GroupDoes(g, Tables!Contract!Delete(g))
  <1>1. groupTold'.call = "Delete" /\ groupTold'.on = <<g>> /\ groupTold'.on[1] = g
    BY DEF Tables!Delete, Tables!GroupTells, Tables!Answer
  <1>2. CASE g \notin groups /\ Tables!GroupTells("Delete", <<g>>, "missing", {})
    <2>1. GroupsInv' /\ GroupRows' = GroupRows
      BY <1>2, GroupsStand DEF Tables!GroupTells
    <2>2. ~Tables!Contract!Open(g)
      BY <1>2, SeatsRead
    <2> QED BY <1>1, <1>2, <2>1, <2>2 DEF GroupDoes, Tables!Contract!Delete, Tables!Contract!GroupSays,
               Tables!Contract!Answer, Tables!GroupTells, Tables!Answer, GroupRows
  <1>3. CASE /\ g \in groups
             /\ groups' = groups \ {g}
             /\ members' = [members EXCEPT ![g] = Absent]
             /\ groupTold' = Tables!Answer("Delete", <<g>>, "done", {})
    <2>1. /\ members'[g] = Absent /\ \A h \in GroupIds : h # g => members'[h] = members[h]
          /\ members' \in [GroupIds -> [PersonIds -> Offices \cup {Absent}] \cup {Absent}]
      BY <1>3 DEF GroupsInv
    <2>2. GroupsInv'
      BY <1>3, <2>1 DEF GroupsInv
    <2>3. Tables!GroupAt(g)' = Absent
      BY <1>3 DEF Tables!GroupAt
    <2>4. \A h \in GroupIds : h # g => Tables!GroupAt(h)' = Tables!GroupAt(h)
      BY <1>3, <2>1 DEF Tables!GroupAt, Tables!Seat
    <2>5. GroupRows' = [GroupRows EXCEPT ![g] = Absent]
      BY <2>3, <2>4 DEF GroupRows
    <2>6. Tables!Contract!Open(g)
      BY <1>3, SeatsRead
    <2> QED BY <1>1, <1>3, <2>2, <2>5, <2>6 DEF GroupDoes, Tables!Contract!Delete,
               Tables!Contract!Answer, Tables!Answer, GroupRows
  <1> QED BY <1>2, <1>3 DEF Tables!Delete

\* What is refused, or names nobody, is so by the contract.
LEMMA GroupAnswered ==
  ASSUME AbsentIsNoSeat, GroupsInv, NEW call, NEW on, NEW says, NEW got,
         Tables!GroupTells(call, on, says, got)
  PROVE  /\ Tables!Contract!GroupSays(call, on, says, got) /\ GroupsInv'
         /\ groupTold'.call = call /\ groupTold'.on = on
  <1>1. GroupsInv' /\ GroupRows' = GroupRows
    BY GroupsStand DEF Tables!GroupTells
  <1> QED BY <1>1 DEF Tables!Contract!GroupSays, Tables!Contract!Answer, Tables!GroupTells,
             Tables!Answer, GroupRows

\* A seat that is no owner's is given another rank, or taken.
LEMMA SeatChanged ==
  ASSUME AbsentIsNoSeat, GroupsInv, NEW g \in groups, NEW u \in PersonIds, NEW call,
         NEW r \in {"dm", "player", Absent}, NEW k, k = IF r = Absent THEN "none" ELSE r,
         ~Tables!Contract!Owner(g, u), Tables!Writes(call, <<g, u>>, g, [members[g] EXCEPT ![u] = r])
  PROVE  /\ GroupsInv' /\ groupTold'.call = call /\ groupTold'.on[1] = g
         /\ Tables!Contract!Seats(call, g, u, k)
  <1>1. PICK o \in PersonIds : SeatsAre(members[g], o)
    BY DEF GroupsInv, SeatsAre
  <1>2. PICK seats : seats = members[g] /\ SeatsAre(seats, o)
    BY <1>1
  <1>3. g \in GroupIds /\ Tables!Seat(g, u) = seats[u]
    BY <1>2 DEF Tables!Seat, GroupsInv
  <1>4. u # o
    BY <1>2, <1>3, SeatsRead DEF SeatsAre
  <1>5. PICK new : new = [seats EXCEPT ![u] = r]
    OBVIOUS
  <1>6. SeatsAre(new, o)
    BY <1>2, <1>4, <1>5 DEF SeatsAre, Offices, AbsentIsNoSeat
  <1>7. members' = [members EXCEPT ![g] = new] /\ groups' = groups
    BY <1>2, <1>5 DEF Tables!Writes
  <1>8. GroupsInv' /\ GroupRows' = [GroupRows EXCEPT ![g] = [owner |-> o, rank |-> AsRanks(new)]]
    BY <1>6, <1>7, SeatsWritten
  <1>9. AsRanks(new) = [AsRanks(seats) EXCEPT ![u] = k]
    BY <1>2, <1>5 DEF AsRanks, SeatsAre, AbsentIsNoSeat, Offices
  <1>10. GroupRows[g] = [owner |-> o, rank |-> AsRanks(seats)]
    BY <1>2, <1>3, GroupReads DEF GroupRows, GroupsInv
  <1>11. GroupRows' = [GroupRows EXCEPT ![g].rank[u] = k]
    <2>1. PICK rows : rows = GroupRows
      OBVIOUS
    <2>2. PICK a, b : a = AsRanks(seats) /\ b = AsRanks(new) /\ b = [a EXCEPT ![u] = k]
      BY <1>9
    <2>3. [[owner |-> o, rank |-> a] EXCEPT !.rank[u] = k] = [owner |-> o, rank |-> b]
      BY <2>2
    <2>4. [rows EXCEPT ![g].rank[u] = k] = [rows EXCEPT ![g] = [rows[g] EXCEPT !.rank[u] = k]]
      OBVIOUS
    <2> QED BY <1>8, <1>10, <2>1, <2>2, <2>3, <2>4
  <1> QED BY <1>8, <1>11 DEF Tables!Writes, Tables!Answer, Tables!Contract!Seats,
             Tables!Contract!Answer, GroupRows

LEMMA MemberAdded ==
  ASSUME AbsentIsNoSeat, GroupsInv, NEW g \in GroupIds, NEW u \in PersonIds, NEW r \in Offices,
         Tables!AddMember(g, u, r)
  PROVE  GroupsInv' /\ GroupDoes(g, Tables!Contract!AddMember(g, u, r))
  <1>1. /\ g \in groups <=> Tables!Contract!Open(g)
        /\ u \in Tables!Seated(g) <=> Tables!Contract!RankOf(g, u) # "none"
        /\ u \notin Tables!Seated(g) => ~Tables!Contract!Owner(g, u)
    BY SeatsRead DEF Tables!Seated, Offices, AbsentIsNoSeat
  <1>2. CASE g \notin groups /\ Tables!GroupTells("AddMember", <<g, u>>, "missing", {})
    BY <1>1, <1>2, GroupAnswered DEF GroupDoes, Tables!Contract!AddMember
  <1>3. CASE /\ g \in groups /\ (r = "owner" \/ u \in Tables!Seated(g))
             /\ Tables!GroupTells("AddMember", <<g, u>>, "refused", {})
    BY <1>1, <1>3, GroupAnswered DEF GroupDoes, Tables!Contract!AddMember
  <1>4. CASE /\ g \in groups /\ r # "owner" /\ u \notin Tables!Seated(g)
             /\ Tables!Writes("AddMember", <<g, u>>, g, [members[g] EXCEPT ![u] = r])
    <2>1. r \in {"dm", "player", Absent} /\ r = IF r = Absent THEN "none" ELSE r
      BY <1>4 DEF Offices, AbsentIsNoSeat
    <2>2. /\ GroupsInv' /\ groupTold'.call = "AddMember" /\ groupTold'.on[1] = g
          /\ Tables!Contract!Seats("AddMember", g, u, r)
      BY <1>1, <1>4, <2>1, SeatChanged
    <2> QED BY <1>1, <1>4, <2>2 DEF GroupDoes, Tables!Contract!AddMember
  <1> QED BY <1>2, <1>3, <1>4 DEF Tables!AddMember

LEMMA RoleSet ==
  ASSUME AbsentIsNoSeat, GroupsInv, NEW g \in GroupIds, NEW u \in PersonIds, NEW r \in Offices,
         Tables!SetRole(g, u, r)
  PROVE  GroupsInv' /\ GroupDoes(g, Tables!Contract!SetRole(g, u, r))
  <1>1. /\ u \in Tables!Seated(g) <=> Tables!Contract!RankOf(g, u) # "none"
        /\ Tables!Seat(g, u) = "owner" <=> Tables!Contract!Owner(g, u)
        /\ Tables!Seat(g, u) \in {"dm", "player"} <=> Tables!Contract!Other(g, u)
        /\ Tables!Seat(g, u) # Absent => g \in groups
    BY SeatsRead DEF Tables!Seated, Offices, AbsentIsNoSeat
  <1>2. CASE /\ r # "owner" /\ u \notin Tables!Seated(g)
             /\ Tables!GroupTells("SetRole", <<g, u>>, "missing", {})
    BY <1>1, <1>2, GroupAnswered DEF GroupDoes, Tables!Contract!SetRole
  <1>3. CASE /\ r = "owner" \/ Tables!Seat(g, u) = "owner"
             /\ Tables!GroupTells("SetRole", <<g, u>>, "refused", {})
    BY <1>1, <1>3, GroupAnswered DEF GroupDoes, Tables!Contract!SetRole
  <1>4. CASE /\ r # "owner" /\ Tables!Seat(g, u) \in {"dm", "player"}
             /\ Tables!Writes("SetRole", <<g, u>>, g, [members[g] EXCEPT ![u] = r])
    <2>1. r \in {"dm", "player", Absent} /\ r = IF r = Absent THEN "none" ELSE r
      BY <1>4 DEF Offices, AbsentIsNoSeat
    <2>2. g \in groups /\ ~Tables!Contract!Owner(g, u)
      BY <1>1, <1>4 DEF AbsentIsNoSeat, Offices
    <2>3. /\ GroupsInv' /\ groupTold'.call = "SetRole" /\ groupTold'.on[1] = g
          /\ Tables!Contract!Seats("SetRole", g, u, r)
      BY <1>4, <2>1, <2>2, SeatChanged
    <2> QED BY <1>1, <1>4, <2>3 DEF GroupDoes, Tables!Contract!SetRole
  <1> QED BY <1>2, <1>3, <1>4 DEF Tables!SetRole

LEMMA MemberRemoved ==
  ASSUME AbsentIsNoSeat, GroupsInv, NEW g \in GroupIds, NEW u \in PersonIds, Tables!RemoveMember(g, u)
  PROVE  GroupsInv' /\ GroupDoes(g, Tables!Contract!RemoveMember(g, u))
  <1>1. /\ u \in Tables!Seated(g) <=> Tables!Contract!RankOf(g, u) # "none"
        /\ Tables!Seat(g, u) = "owner" <=> Tables!Contract!Owner(g, u)
        /\ Tables!Seat(g, u) \in {"dm", "player"} <=> Tables!Contract!Other(g, u)
        /\ Tables!Seat(g, u) # Absent => g \in groups
    BY SeatsRead DEF Tables!Seated, Offices, AbsentIsNoSeat
  <1>2. CASE u \notin Tables!Seated(g) /\ Tables!GroupTells("RemoveMember", <<g, u>>, "missing", {})
    BY <1>1, <1>2, GroupAnswered DEF GroupDoes, Tables!Contract!RemoveMember
  <1>3. CASE /\ Tables!Seat(g, u) = "owner"
             /\ Tables!GroupTells("RemoveMember", <<g, u>>, "refused", {})
    BY <1>1, <1>3, GroupAnswered DEF GroupDoes, Tables!Contract!RemoveMember
  <1>4. CASE /\ Tables!Seat(g, u) \in {"dm", "player"}
             /\ Tables!Writes("RemoveMember", <<g, u>>, g, [members[g] EXCEPT ![u] = Absent])
    <2>1. Absent \in {"dm", "player", Absent} /\ "none" = IF Absent = Absent THEN "none" ELSE Absent
      OBVIOUS
    <2>2. g \in groups /\ ~Tables!Contract!Owner(g, u)
      BY <1>1, <1>4 DEF AbsentIsNoSeat, Offices
    <2>3. /\ GroupsInv' /\ groupTold'.call = "RemoveMember" /\ groupTold'.on[1] = g
          /\ Tables!Contract!Seats("RemoveMember", g, u, "none")
      BY <1>4, <2>1, <2>2, SeatChanged
    <2> QED BY <1>1, <1>4, <2>3 DEF GroupDoes, Tables!Contract!RemoveMember
  <1> QED BY <1>2, <1>3, <1>4 DEF Tables!RemoveMember

LEMMA OwnershipTransferred ==
  ASSUME AbsentIsNoSeat, GroupsInv, NEW g \in GroupIds, NEW u \in PersonIds, NEW v \in PersonIds,
         Tables!TransferOwnership(g, u, v)
  PROVE  GroupsInv' /\ GroupDoes(g, Tables!Contract!TransferOwnership(g, u, v))
  <1>1. /\ \A w \in PersonIds : w \in Tables!Seated(g) <=> Tables!Contract!RankOf(g, w) # "none"
        /\ Tables!Seat(g, u) = "owner" <=> Tables!Contract!Owner(g, u)
        /\ Tables!Seat(g, u) \in {"dm", "player"} <=> Tables!Contract!Other(g, u)
        /\ Tables!Seat(g, u) # Absent => g \in groups
    BY SeatsRead DEF Tables!Seated, Offices, AbsentIsNoSeat
  <1>2. CASE /\ u \notin Tables!Seated(g) \/ (Tables!Seat(g, u) = "owner" /\ v \notin Tables!Seated(g))
             /\ Tables!GroupTells("TransferOwnership", <<g, u, v>>, "missing", {})
    BY <1>1, <1>2, GroupAnswered DEF GroupDoes, Tables!Contract!TransferOwnership
  <1>3. CASE /\ Tables!Seat(g, u) \in {"dm", "player"}
             /\ Tables!GroupTells("TransferOwnership", <<g, u, v>>, "refused", {})
    BY <1>1, <1>3, GroupAnswered DEF GroupDoes, Tables!Contract!TransferOwnership
  <1>4. CASE /\ Tables!Seat(g, u) = "owner" /\ v \in Tables!Seated(g)
             /\ Tables!Writes("TransferOwnership", <<g, u, v>>, g,
                              [members[g] EXCEPT ![u] = "dm", ![v] = "owner"])
    <2>1. g \in groups /\ g \in GroupIds
      BY <1>1, <1>4 DEF AbsentIsNoSeat, Offices
    <2>2. PICK o \in PersonIds : SeatsAre(members[g], o)
      BY <2>1 DEF GroupsInv, SeatsAre
    <2>3. PICK seats : seats = members[g] /\ SeatsAre(seats, o) /\ seats[u] = "owner"
      BY <1>4, <2>1, <2>2 DEF Tables!Seat, GroupsInv
    <2>4. PICK new : new = [seats EXCEPT ![u] = "dm", ![v] = "owner"]
      OBVIOUS
    <2>5. SeatsAre(new, v) /\ u = o
      BY <2>3, <2>4 DEF SeatsAre, Offices
    <2>6. members' = [members EXCEPT ![g] = new] /\ groups' = groups
      BY <1>4, <2>3, <2>4 DEF Tables!Writes
    <2>7. GroupsInv' /\ GroupRows' = [GroupRows EXCEPT ![g] = [owner |-> v, rank |-> AsRanks(new)]]
      BY <2>1, <2>5, <2>6, SeatsWritten
    <2>8. AsRanks(new) = [AsRanks(seats) EXCEPT ![u] = "dm", ![v] = "none"]
      BY <2>3, <2>4 DEF AsRanks, SeatsAre
    <2>9. GroupRows[g].rank = AsRanks(seats)
      BY <2>1, <2>3, GroupReads DEF GroupRows, GroupsInv
    <2>10. /\ groupTold' = Tables!Answer("TransferOwnership", <<g, u, v>>, "done", {})
           /\ groupTold'.call = "TransferOwnership" /\ groupTold'.on[1] = g
      BY <1>4 DEF Tables!Writes, Tables!Answer
    <2>11. Tables!Contract!Owner(g, u) /\ Tables!Contract!RankOf(g, v) # "none"
      BY <1>1, <1>4
    <2> QED BY <2>7, <2>8, <2>9, <2>10, <2>11 DEF GroupDoes, Tables!Contract!TransferOwnership,
               Tables!Contract!Answer, Tables!Answer, GroupRows
  <1> QED BY <1>2, <1>3, <1>4 DEF Tables!TransferOwnership

LEMMA GroupsImplement ==
  AbsentIsNoSeat /\ GroupsInv /\ [Tables!GroupsNext]_groupsKept =>
      GroupsInv' /\ [Tables!Contract!GroupsNext]_(Tables!Contract!groupVars)
  <1> SUFFICES ASSUME AbsentIsNoSeat, GroupsInv, [Tables!GroupsNext]_groupsKept
               PROVE  GroupsInv' /\ [Tables!Contract!GroupsNext]_(Tables!Contract!groupVars)
    OBVIOUS
  <1>1. CASE UNCHANGED groupsKept
    BY <1>1, GroupsStand DEF groupsKept, Tables!Contract!groupVars, GroupRows
  <1>2. ASSUME NEW u \in PersonIds, Tables!ListFor(u)
        PROVE  GroupsInv' /\ Tables!Contract!GroupsNext
    BY <1>2, GroupsListed, GroupsStand DEF Tables!Contract!GroupsNext, Tables!ListFor, Tables!GroupTells
  <1>3. ASSUME NEW g \in GroupIds, Tables!ByID(g) \/ Tables!Members(g) \/ Tables!Delete(g)
        PROVE  GroupsInv' /\ Tables!Contract!GroupsNext
    <2>1. CASE Tables!Delete(g)
      BY <2>1, GroupDeleted DEF GroupDoes, Tables!Contract!GroupsNext
    <2>2. CASE Tables!ByID(g) \/ Tables!Members(g)
      <3>1. GroupsInv'
        BY <2>2, GroupsStand DEF Tables!ByID, Tables!Members, Tables!GroupTells
      <3> QED BY <2>2, <3>1, GroupReadings DEF Tables!Contract!GroupsNext
    <2> QED BY <1>3, <2>1, <2>2
  <1>4. ASSUME NEW g \in GroupIds, NEW u \in PersonIds,
               Tables!Create(g, u) \/ Tables!MemberRole(g, u) \/ Tables!RemoveMember(g, u)
        PROVE  GroupsInv' /\ Tables!Contract!GroupsNext
    <2>1. CASE Tables!Create(g, u)
      BY <2>1, GroupCreated DEF GroupDoes, Tables!Contract!GroupsNext
    <2>2. CASE Tables!RemoveMember(g, u)
      BY <2>2, MemberRemoved DEF GroupDoes, Tables!Contract!GroupsNext
    <2>3. CASE Tables!MemberRole(g, u)
      <3>1. GroupsInv'
        BY <2>3, GroupsStand DEF Tables!MemberRole, Tables!GroupTells
      <3> QED BY <2>3, <3>1, GroupReadings DEF Tables!Contract!GroupsNext
    <2> QED BY <1>4, <2>1, <2>2, <2>3
  <1>5. ASSUME NEW g \in GroupIds, NEW u \in PersonIds, NEW r \in Tables!Ranks,
               Tables!AddMember(g, u, r) \/ Tables!SetRole(g, u, r)
        PROVE  GroupsInv' /\ Tables!Contract!GroupsNext
    <2>1. r \in Offices /\ r \in {"player", "dm", "owner"}
      BY DEF Tables!Ranks, Offices
    <2>2. \/ GroupsInv' /\ GroupDoes(g, Tables!Contract!AddMember(g, u, r))
          \/ GroupsInv' /\ GroupDoes(g, Tables!Contract!SetRole(g, u, r))
      BY <1>5, <2>1, MemberAdded, RoleSet
    <2> QED BY <2>1, <2>2 DEF GroupDoes, Tables!Contract!GroupsNext
  <1>6. ASSUME NEW g \in GroupIds, NEW u \in PersonIds, NEW v \in PersonIds, Tables!TransferOwnership(g, u, v)
        PROVE  GroupsInv' /\ Tables!Contract!GroupsNext
    BY <1>6, OwnershipTransferred DEF GroupDoes, Tables!Contract!GroupsNext
  <1> QED BY <1>1, <1>2, <1>3, <1>4, <1>5, <1>6 DEF Tables!GroupsNext

\* The store of groups in memory (GroupRepository, memory/group.go).
GroupsInMemory == Tables!GroupsBegin /\ [][Tables!GroupsNext]_groupsKept

\* The store of groups in memory keeps the contract of its port, whatever is
\* called: a group and its seats are two maps, and yet no seat outlives its
\* group and every group has its one owner.
THEOREM GroupsKeepContract == GroupsInMemory => Tables!Contract!GroupsSpec
  <1> AbsentIsNoSeat
    BY StoresAssumption DEF AbsentIsNoSeat, Offices
  <1>1. Tables!GroupsBegin => GroupsInv
    BY DEF Tables!GroupsBegin, GroupsInv
  <1>2. Tables!GroupsBegin => Tables!Contract!GroupsInit
    BY DEF Tables!GroupsBegin, Tables!Contract!GroupsInit, Tables!GroupAt, Tables!Answer,
           Tables!Contract!Answer
  <1> QED BY <1>1, <1>2, GroupsImplement, PTL DEF GroupsInMemory, Tables!Contract!GroupsSpec

-----------------------------------------------------------------------------
(* Pools.                                                                  *)

\* The stores and their contracts speak of lists in the same words.
LEMMA TablesLists ==
  \A s, S : /\ Tables!Only(s, S) = Only(s, S) /\ Tables!Contract!Only(s, S) = Only(s, S)
            /\ Tables!ToSet(s) = ToSet(s) /\ Tables!Contract!ToSet(s) = ToSet(s)
  <1>1. \A s, S : Tables!Only(s, S) = Folded(<<"only", S>>, <<>>, s)
    BY DEF Tables!Only, Tables!FoldLeft, Tables!MapThenFoldSet, Tables!Max, Folded, Folds, Onward, Latest
  <1>2. \A s, S : Tables!Contract!Only(s, S) = Folded(<<"only", S>>, <<>>, s)
    BY DEF Tables!Contract!Only, Tables!Contract!FoldLeft, Tables!Contract!MapThenFoldSet,
           Tables!Contract!Max, Folded, Folds, Onward, Latest
  <1>3. \A s : Tables!ToSet(s) = ToSet(s) /\ Tables!Contract!ToSet(s) = ToSet(s)
    BY DEF Tables!ToSet, Tables!Contract!ToSet, ToSet
  <1> QED BY <1>1, <1>2, <1>3, OnlyIs

\* A pool's order and its content tell the same.
PoolsInv ==
    /\ pooled \in [GroupIds -> SUBSET CharacterIds]
    /\ poolOrder \in [GroupIds -> Seq(CharacterIds)]
    /\ \A g \in GroupIds : ToSet(poolOrder[g]) = pooled[g]

PoolRows == [g \in GroupIds |-> Tables!Listed(g)]

LEMMA PoolIsOrder ==
  ASSUME PoolsInv
  PROVE  /\ PoolRows = poolOrder
         /\ \A g \in GroupIds : \A c : Tables!Contract!IsOn(g, c) <=> c \in pooled[g]
  <1>1. ASSUME NEW g \in GroupIds PROVE Tables!Listed(g) = poolOrder[g]
    <2>1. PICK s \in Seq(CharacterIds) : s = poolOrder[g]
      BY DEF PoolsInv
    <2>2. ToSet(s) = pooled[g]
      BY <2>1 DEF PoolsInv
    <2>3. Only(s, pooled[g]) = s
      BY <2>2, OnlyKeeps DEF Kept
    <2> QED BY <2>1, <2>3, TablesLists DEF Tables!Listed
  <1>2. PoolRows = poolOrder
    BY <1>1 DEF PoolRows, PoolsInv
  <1>3. ASSUME NEW g \in GroupIds, NEW c PROVE Tables!Contract!IsOn(g, c) <=> c \in pooled[g]
    BY <1>1, TablesLists DEF Tables!Contract!IsOn, PoolsInv
  <1> QED BY <1>2, <1>3

PoolRowsAreOrder == PoolRows = poolOrder

LEMMA PoolRowsAre == PoolsInv => PoolRowsAreOrder
  BY PoolIsOrder DEF PoolRowsAreOrder

LEMMA PoolStays ==
  ASSUME PoolsInv, NEW call, NEW on, NEW says, NEW got, Tables!PoolTells(call, on, says, got)
  PROVE  /\ PoolsInv' /\ poolTold'.call = call
         /\ Tables!Contract!PoolSays(call, on, says, got)
  <1>1. PoolsInv' /\ PoolRows' = PoolRows
    BY DEF PoolsInv, Tables!PoolTells, PoolRows, Tables!Listed
  <1> QED BY <1>1 DEF Tables!PoolTells, Tables!Answer, Tables!Contract!PoolSays, Tables!Contract!Answer, PoolRows

LEMMA PoolMoves ==
  ASSUME PoolsInv, NEW call, NEW on, Tables!PoolDoes(call, on), PoolsInv'
  PROVE  poolTold'.call = call /\ Tables!Contract!PoolIs(call, on, poolOrder')
  <1>1. PoolRowsAreOrder'
    BY PoolRowsAre, PTL
  <1>2. PoolRows' = poolOrder'
    BY <1>1 DEF PoolRowsAreOrder
  <1> QED BY <1>2 DEF Tables!PoolDoes, Tables!Answer, Tables!Contract!PoolIs, Tables!Contract!Answer, PoolRows

LEMMA ShareImplements ==
  ASSUME PoolsInv, NEW g \in GroupIds, NEW c \in CharacterIds, Tables!Share(g, c)
  PROVE  PoolsInv' /\ poolTold'.call # "none" /\ Tables!Contract!Share(g, c)
  <1>1. CASE c \in pooled[g] /\ Tables!PoolTells("Share", <<g, c>>, "refused", {})
    BY <1>1, PoolStays, PoolIsOrder DEF Tables!Contract!Share
  <1>2. CASE /\ c \notin pooled[g]
             /\ pooled' = [pooled EXCEPT ![g] = @ \cup {c}]
             /\ poolOrder' = [poolOrder EXCEPT ![g] = Append(@, c)]
             /\ Tables!PoolDoes("Share", <<g, c>>)
    <2>1. PICK s \in Seq(CharacterIds) : s = poolOrder[g] /\ ToSet(s) = pooled[g]
      BY DEF PoolsInv
    <2>2. PICK t \in Seq(CharacterIds) : t = Append(s, c) /\ ToSet(t) = ToSet(s) \cup {c}
      <3>1. Append(s, c) \in Seq(CharacterIds)
        OBVIOUS
      <3>2. ToSet(Append(s, c)) = ToSet(s) \cup {c}
        BY AppendIs
      <3> QED BY <3>1, <3>2
    <2>3. poolOrder' = [poolOrder EXCEPT ![g] = t]
      BY <1>2, <2>1, <2>2
    <2>4. PoolsInv'
      BY <1>2, <2>1, <2>2, <2>3 DEF PoolsInv
    <2>5. poolOrder' = [PoolRows EXCEPT ![g] = Append(@, c)]
      BY <1>2, PoolIsOrder
    <2>6. poolTold'.call = "Share" /\ Tables!Contract!PoolIs("Share", <<g, c>>, poolOrder')
      BY <1>2, <2>4, PoolMoves
    <2>7. ~Tables!Contract!IsOn(g, c)
      BY <1>2, PoolIsOrder
    <2> QED BY <2>4, <2>5, <2>6, <2>7 DEF Tables!Contract!Share, PoolRows
  <1> QED BY <1>1, <1>2 DEF Tables!Share

\* Out of the pools asked for, whatever else is on them.
LEMMA DropKeeps ==
  ASSUME PoolsInv, NEW gs \in SUBSET GroupIds, NEW c, Tables!Drop(gs, c)
  PROVE  /\ PoolsInv'
         /\ poolOrder' = [g \in GroupIds |-> IF g \in gs THEN Tables!Contract!Without(poolOrder[g], c)
                                              ELSE poolOrder[g]]
  <1>1. \A g \in GroupIds : Tables!Contract!Without(poolOrder[g], c) = Only(poolOrder[g], ToSet(poolOrder[g]) \ {c})
    BY TablesLists DEF Tables!Contract!Without
  <1>2. poolOrder' = [g \in GroupIds |-> IF g \in gs THEN Tables!Contract!Without(poolOrder[g], c)
                                          ELSE poolOrder[g]]
    BY <1>1, TablesLists DEF Tables!Drop
  <1>3. ASSUME NEW g \in GroupIds
        PROVE  poolOrder'[g] \in Seq(CharacterIds) /\ ToSet(poolOrder'[g]) = pooled'[g]
    <2>1. PICK s \in Seq(CharacterIds) : s = poolOrder[g] /\ ToSet(s) = pooled[g]
      BY DEF PoolsInv
    <2>2. Kept(s, CharacterIds, ToSet(s) \ {c})
      BY OnlyKeeps
    <2>3. CASE g \in gs
      BY <1>1, <1>2, <2>1, <2>2, <2>3 DEF Kept, Tables!Drop
    <2>4. CASE g \notin gs
      BY <1>2, <2>1, <2>4 DEF Tables!Drop
    <2> QED BY <2>3, <2>4
  <1>4. pooled' \in [GroupIds -> SUBSET CharacterIds]
    BY DEF Tables!Drop, PoolsInv
  <1>5. poolOrder' \in [GroupIds -> Seq(CharacterIds)]
    BY <1>2, <1>3
  <1> QED BY <1>2, <1>3, <1>4, <1>5 DEF PoolsInv

LEMMA WithoutNothing ==
  ASSUME PoolsInv, NEW g \in GroupIds, NEW c, c \notin pooled[g]
  PROVE  Tables!Contract!Without(poolOrder[g], c) = poolOrder[g]
  <1>1. PICK s \in Seq(CharacterIds) : s = poolOrder[g] /\ ToSet(s) = pooled[g]
    BY DEF PoolsInv
  <1>2. ToSet(s) \subseteq ToSet(s) \ {c} /\ Kept(s, CharacterIds, ToSet(s) \ {c})
    BY <1>1, OnlyKeeps
  <1> QED BY <1>1, <1>2, TablesLists DEF Kept, Tables!Contract!Without

LEMMA UnshareImplements ==
  ASSUME PoolsInv, NEW g \in GroupIds, NEW c \in CharacterIds, Tables!Unshare(g, c)
  PROVE  PoolsInv' /\ poolTold'.call # "none" /\ Tables!Contract!Unshare(g, c)
  <1>1. CASE c \notin pooled[g] /\ Tables!PoolTells("Unshare", <<g, c>>, "missing", {})
    BY <1>1, PoolStays, PoolIsOrder DEF Tables!Contract!Unshare
  <1>2. CASE c \in pooled[g] /\ Tables!Drop({g}, c) /\ Tables!PoolDoes("Unshare", <<g, c>>)
    <2>1. /\ PoolsInv'
          /\ poolOrder' = [h \in GroupIds |-> IF h \in {g} THEN Tables!Contract!Without(poolOrder[h], c)
                                              ELSE poolOrder[h]]
      BY <1>2, DropKeeps
    <2>2. poolOrder' = [PoolRows EXCEPT ![g] = Tables!Contract!Without(@, c)]
      BY <2>1, PoolIsOrder DEF PoolsInv
    <2> QED BY <1>2, <2>1, <2>2, PoolMoves, PoolIsOrder DEF Tables!Contract!Unshare, PoolRows
  <1> QED BY <1>1, <1>2 DEF Tables!Unshare

LEMMA EverywhereImplements ==
  ASSUME PoolsInv, NEW c \in CharacterIds, Tables!UnshareEverywhere(c)
  PROVE  PoolsInv' /\ poolTold'.call # "none" /\ Tables!Contract!UnshareEverywhere(c)
  <1>1. /\ PoolsInv'
        /\ poolOrder' = [g \in GroupIds |-> IF g \in Tables!Sharing(c)
                                            THEN Tables!Contract!Without(poolOrder[g], c)
                                            ELSE poolOrder[g]]
    <2>1. Tables!Sharing(c) \in SUBSET GroupIds
      BY DEF Tables!Sharing
    <2> QED BY <2>1, DropKeeps DEF Tables!UnshareEverywhere
  <1>2. \A g \in GroupIds : g \notin Tables!Sharing(c) =>
           Tables!Contract!Without(poolOrder[g], c) = poolOrder[g]
    BY WithoutNothing DEF Tables!Sharing
  <1>3. poolOrder' = [g \in GroupIds |-> Tables!Contract!Without(PoolRows[g], c)]
    BY <1>1, <1>2, PoolIsOrder
  <1> QED BY <1>1, <1>3, PoolMoves DEF Tables!UnshareEverywhere, Tables!Contract!UnshareEverywhere, PoolRows

LEMMA ClearImplements ==
  ASSUME PoolsInv, NEW g \in GroupIds, Tables!ClearGroup(g)
  PROVE  PoolsInv' /\ poolTold'.call # "none" /\ Tables!Contract!ClearGroup(g)
  <1>1. ToSet(<<>>) = {} /\ <<>> \in Seq(CharacterIds)
    BY DEF ToSet
  <1>2. PoolsInv'
    BY <1>1 DEF Tables!ClearGroup, PoolsInv
  <1>3. poolOrder' = [PoolRows EXCEPT ![g] = <<>>]
    BY PoolIsOrder DEF Tables!ClearGroup
  <1>4. poolTold'.call = "ClearGroup" /\ Tables!Contract!PoolIs("ClearGroup", <<g>>, poolOrder')
    BY <1>2, PoolMoves DEF Tables!ClearGroup
  <1> QED BY <1>2, <1>3, <1>4 DEF Tables!Contract!ClearGroup, PoolRows

LEMMA PoolReadings ==
  ASSUME PoolsInv, NEW g \in GroupIds, NEW c \in CharacterIds
  PROVE  /\ Tables!List(g) =>
              PoolsInv' /\ poolTold'.call # "none" /\ Tables!Contract!List(g)
         /\ Tables!IsShared(g, c) =>
              PoolsInv' /\ poolTold'.call # "none" /\ Tables!Contract!IsShared(g, c)
         /\ Tables!GroupsSharing(c) =>
              PoolsInv' /\ poolTold'.call # "none" /\ Tables!Contract!GroupsSharing(c)
  <1>1. PoolRows[g] = Tables!Listed(g)
    BY DEF PoolRows
  <1>2. pooled[g] \cap {c} = {d \in {c} : Tables!Contract!IsOn(g, d)}
    BY PoolIsOrder
  <1>3. Tables!Sharing(c) = {h \in GroupIds : Tables!Contract!IsOn(h, c)}
    BY PoolIsOrder DEF Tables!Sharing
  <1>4. ASSUME Tables!List(g) PROVE PoolsInv' /\ poolTold'.call # "none" /\ Tables!Contract!List(g)
    BY <1>1, <1>4, PoolStays DEF Tables!List, Tables!Contract!List, PoolRows
  <1>5. ASSUME Tables!IsShared(g, c)
        PROVE  PoolsInv' /\ poolTold'.call # "none" /\ Tables!Contract!IsShared(g, c)
    BY <1>2, <1>5, PoolStays DEF Tables!IsShared, Tables!Contract!IsShared
  <1>6. ASSUME Tables!GroupsSharing(c)
        PROVE  PoolsInv' /\ poolTold'.call # "none" /\ Tables!Contract!GroupsSharing(c)
    BY <1>3, <1>6, PoolStays DEF Tables!GroupsSharing, Tables!Contract!GroupsSharing
  <1> QED BY <1>4, <1>5, <1>6

LEMMA PoolsImplement ==
  PoolsInv /\ [Tables!PoolsNext]_poolsKept =>
      PoolsInv' /\ [Tables!Contract!PoolsNext]_(Tables!Contract!poolVars)
  <1> SUFFICES ASSUME PoolsInv, [Tables!PoolsNext]_poolsKept
               PROVE  PoolsInv' /\ [Tables!Contract!PoolsNext]_(Tables!Contract!poolVars)
    OBVIOUS
  <1>1. CASE UNCHANGED poolsKept
    BY <1>1 DEF poolsKept, PoolsInv, Tables!Contract!poolVars, Tables!Listed
  <1>2. ASSUME NEW c \in CharacterIds, Tables!GroupsSharing(c) \/ Tables!UnshareEverywhere(c)
        PROVE  PoolsInv' /\ Tables!Contract!PoolsNext
    <2>1. CASE Tables!UnshareEverywhere(c)
      BY <2>1, EverywhereImplements DEF Tables!Contract!PoolsNext
    <2>2. CASE Tables!GroupsSharing(c)
      <3>1. Tables!Sharing(c) = {h \in GroupIds : Tables!Contract!IsOn(h, c)}
        BY PoolIsOrder DEF Tables!Sharing
      <3>2. PoolsInv' /\ poolTold'.call # "none" /\ Tables!Contract!GroupsSharing(c)
        BY <2>2, <3>1, PoolStays DEF Tables!GroupsSharing, Tables!Contract!GroupsSharing
      <3> QED BY <3>2 DEF Tables!Contract!PoolsNext
    <2> QED BY <1>2, <2>1, <2>2
  <1>3. ASSUME NEW g \in GroupIds, Tables!List(g) \/ Tables!ClearGroup(g)
        PROVE  PoolsInv' /\ Tables!Contract!PoolsNext
    <2>1. CASE Tables!List(g)
      <3>1. PoolRows[g] = Tables!Listed(g)
        BY DEF PoolRows
      <3>2. PoolsInv' /\ poolTold'.call # "none" /\ Tables!Contract!List(g)
        BY <2>1, <3>1, PoolStays DEF Tables!List, Tables!Contract!List, PoolRows
      <3> QED BY <3>2 DEF Tables!Contract!PoolsNext
    <2>2. CASE Tables!ClearGroup(g)
      BY <2>2, ClearImplements DEF Tables!Contract!PoolsNext
    <2> QED BY <1>3, <2>1, <2>2
  <1>4. ASSUME NEW g \in GroupIds, NEW c \in CharacterIds,
               Tables!Share(g, c) \/ Tables!Unshare(g, c) \/ Tables!IsShared(g, c)
        PROVE  PoolsInv' /\ Tables!Contract!PoolsNext
    <2>1. CASE Tables!Share(g, c)
      BY <2>1, ShareImplements DEF Tables!Contract!PoolsNext
    <2>2. CASE Tables!Unshare(g, c)
      BY <2>2, UnshareImplements DEF Tables!Contract!PoolsNext
    <2>3. CASE Tables!IsShared(g, c)
      BY <2>3, PoolReadings DEF Tables!Contract!PoolsNext
    <2> QED BY <1>4, <2>1, <2>2, <2>3
  <1> QED BY <1>1, <1>2, <1>3, <1>4 DEF Tables!PoolsNext

\* The store of what groups share in memory (SharedRepository, memory/game.go).
PoolsInMemory == Tables!PoolsBegin /\ [][Tables!PoolsNext]_poolsKept

\* The store of shared characters in memory keeps the contract of its port,
\* whatever is called: a pool is a set and a list beside it, which always tell
\* the same.
THEOREM PoolsKeepContract == PoolsInMemory => Tables!Contract!PoolsSpec
  <1>1. Tables!PoolsBegin => PoolsInv
    BY DEF Tables!PoolsBegin, PoolsInv, ToSet
  <1>2. Tables!PoolsBegin => Tables!Contract!PoolsInit
    <2> SUFFICES ASSUME Tables!PoolsBegin PROVE Tables!Contract!PoolsInit
      OBVIOUS
    <2>1. PoolRows = [g \in GroupIds |-> <<>>]
      BY <1>1, PoolIsOrder DEF Tables!PoolsBegin
    <2> QED BY <2>1 DEF Tables!PoolsBegin, Tables!Contract!PoolsInit, Tables!Answer, Tables!Contract!Answer,
             PoolRows
  <1> QED BY <1>1, <1>2, PoolsImplement, PTL DEF PoolsInMemory, Tables!Contract!PoolsSpec

-----------------------------------------------------------------------------
(* Games.                                                                  *)

Participants == CharacterIds \cup MonsterIds

LEMMA ParticipantsFinite ==
  /\ IsFiniteSet(Participants) /\ Cardinality(Participants) \in Nat
  /\ Tables!Entries = Participants /\ Tables!Contract!Entries = Participants
  <1>1. IsFiniteSet(CharacterIds) /\ IsFiniteSet(MonsterIds)
    BY StoresAssumption
  <1>2. IsFiniteSet(Participants)
    BY <1>1, FS_Union DEF Participants
  <1> QED BY <1>2, FS_CardinalityType DEF Participants, Tables!Entries, Tables!Contract!Entries

LEMMA TablesCount ==
  \A S : Tables!Cardinality(S) = Cardinality(S) /\ Tables!Contract!Cardinality(S) = Cardinality(S)
  BY DEF Tables!Cardinality, Tables!Contract!Cardinality, Cardinality

LEMMA RostersAre ==
  \A r : /\ r \in Tables!Rosters <=> r \in Seq(Participants) /\ IsInjective(r)
         /\ r \in Tables!Contract!Rosters <=> r \in Seq(Participants) /\ IsInjective(r)
  <1> DEFINE n == Cardinality(Participants)
  <1>1. n \in Nat
    BY ParticipantsFinite
  <1>2. \A r : Tables!IsInjective(r) <=> IsInjective(r)
    BY DEF Tables!IsInjective, IsInjective
  <1>3. \A r : Tables!Contract!IsInjective(r) <=> IsInjective(r)
    BY DEF Tables!Contract!IsInjective, IsInjective
  <1>4. Tables!Rosters = {r \in UNION {[1..m -> Participants] : m \in 0..n} : IsInjective(r)}
    BY <1>2, ParticipantsFinite, TablesCount DEF Tables!Rosters, Tables!SeqOf
  <1>5. Tables!Contract!Rosters = {r \in UNION {[1..m -> Participants] : m \in 0..n} : IsInjective(r)}
    BY <1>3, ParticipantsFinite, TablesCount DEF Tables!Contract!Rosters, Tables!Contract!SeqOf
  <1>6. ASSUME NEW r \in Seq(Participants), IsInjective(r)
        PROVE  r \in UNION {[1..m -> Participants] : m \in 0..n}
    <2>1. Len(r) <= n /\ Len(r) \in Nat /\ r \in [1..Len(r) -> Participants]
      BY <1>6, DifferentLength, ParticipantsFinite
    <2>2. Len(r) \in 0..n
      BY <1>1, <2>1
    <2> QED BY <2>1, <2>2
  <1>7. ASSUME NEW r \in UNION {[1..m -> Participants] : m \in 0..n}
        PROVE  r \in Seq(Participants)
    <2>1. PICK m \in 0..n : r \in [1..m -> Participants]
      OBVIOUS
    <2> QED BY <1>1, <2>1
  <1> QED BY <1>4, <1>5, <1>6, <1>7

\* Only a game that is there has a roster, which seats nobody twice.
GamesInv ==
    /\ games \in [GameIds -> GroupIds \cup {Absent}]
    /\ rosters \in [GameIds -> Seq(Participants)]
    /\ \A x \in GameIds : IsInjective(rosters[x])
    /\ \A x \in GameIds : games[x] = Absent => rosters[x] = <<>>

GameRows == [x \in GameIds |-> Tables!GameAt(x)]

GamesRead ==
    \A x \in GameIds :
        /\ GameRows[x] = IF games[x] = Absent THEN Absent
                         ELSE [group |-> games[x], roster |-> rosters[x]]
        /\ Tables!Contract!On(x) <=> games[x] # Absent
        /\ games[x] # Absent => GameRows[x].roster = rosters[x] /\ GameRows[x].group = games[x]

LEMMA GamesAreRead == GamesInv => GamesRead
  <1> SUFFICES ASSUME GamesInv, NEW x \in GameIds
               PROVE  /\ GameRows[x] = IF games[x] = Absent THEN Absent
                                       ELSE [group |-> games[x], roster |-> rosters[x]]
                      /\ Tables!Contract!On(x) <=> games[x] # Absent
                      /\ games[x] # Absent => /\ GameRows[x].roster = rosters[x]
                                              /\ GameRows[x].group = games[x]
    BY DEF GamesRead
  <1>1. GameRows[x] = IF games[x] = Absent THEN Absent
                      ELSE [group |-> games[x], roster |-> rosters[x]]
    BY DEF GameRows, Tables!GameAt
  <1>2. Tables!Contract!On(x) <=> GameRows[x] # Absent
    BY DEF Tables!Contract!On, GameRows
  <1>3. games[x] # Absent =>
           [group |-> games[x], roster |-> rosters[x]]
              \in [group : GroupIds, roster : Seq(CharacterIds \cup MonsterIds)]
    BY DEF GamesInv, Participants
  <1>4. games[x] # Absent => [group |-> games[x], roster |-> rosters[x]] # Absent
    BY <1>3, StoresAssumption
  <1> QED BY <1>1, <1>2, <1>4

LEMMA GamesAt ==
  ASSUME GamesInv
  PROVE  \A g \in GroupIds : Tables!Contract!At(g) = Tables!At(g)
  <1> SUFFICES ASSUME NEW g \in GroupIds, NEW x \in GameIds
               PROVE  (Tables!Contract!On(x) /\ GameRows[x].group = g) <=> games[x] = g
    BY DEF Tables!Contract!At, Tables!At, GameRows
  <1>1. g # Absent
    BY StoresAssumption
  <1> QED BY <1>1, GamesAreRead DEF GamesRead

LEMMA GameStays ==
  ASSUME GamesInv, NEW call, NEW on, NEW says, NEW got, Tables!GameTells(call, on, says, got)
  PROVE  /\ GamesInv' /\ gameTold'.call = call /\ gameTold'.on = on
         /\ Tables!Contract!GameSays(call, on, says, got)
  <1>1. GamesInv'
    BY DEF GamesInv, Tables!GameTells
  <1>2. GameRows' = GameRows
    BY DEF Tables!GameTells, GameRows, Tables!GameAt
  <1> QED BY <1>1, <1>2 DEF Tables!GameTells, Tables!Answer, Tables!Contract!GameSays,
                            Tables!Contract!Answer, GameRows

LEMMA GameMoves ==
  ASSUME NEW call, NEW on, Tables!GameDoes(call, on)
  PROVE  /\ gameTold'.call = call /\ gameTold'.on = on
         /\ Tables!Contract!GameIs(call, on, GameRows')
  BY DEF Tables!GameDoes, Tables!Answer, Tables!Contract!GameIs, Tables!Contract!Answer, GameRows

\* A game's roster becomes another.
LEMMA RosterMoves ==
  ASSUME GamesInv, NEW x \in GameIds, games[x] # Absent,
         NEW r \in Seq(Participants), IsInjective(r), NEW call, NEW on, Tables!RosterIs(call, x, on, r)
  PROVE  /\ GamesInv' /\ gameTold'.call = call /\ gameTold'.on = on
         /\ Tables!Contract!GameIs(call, on, [GameRows EXCEPT ![x].roster = r])
  <1>1. rosters' = [rosters EXCEPT ![x] = r] /\ games' = games
    BY DEF Tables!RosterIs
  <1>2. GamesInv'
    BY <1>1 DEF GamesInv
  <1>3. GamesRead /\ GamesRead'
    BY <1>2, GamesAreRead, PTL
  <1>4. DOMAIN GameRows = GameIds /\ DOMAIN GameRows' = GameIds /\ DOMAIN rosters = GameIds
    BY DEF GameRows, GamesInv
  <1>5. GameRows'[x] = [group |-> games[x], roster |-> r]
    BY <1>1, <1>3, <1>4 DEF GamesRead
  <1>6. [GameRows[x] EXCEPT !.roster = r] = [group |-> games[x], roster |-> r]
    <2>1. GameRows[x] = [group |-> games[x], roster |-> rosters[x]]
      BY <1>3 DEF GamesRead
    <2> QED BY <2>1
  <1>7. \A y \in GameIds \ {x} : GameRows'[y] = GameRows[y]
    BY <1>1, <1>3, <1>4 DEF GamesRead
  <1>8. GameRows' = [GameRows EXCEPT ![x] = [GameRows[x] EXCEPT !.roster = r]]
    BY <1>4, <1>5, <1>6, <1>7 DEF GameRows
  <1>9. /\ gameTold'.call = call /\ gameTold'.on = on
        /\ Tables!Contract!GameIs(call, on, GameRows')
    BY GameMoves DEF Tables!RosterIs
  <1> QED BY <1>2, <1>8, <1>9

\* Two sets with the same of a list in them leave the same of it.
LEMMA OnlyAgree ==
  ASSUME NEW T, NEW s \in Seq(T), NEW S, NEW Q, \A e \in ToSet(s) : e \in S <=> e \in Q
  PROVE  Only(s, S) = Only(s, Q)
  <1> DEFINE D == ToSet(s)
             G == {l \in Seq(T) : ToSet(l) \subseteq D => Only(l, S) = Only(l, Q)}
  <1>1. <<>> \in G
    BY OnlyNone
  <1>2. ASSUME NEW l \in Seq(T), NEW e \in T, l \in G PROVE Append(l, e) \in G
    <2>1. PICK m \in Seq(T) : m = Append(l, e)
      BY AppendIs
    <2>2. ToSet(m) = ToSet(l) \cup {e}
      BY <2>1, AppendIs
    <2>3. Only(m, S) = IF e \in S THEN Append(Only(l, S), e) ELSE Only(l, S)
      BY <2>1, OnlyNext
    <2>4. Only(m, Q) = IF e \in Q THEN Append(Only(l, Q), e) ELSE Only(l, Q)
      BY <2>1, OnlyNext
    <2>5. ASSUME ToSet(m) \subseteq D PROVE Only(m, S) = Only(m, Q)
      <3>1. Only(l, S) = Only(l, Q) /\ (e \in S <=> e \in Q)
        BY <1>2, <2>2, <2>5
      <3> HIDE DEF D
      <3> QED BY <2>3, <2>4, <3>1
    <2> QED BY <2>1, <2>5
  <1>3. Seq(T) \subseteq G
    <2> HIDE DEF G
    <2> QED BY <1>1, <1>2, Lists
  <1> QED BY <1>3

LEMMA PrefixIs ==
  ASSUME NEW T, NEW s \in Seq(T), NEW t \in Seq(T), Len(s) <= Len(t),
         \A i \in 1..Len(s) : t[i] = s[i]
  PROVE  SubSeq(s, 1, Len(s)) = SubSeq(t, 1, Len(s))
  <1>1. Len(s) \in Nat /\ Len(t) \in Nat
    OBVIOUS
  <1>2. PICK a \in Seq(T) : a = SubSeq(s, 1, Len(s)) /\ Len(a) = Len(s) /\ \A i \in 1..Len(s) : a[i] = s[i]
    BY <1>1
  <1>3. PICK b \in Seq(T) : b = SubSeq(t, 1, Len(s)) /\ Len(b) = Len(s) /\ \A i \in 1..Len(s) : b[i] = t[i]
    BY <1>1
  <1>4. a = b
    BY <1>2, <1>3
  <1> QED BY <1>2, <1>3, <1>4

LEMMA TablesSeat ==
  \A l, s : Tables!FoldLeft(Tables!Seating, l, s) = FoldLeft(Once, l, s)
  <1>1. \A l, s : Tables!FoldLeft(Tables!Seating, l, s) = Folded(<<"seat", {}>>, l, s)
    BY DEF Tables!FoldLeft, Tables!Seating, Tables!ToSet, Tables!MapThenFoldSet, Tables!Max, ToSet,
           Folded, Folds, Onward, Latest
  <1> QED BY <1>1, OnceIs

\* A character is taken from a roster: a monster is no character.
LEMMA UnseatedIs ==
  ASSUME GamesInv, NEW x \in GameIds, NEW c \in CharacterIds
  PROVE  /\ Tables!Unseated(x, c) = Tables!Contract!Without(rosters[x], c)
         /\ Tables!Unseated(x, c) \in Seq(Participants) /\ IsInjective(Tables!Unseated(x, c))
         /\ Len(Tables!Unseated(x, c)) = Len(rosters[x]) <=> c \notin ToSet(rosters[x])
         /\ rosters[x] = <<>> => Tables!Unseated(x, c) = <<>>
  <1>1. PICK s \in Seq(Participants) : s = rosters[x] /\ IsInjective(s)
    BY DEF GamesInv
  <1> DEFINE S == {e \in Tables!Entries : e \in MonsterIds \/ e # c}
  <1>2. \A e \in Participants : e \in S <=> e # c
    BY ParticipantsFinite, StoresAssumption DEF Participants
  <1>3. \A e \in ToSet(s) : e \in Participants
    BY DEF ToSet
  <1>4. Tables!Unseated(x, c) = Only(s, S)
    BY <1>1, TablesLists DEF Tables!Unseated
  <1>5. Tables!Contract!Without(rosters[x], c) = Only(s, ToSet(s) \ {c})
    BY <1>1, TablesLists DEF Tables!Contract!Without
  <1> HIDE DEF S
  <1>6. Only(s, S) = Only(s, ToSet(s) \ {c})
    <2>1. \A e \in ToSet(s) : e \in S <=> e \in ToSet(s) \ {c}
      BY <1>2, <1>3
    <2> QED BY <2>1, OnlyAgree
  <1>7. PICK u \in Seq(Participants) : u = Only(s, S)
    BY OnlyKeeps DEF Kept
  <1>8. /\ ToSet(s) \subseteq S => u = s
        /\ ~ (ToSet(s) \subseteq S) => Len(u) < Len(s)
    BY <1>7, OnlyKeeps DEF Kept
  <1>9. ToSet(s) \subseteq S <=> c \notin ToSet(s)
    BY <1>2, <1>3
  <1>10. IsInjective(u)
    <2>1. Ascending(s, Different(Participants))
      BY <1>1, InjectiveAscends
    <2>2. Ascending(u, Different(Participants))
      BY <1>7, <2>1, OnlyAscends
    <2> QED BY <2>2, InjectiveAscends
  <1>11. Len(u) = Len(s) <=> c \notin ToSet(s)
    <2>1. Len(u) \in Nat /\ Len(s) \in Nat
      OBVIOUS
    <2> QED BY <1>8, <1>9, <2>1
  <1>12. s = <<>> => u = <<>>
    <2>1. ToSet(<<>>) = {}
      BY DEF ToSet
    <2> QED BY <1>8, <2>1
  <1> QED BY <1>1, <1>4, <1>5, <1>6, <1>7, <1>10, <1>11, <1>12

-----------------------------------------------------------------------------
(* The methods.                                                            *)

LEMMA GameRead ==
  ASSUME GamesInv, NEW x \in GameIds
  PROVE  /\ Tables!GameByID(x) =>
              GamesInv' /\ gameTold'.call # "none" /\ gameTold'.on[1] = x /\ Tables!Contract!GameByID(x)
         /\ Tables!Roster(x) =>
              GamesInv' /\ gameTold'.call # "none" /\ gameTold'.on[1] = x /\ Tables!Contract!Roster(x)
  <1>1. GamesRead
    BY GamesAreRead
  <1>2. <<x>>[1] = x
    OBVIOUS
  <1>3. ASSUME Tables!GameByID(x)
        PROVE  /\ GamesInv' /\ gameTold'.call # "none" /\ gameTold'.on[1] = x
               /\ Tables!Contract!GameByID(x)
    <2>1. CASE games[x] = Absent /\ Tables!GameTells("GameByID", <<x>>, "missing", {})
      BY <1>1, <1>2, <2>1, GameStays DEF GamesRead, Tables!Contract!GameByID
    <2>2. CASE games[x] # Absent /\ Tables!GameTells("GameByID", <<x>>, "done", {games[x]})
      <3>1. GameRows[x].group = games[x] /\ Tables!Contract!On(x)
        BY <1>1, <2>2 DEF GamesRead
      <3>2. /\ GamesInv' /\ gameTold'.call = "GameByID" /\ gameTold'.on = <<x>>
            /\ Tables!Contract!GameSays("GameByID", <<x>>, "done", {games[x]})
        BY <2>2, GameStays
      <3> QED BY <1>2, <3>1, <3>2 DEF Tables!Contract!GameByID, GameRows
    <2> QED BY <1>3, <2>1, <2>2 DEF Tables!GameByID
  <1>4. ASSUME Tables!Roster(x)
        PROVE  /\ GamesInv' /\ gameTold'.call # "none" /\ gameTold'.on[1] = x
               /\ Tables!Contract!Roster(x)
    <2>1. CASE games[x] = Absent /\ Tables!GameTells("Roster", <<x>>, "missing", {})
      BY <1>1, <1>2, <2>1, GameStays DEF GamesRead, Tables!Contract!Roster
    <2>2. CASE games[x] # Absent /\ Tables!GameTells("Roster", <<x>>, "done", {rosters[x]})
      <3>1. GameRows[x].roster = rosters[x] /\ Tables!Contract!On(x)
        BY <1>1, <2>2 DEF GamesRead
      <3>2. /\ GamesInv' /\ gameTold'.call = "Roster" /\ gameTold'.on = <<x>>
            /\ Tables!Contract!GameSays("Roster", <<x>>, "done", {rosters[x]})
        BY <2>2, GameStays
      <3> QED BY <1>2, <3>1, <3>2 DEF Tables!Contract!Roster, GameRows
    <2> QED BY <1>4, <2>1, <2>2 DEF Tables!Roster
  <1> QED BY <1>3, <1>4

LEMMA GameCreated ==
  ASSUME GamesInv, NEW x \in GameIds, NEW g \in GroupIds, Tables!CreateGame(x, g)
  PROVE  /\ GamesInv' /\ gameTold'.call # "none" /\ gameTold'.on[1] = x
         /\ Tables!Contract!CreateGame(x, g)
  <1>1. GamesRead
    BY GamesAreRead
  <1>2. <<x, g>>[1] = x
    OBVIOUS
  <1>3. CASE games[x] # Absent /\ Tables!GameTells("CreateGame", <<x, g>>, "refused", {})
    BY <1>1, <1>2, <1>3, GameStays, ZenonT(30) DEF GamesRead, Tables!Contract!CreateGame
  <1>4. CASE /\ games[x] = Absent
             /\ games' = [games EXCEPT ![x] = g]
             /\ Tables!GameDoes("CreateGame", <<x, g>>)
             /\ UNCHANGED rosters
    <2>1. g # Absent /\ rosters[x] = <<>>
      BY <1>4, StoresAssumption DEF GamesInv
    <2>2. GamesInv'
      BY <1>4, <2>1 DEF GamesInv
    <2>3. GamesRead'
      BY <2>2, GamesAreRead, PTL
    <2>4. /\ GameRows = [y \in GameIds |-> GameRows[y]]
          /\ GameRows' = [y \in GameIds |-> GameRows'[y]]
          /\ DOMAIN games = GameIds
      BY DEF GameRows, GamesInv
    <2>5. GameRows'[x] = [group |-> g, roster |-> <<>>]
      BY <1>4, <2>1, <2>3, <2>4 DEF GamesRead
    <2>6. \A y \in GameIds \ {x} : GameRows'[y] = GameRows[y]
      BY <1>1, <1>4, <2>3, <2>4 DEF GamesRead
    <2>7. GameRows' = [GameRows EXCEPT ![x] = [group |-> g, roster |-> <<>>]]
      BY <2>4, <2>5, <2>6
    <2>8. /\ gameTold'.call = "CreateGame" /\ gameTold'.on = <<x, g>>
          /\ Tables!Contract!GameIs("CreateGame", <<x, g>>, GameRows')
      BY <1>4, GameMoves
    <2>9. ~Tables!Contract!On(x)
      BY <1>1, <1>4 DEF GamesRead
    <2> QED BY <1>2, <2>2, <2>7, <2>8, <2>9 DEF Tables!Contract!CreateGame, GameRows
  <1> QED BY <1>3, <1>4 DEF Tables!CreateGame

\* Games go, and their rosters with them.
LEMMA GamesForgotten ==
  ASSUME GamesInv, NEW xs \in SUBSET GameIds, Tables!Forget(xs)
  PROVE  /\ GamesInv'
         /\ GameRows' = [x \in GameIds |-> IF x \in xs THEN Absent ELSE GameRows[x]]
  <1>1. /\ games' = [x \in GameIds |-> IF x \in xs THEN Absent ELSE games[x]]
        /\ rosters' = [x \in GameIds |-> IF x \in xs THEN <<>> ELSE rosters[x]]
    BY DEF Tables!Forget
  <1>2. <<>> \in Seq(Participants) /\ IsInjective(<<>>)
    BY DEF IsInjective
  <1>3. GamesInv'
    BY <1>1, <1>2 DEF GamesInv
  <1>4. GamesRead /\ GamesRead'
    BY <1>3, GamesAreRead, PTL
  <1>5. GameRows' = [y \in GameIds |-> GameRows'[y]]
    BY DEF GameRows
  <1>6. \A y \in GameIds : GameRows'[y] = IF y \in xs THEN Absent ELSE GameRows[y]
    BY <1>1, <1>4 DEF GamesRead
  <1> QED BY <1>3, <1>5, <1>6

LEMMA GameDeleted ==
  ASSUME GamesInv, NEW x \in GameIds, Tables!DeleteGame(x)
  PROVE  /\ GamesInv' /\ gameTold'.call # "none" /\ gameTold'.on[1] = x
         /\ Tables!Contract!DeleteGame(x)
  <1>1. GamesRead
    BY GamesAreRead
  <1>2. <<x>>[1] = x
    OBVIOUS
  <1>3. CASE games[x] = Absent /\ Tables!GameTells("DeleteGame", <<x>>, "missing", {})
    BY <1>1, <1>2, <1>3, GameStays DEF GamesRead, Tables!Contract!DeleteGame
  <1>4. CASE games[x] # Absent /\ Tables!Forget({x}) /\ Tables!GameDoes("DeleteGame", <<x>>)
    <2>1. /\ GamesInv'
          /\ GameRows' = [y \in GameIds |-> IF y \in {x} THEN Absent ELSE GameRows[y]]
      BY <1>4, GamesForgotten
    <2>2. GameRows = [y \in GameIds |-> GameRows[y]]
      BY DEF GameRows
    <2>3. GameRows' = [GameRows EXCEPT ![x] = Absent]
      BY <2>1, <2>2
    <2>4. /\ gameTold'.call = "DeleteGame" /\ gameTold'.on = <<x>>
          /\ Tables!Contract!GameIs("DeleteGame", <<x>>, GameRows')
      BY <1>4, GameMoves
    <2>5. Tables!Contract!On(x)
      BY <1>1, <1>4 DEF GamesRead
    <2> QED BY <1>2, <2>1, <2>3, <2>4, <2>5 DEF Tables!Contract!DeleteGame, GameRows
  <1> QED BY <1>3, <1>4 DEF Tables!DeleteGame

LEMMA GameSeats ==
  ASSUME GamesInv, NEW x \in GameIds, NEW cs \in Tables!SeqOf(CharacterIds \cup {Nameless}, 2),
         Tables!AddCharacters(x, cs)
  PROVE  /\ GamesInv' /\ gameTold'.call # "none" /\ gameTold'.on[1] = x
         /\ Tables!Contract!AddCharacters(x, cs)
  <1>1. GamesRead
    BY GamesAreRead
  <1>2. <<x, cs>>[1] = x /\ Tables!ToSet(cs) = ToSet(cs) /\ Tables!Contract!ToSet(cs) = ToSet(cs)
    BY TablesLists
  <1>3. CASE games[x] = Absent /\ Tables!GameTells("AddCharacters", <<x, cs>>, "missing", {})
    BY <1>1, <1>2, <1>3, GameStays DEF GamesRead, Tables!Contract!AddCharacters
  <1>4. CASE /\ games[x] # Absent /\ Nameless \in Tables!ToSet(cs)
             /\ Tables!GameTells("AddCharacters", <<x, cs>>, "refused", {})
    <2>1. /\ GamesInv' /\ gameTold'.call = "AddCharacters" /\ gameTold'.on = <<x, cs>>
          /\ Tables!Contract!GameSays("AddCharacters", <<x, cs>>, "refused", {})
      BY <1>4, GameStays
    <2>2. Tables!Contract!On(x) /\ Nameless \in Tables!Contract!ToSet(cs)
      BY <1>1, <1>2, <1>4 DEF GamesRead
    <2> QED BY <1>2, <2>1, <2>2 DEF Tables!Contract!AddCharacters
  <1>5. CASE /\ games[x] # Absent /\ Nameless \notin Tables!ToSet(cs)
             /\ Tables!RosterIs("AddCharacters", x, <<x, cs>>,
                                Tables!FoldLeft(Tables!Seating, rosters[x], cs))
    <2>1. cs \in Seq(Participants)
      <3>1. PICK m \in 0..2 : cs \in [1..m -> CharacterIds \cup {Nameless}]
        BY DEF Tables!SeqOf
      <3>2. \A i \in 1..m : cs[i] \in ToSet(cs)
        BY <3>1 DEF ToSet
      <3>3. \A i \in 1..m : cs[i] \in CharacterIds
        BY <1>2, <1>5, <3>1, <3>2
      <3>4. cs \in [1..m -> Participants]
        BY <3>1, <3>3 DEF Participants
      <3> QED BY <3>4
    <2>2. PICK l \in Seq(Participants) : l = rosters[x] /\ IsInjective(l)
      BY DEF GamesInv
    <2>3. PICK new : new = FoldLeft(Once, l, cs)
      OBVIOUS
    <2>4. Added(Participants, l, cs, new)
      BY <2>1, <2>2, <2>3, OnceAdds
    <2>5. /\ new \in Seq(Participants) /\ IsInjective(new)
          /\ Len(l) <= Len(new) /\ \A i \in 1..Len(l) : new[i] = l[i]
          /\ ToSet(new) = ToSet(l) \cup ToSet(cs)
          /\ \A i, j \in (Len(l) + 1)..Len(new) : i < j => First(cs, new[i]) < First(cs, new[j])
      BY <2>4 DEF Added
    <2>6. Tables!RosterIs("AddCharacters", x, <<x, cs>>, new)
      BY <1>5, <2>2, <2>3, TablesSeat
    <2>7. /\ GamesInv' /\ gameTold'.call = "AddCharacters" /\ gameTold'.on = <<x, cs>>
          /\ Tables!Contract!GameIs("AddCharacters", <<x, cs>>, [GameRows EXCEPT ![x].roster = new])
      BY <1>5, <2>5, <2>6, RosterMoves
    <2>8. new \in Tables!Contract!Rosters
      BY <2>5, RostersAre
    <2>9. GameRows[x].roster = l /\ Tables!Contract!On(x)
      BY <1>1, <1>5, <2>2 DEF GamesRead
    <2>10. Tables!Contract!IsPrefix(l, new)
      BY <2>2, <2>5, PrefixIs DEF Tables!Contract!IsPrefix
    <2>11. Tables!Contract!ToSet(new) = Tables!Contract!ToSet(l) \cup Tables!Contract!ToSet(cs)
      BY <2>5, TablesLists
    <2>12. \A c : Tables!Contract!First(cs, c) = First(cs, c)
      BY DEF Tables!Contract!First, First
    <2>13. \A i, j \in Len(l) + 1 .. Len(new) :
             i < j => Tables!Contract!First(cs, new[i]) < Tables!Contract!First(cs, new[j])
      BY <2>5, <2>12
    <2>14. \E r \in Tables!Contract!Rosters :
             /\ Tables!Contract!GameIs("AddCharacters", <<x, cs>>, [GameRows EXCEPT ![x].roster = r])
             /\ Tables!Contract!IsPrefix(GameRows[x].roster, r)
             /\ Tables!Contract!ToSet(r) = Tables!Contract!ToSet(GameRows[x].roster)
                                           \cup Tables!Contract!ToSet(cs)
             /\ \A i, j \in Len(GameRows[x].roster) + 1 .. Len(r) :
                  i < j => Tables!Contract!First(cs, r[i]) < Tables!Contract!First(cs, r[j])
      BY <2>7, <2>8, <2>9, <2>10, <2>11, <2>13
    <2>15. Nameless \notin Tables!Contract!ToSet(cs)
      BY <1>2, <1>5
    <2>16. Tables!Contract!AddCharacters(x, cs)
      BY <2>9, <2>14, <2>15 DEF Tables!Contract!AddCharacters, GameRows
    <2> QED BY <1>2, <2>7, <2>16
  <1> QED BY <1>3, <1>4, <1>5 DEF Tables!AddCharacters

LEMMA GameLeft ==
  ASSUME GamesInv, NEW x \in GameIds, NEW c \in CharacterIds, Tables!RemoveCharacter(x, c)
  PROVE  /\ GamesInv' /\ gameTold'.call # "none" /\ gameTold'.on[1] = x
         /\ Tables!Contract!RemoveCharacter(x, c)
  <1>1. GamesRead
    BY GamesAreRead
  <1>2. <<x, c>>[1] = x /\ Tables!Contract!ToSet(rosters[x]) = ToSet(rosters[x])
    BY TablesLists
  <1>3. CASE /\ games[x] = Absent \/ Len(Tables!Unseated(x, c)) = Len(rosters[x])
             /\ Tables!GameTells("RemoveCharacter", <<x, c>>, "missing", {})
    <2>1. /\ GamesInv' /\ gameTold'.call = "RemoveCharacter" /\ gameTold'.on = <<x, c>>
          /\ Tables!Contract!GameSays("RemoveCharacter", <<x, c>>, "missing", {})
      BY <1>3, GameStays
    <2>2. Tables!Contract!On(x) => c \notin Tables!Contract!ToSet(GameRows[x].roster)
      BY <1>1, <1>2, <1>3, UnseatedIs DEF GamesRead
    <2> QED BY <1>2, <2>1, <2>2 DEF Tables!Contract!RemoveCharacter, GameRows
  <1>4. CASE /\ games[x] # Absent /\ Len(Tables!Unseated(x, c)) # Len(rosters[x])
             /\ Tables!RosterIs("RemoveCharacter", x, <<x, c>>, Tables!Unseated(x, c))
    <2>1. PICK u \in Seq(Participants) : u = Tables!Unseated(x, c) /\ IsInjective(u)
      BY UnseatedIs
    <2>2. GameRows[x].roster = rosters[x] /\ Tables!Contract!On(x)
      BY <1>1, <1>4 DEF GamesRead
    <2>3. u = Tables!Contract!Without(GameRows[x].roster, c)
      BY <2>1, <2>2, UnseatedIs
    <2>4. c \in Tables!Contract!ToSet(GameRows[x].roster)
      BY <1>2, <1>4, <2>2, UnseatedIs
    <2>5. Tables!RosterIs("RemoveCharacter", x, <<x, c>>, u)
      BY <1>4, <2>1
    <2>6. /\ GamesInv' /\ gameTold'.call = "RemoveCharacter" /\ gameTold'.on = <<x, c>>
          /\ Tables!Contract!GameIs("RemoveCharacter", <<x, c>>, [GameRows EXCEPT ![x].roster = u])
      BY <1>4, <2>1, <2>5, RosterMoves
    <2>7. [GameRows EXCEPT ![x].roster = u]
             = [GameRows EXCEPT ![x].roster = Tables!Contract!Without(@, c)]
      BY <2>3
    <2> QED BY <1>2, <2>2, <2>4, <2>6, <2>7 DEF Tables!Contract!RemoveCharacter, GameRows
  <1> QED BY <1>3, <1>4 DEF Tables!RemoveCharacter

LEMMA GroupLeft ==
  ASSUME GamesInv, NEW g \in GroupIds, NEW c \in CharacterIds, Tables!RemoveFromGroupGames(g, c)
  PROVE  /\ GamesInv' /\ gameTold'.call # "none"
         /\ Tables!Contract!RemoveFromGroupGames(g, c)
  <1>1. /\ rosters' = [x \in GameIds |-> IF x \in Tables!At(g) THEN Tables!Unseated(x, c)
                                         ELSE rosters[x]]
        /\ games' = games /\ Tables!GameDoes("RemoveFromGroupGames", <<g, c>>)
    BY DEF Tables!RemoveFromGroupGames
  <1>2. \A x \in GameIds : /\ rosters'[x] \in Seq(Participants) /\ IsInjective(rosters'[x])
                           /\ rosters[x] = <<>> => rosters'[x] = <<>>
    BY <1>1, UnseatedIs DEF GamesInv
  <1>3. rosters' \in [GameIds -> Seq(Participants)]
    BY <1>1, <1>2
  <1>4. GamesInv'
    BY <1>1, <1>2, <1>3 DEF GamesInv
  <1>5. GamesRead /\ GamesRead'
    BY <1>4, GamesAreRead, PTL
  <1>6. \A x \in GameIds : x \in Tables!At(g) <=> games[x] = g
    BY DEF Tables!At
  <1>7. g # Absent
    BY StoresAssumption
  <1>8. ASSUME NEW x \in GameIds
        PROVE  GameRows'[x] = IF x \in Tables!At(g)
                              THEN [GameRows[x] EXCEPT !.roster = Tables!Contract!Without(@, c)]
                              ELSE GameRows[x]
    <2>1. CASE x \in Tables!At(g)
      <3>1. games[x] = g /\ games[x] # Absent
        BY <1>6, <1>7, <2>1
      <3>2. GameRows[x] = [group |-> games[x], roster |-> rosters[x]]
        BY <1>5, <3>1 DEF GamesRead
      <3>3. GameRows'[x] = [group |-> games[x], roster |-> rosters'[x]]
        BY <1>1, <1>5, <3>1 DEF GamesRead
      <3>4. rosters'[x] = Tables!Contract!Without(rosters[x], c)
        BY <1>1, <2>1, UnseatedIs
      <3>5. [GameRows[x] EXCEPT !.roster = Tables!Contract!Without(@, c)]
              = [group |-> games[x], roster |-> rosters'[x]]
        BY <3>2, <3>4
      <3> QED BY <2>1, <3>3, <3>5
    <2>2. CASE x \notin Tables!At(g)
      BY <1>1, <1>5, <2>2 DEF GamesRead
    <2> QED BY <2>1, <2>2
  <1>9. GameRows' = [x \in GameIds |-> GameRows'[x]]
    BY DEF GameRows
  <1>10. GameRows' = [x \in GameIds |->
                        IF x \in Tables!Contract!At(g)
                        THEN [GameRows[x] EXCEPT !.roster = Tables!Contract!Without(@, c)]
                        ELSE GameRows[x]]
    BY <1>8, <1>9, GamesAt
  <1>11. /\ gameTold'.call = "RemoveFromGroupGames"
         /\ Tables!Contract!GameIs("RemoveFromGroupGames", <<g, c>>, GameRows')
    BY <1>1, GameMoves
  <1> QED BY <1>4, <1>10, <1>11 DEF Tables!Contract!RemoveFromGroupGames, GameRows

LEMMA GameMutated ==
  ASSUME GamesInv, NEW x \in GameIds, Tables!MutateEntries(x)
  PROVE  /\ GamesInv' /\ gameTold'.call # "none" /\ gameTold'.on[1] = x
         /\ Tables!Contract!MutateEntries(x)
  <1>1. GamesRead
    BY GamesAreRead
  <1>2. <<x>>[1] = x
    OBVIOUS
  <1>3. CASE games[x] = Absent /\ Tables!GameTells("MutateEntries", <<x>>, "missing", {})
    BY <1>1, <1>2, <1>3, GameStays DEF GamesRead, Tables!Contract!MutateEntries
  <1>4. CASE games[x] # Absent /\ Tables!GameTells("MutateEntries", <<x>>, "refused", {})
    BY <1>1, <1>2, <1>4, GameStays DEF GamesRead, Tables!Contract!MutateEntries
  <1>5. CASE /\ games[x] # Absent
             /\ \E r \in Tables!Rosters : Tables!RosterIs("MutateEntries", x, <<x>>, r)
    <2>1. PICK r \in Seq(Participants) : /\ Tables!RosterIs("MutateEntries", x, <<x>>, r)
                                         /\ IsInjective(r) /\ r \in Tables!Contract!Rosters
      BY <1>5, RostersAre
    <2>2. /\ GamesInv' /\ gameTold'.call = "MutateEntries" /\ gameTold'.on = <<x>>
          /\ Tables!Contract!GameIs("MutateEntries", <<x>>, [GameRows EXCEPT ![x].roster = r])
      BY <1>5, <2>1, RosterMoves
    <2>3. Tables!Contract!On(x)
      BY <1>1, <1>5 DEF GamesRead
    <2> QED BY <1>2, <2>1, <2>2, <2>3 DEF Tables!Contract!MutateEntries, GameRows
  <1> QED BY <1>3, <1>4, <1>5 DEF Tables!MutateEntries

LEMMA GamesImplement ==
  GamesInv /\ [Tables!GamesNext]_gamesKept =>
      GamesInv' /\ [Tables!Contract!GamesNext]_(Tables!Contract!gameVars)
  <1> SUFFICES ASSUME GamesInv, [Tables!GamesNext]_gamesKept
               PROVE  GamesInv' /\ [Tables!Contract!GamesNext]_(Tables!Contract!gameVars)
    OBVIOUS
  <1>1. CASE UNCHANGED gamesKept
    BY <1>1 DEF gamesKept, GamesInv, Tables!Contract!gameVars, Tables!GameAt
  <1>2. ASSUME NEW g \in GroupIds, Tables!GamesFor(g)
        PROVE  GamesInv' /\ Tables!Contract!GamesNext
    <2>1. GamesInv' /\ gameTold'.call # "none" /\ Tables!Contract!GamesFor(g)
      BY <1>2, GameStays, GamesAt DEF Tables!GamesFor, Tables!Contract!GamesFor
    <2> QED BY <2>1 DEF Tables!Contract!GamesNext
  <1>3. ASSUME NEW g \in GroupIds, Tables!DeleteForGroup(g)
        PROVE  GamesInv' /\ Tables!Contract!GamesNext
    <2>1. GamesInv' /\ gameTold'.call # "none" /\ Tables!Contract!DeleteForGroup(g)
      <3>1. Tables!At(g) \in SUBSET GameIds
        BY DEF Tables!At
      <3>2. /\ GamesInv'
            /\ GameRows' = [y \in GameIds |-> IF y \in Tables!At(g) THEN Absent ELSE GameRows[y]]
        BY <1>3, <3>1, GamesForgotten DEF Tables!DeleteForGroup
      <3>3. /\ gameTold'.call = "DeleteForGroup"
            /\ Tables!Contract!GameIs("DeleteForGroup", <<g>>, GameRows')
        BY <1>3, GameMoves DEF Tables!DeleteForGroup
      <3>4. GameRows' = [y \in GameIds |-> IF y \in Tables!Contract!At(g) THEN Absent ELSE GameRows[y]]
        BY <3>2, GamesAt
      <3> QED BY <3>2, <3>3, <3>4 DEF Tables!Contract!DeleteForGroup, GameRows
    <2> QED BY <2>1 DEF Tables!Contract!GamesNext
  <1>4. ASSUME NEW g \in GroupIds, NEW c \in CharacterIds, Tables!RemoveFromGroupGames(g, c)
        PROVE  GamesInv' /\ Tables!Contract!GamesNext
    BY <1>4, GroupLeft DEF Tables!Contract!GamesNext
  <1>5. ASSUME NEW x \in GameIds, NEW g \in GroupIds, Tables!CreateGame(x, g)
        PROVE  GamesInv' /\ Tables!Contract!GamesNext
    BY <1>5, GameCreated DEF Tables!Contract!GamesNext
  <1>6. ASSUME NEW x \in GameIds, NEW c \in CharacterIds, Tables!RemoveCharacter(x, c)
        PROVE  GamesInv' /\ Tables!Contract!GamesNext
    BY <1>6, GameLeft DEF Tables!Contract!GamesNext
  <1>7. ASSUME NEW x \in GameIds, NEW cs \in Tables!SeqOf(CharacterIds \cup {Nameless}, 2),
               Tables!AddCharacters(x, cs)
        PROVE  GamesInv' /\ Tables!Contract!GamesNext
    <2>1. cs \in Tables!Contract!SeqOf(CharacterIds \cup {Nameless}, 2)
      BY DEF Tables!SeqOf, Tables!Contract!SeqOf
    <2> QED BY <1>7, <2>1, GameSeats DEF Tables!Contract!GamesNext
  <1>8. ASSUME NEW x \in GameIds, Tables!MutateEntries(x)
        PROVE  GamesInv' /\ Tables!Contract!GamesNext
    BY <1>8, GameMutated DEF Tables!Contract!GamesNext
  <1>9. ASSUME NEW x \in GameIds, Tables!GameByID(x) \/ Tables!Roster(x) \/ Tables!DeleteGame(x)
        PROVE  GamesInv' /\ Tables!Contract!GamesNext
    BY <1>9, GameRead, GameDeleted DEF Tables!Contract!GamesNext
  <1> QED BY <1>1, <1>2, <1>3, <1>4, <1>5, <1>6, <1>7, <1>8, <1>9 DEF Tables!GamesNext

\* The store of games in memory (GameRepository, memory/game.go).
GamesInMemory == Tables!GamesBegin /\ [][Tables!GamesNext]_gamesKept

\* The store of games in memory keeps the contract of its port, whatever is
\* called: games and rosters are two maps, a game opened again under the id of
\* one deleted has none of its seats, and whoever is added is seated once,
\* behind those who sit, in the order asked for.
THEOREM GamesKeepContract == GamesInMemory => Tables!Contract!GamesSpec
  <1>1. Tables!GamesBegin => GamesInv
    <2>1. <<>> \in Seq(Participants) /\ IsInjective(<<>>)
      BY DEF IsInjective
    <2> QED BY <2>1 DEF Tables!GamesBegin, GamesInv
  <1>2. Tables!GamesBegin => Tables!Contract!GamesInit
    BY DEF Tables!GamesBegin, Tables!Contract!GamesInit, Tables!GameAt, Tables!Answer,
           Tables!Contract!Answer
  <1> QED BY <1>1, <1>2, GamesImplement, PTL DEF GamesInMemory, Tables!Contract!GamesSpec

-----------------------------------------------------------------------------
(* Packs.                                                                  *)


\* What says that nothing is stored is nothing that is.
AbsentIsNoShelf == Absent \notin [PackIds -> Owners \cup {Absent}]

\* A group's shares are a map, or there is none yet.
PacksInv ==
    /\ DOMAIN records = PackIds
    /\ shares \in [PackGroups -> [PackIds -> Owners \cup {Absent}] \cup {Absent}]
    /\ DOMAIN grants = Owners

ShareRows == [g \in PackGroups |-> [p \in PackIds |-> Files!SharedBy(g, p)]]

\* A step and what a call of the contract's says of itself.
PackCalls(A) == A /\ packTold'.call # "none"

LEMMA PackAnswered ==
  ASSUME PacksInv, NEW call, NEW on, NEW says, NEW got, Files!PackTells(call, on, says, got)
  PROVE  /\ Files!Contract!PackSays(call, on, says, got) /\ PacksInv'
         /\ packTold'.call = call /\ packTold'.on = on
  BY DEF Files!PackTells, Files!Answer, Files!Contract!PackSays, Files!Contract!Answer, PacksInv,
         Files!SharedBy

LEMMA PackDone ==
  ASSUME NEW call, NEW on, Files!PackDoes(call, on)
  PROVE  Files!Contract!PackDone(call, on) /\ packTold'.call = call /\ packTold'.on = on
  BY DEF Files!PackDoes, Files!Answer, Files!Contract!PackDone, Files!Contract!Answer

LEMMA PackSaved ==
  ASSUME PacksInv, NEW p \in PackIds, NEW o \in Owners, NEW d, NEW r \in Nat, Files!Save(p, o, d, r)
  PROVE  /\ PacksInv' /\ packTold'.call = "Save" /\ packTold'.on[1] = p
         /\ Files!Contract!Save(p, o, d, r)
  <1>1. CASE /\ Files!Old(p).revision # r \/ (r > 0 /\ Files!Old(p).owner # o)
             /\ Files!PackTells("Save", <<p, o>>, "refused", {})
    <2>1. /\ Files!Contract!PackSays("Save", <<p, o>>, "refused", {}) /\ PacksInv'
          /\ packTold'.call = "Save" /\ packTold'.on = <<p, o>>
      BY <1>1, PackAnswered
    <2>2. ~ /\ (IF records[p] = Absent THEN 0 ELSE records[p].revision) = r
            /\ r > 0 => records[p].owner = o
      BY <1>1 DEF Files!Old
    <2> QED BY <2>1, <2>2 DEF Files!Contract!Save
  <1>2. CASE /\ Files!Old(p).revision = r /\ (r > 0 => Files!Old(p).owner = o)
             /\ r < Revisions
             /\ records' = [records EXCEPT ![p] = [owner |-> o, draft |-> d, revision |-> r + 1]]
             /\ Files!PackDoes("Save", <<p, o>>)
             /\ UNCHANGED <<shares, private, grants>>
    <2>1. /\ Files!Contract!PackDone("Save", <<p, o>>)
          /\ packTold'.call = "Save" /\ packTold'.on = <<p, o>>
      BY <1>2, PackDone
    <2>2. /\ (IF records[p] = Absent THEN 0 ELSE records[p].revision) = r
          /\ r > 0 => records[p].owner = o
      BY <1>2 DEF Files!Old
    <2>3. PacksInv' /\ ShareRows' = ShareRows
      BY <1>2 DEF PacksInv, ShareRows, Files!SharedBy
    <2> QED BY <1>2, <2>1, <2>2, <2>3 DEF Files!Contract!Save, ShareRows
  <1> QED BY <1>1, <1>2 DEF Files!Save

LEMMA PackReadings ==
  ASSUME PacksInv
  PROVE  /\ \A p \in PackIds : Files!GetPack(p) =>
              PacksInv' /\ packTold'.call = "GetPack" /\ packTold'.on[1] = p /\ Files!Contract!GetPack(p)
         /\ \A ids \in SUBSET PackIds, by \in SUBSET Owners : Files!ListFor(by, ids) =>
              /\ PacksInv' /\ packTold'.call = "ListFor"
              /\ Files!Contract!ListFor(packTold'.on[1], packTold'.on[2])
         /\ \A g \in PackGroups : Files!Shares(g) =>
              PacksInv' /\ packTold'.call = "Shares" /\ packTold'.on[1] = g /\ Files!Contract!Shares(g)
         /\ \A o \in Owners : Files!Grants(o) =>
              PacksInv' /\ packTold'.call = "Grants" /\ packTold'.on[1] = o /\ Files!Contract!Grants(o)
         /\ \A r \in Releases : Files!GetPrivate(r) =>
              PacksInv' /\ packTold'.call = "GetPrivate" /\ Files!Contract!GetPrivate(r)
  <1>1. ASSUME NEW p \in PackIds, Files!GetPack(p)
        PROVE  PacksInv' /\ packTold'.call = "GetPack" /\ packTold'.on[1] = p /\ Files!Contract!GetPack(p)
    BY <1>1, PackAnswered DEF Files!GetPack, Files!Contract!GetPack
  <1>2. ASSUME NEW ids \in SUBSET PackIds, NEW by \in SUBSET Owners, Files!ListFor(by, ids)
        PROVE  /\ PacksInv' /\ packTold'.call = "ListFor"
               /\ Files!Contract!ListFor(packTold'.on[1], packTold'.on[2])
    <2>1. {p \in PackIds : records[p] # Absent /\ ((by # {} /\ records[p].owner \in by) \/ p \in ids)}
          = {p \in PackIds : records[p] # Absent /\ (p \in ids \/ records[p].owner \in by)}
      OBVIOUS
    <2>2. PICK found : found = {p \in PackIds : records[p] # Absent /\ (p \in ids \/ records[p].owner \in by)}
      OBVIOUS
    <2>3. Files!PackTells("ListFor", <<by, ids>>, "done", found)
      BY <1>2, <2>1, <2>2 DEF Files!ListFor
    <2>4. /\ Files!Contract!PackSays("ListFor", <<by, ids>>, "done", found) /\ PacksInv'
          /\ packTold'.call = "ListFor" /\ packTold'.on = <<by, ids>>
      BY <2>3, PackAnswered
    <2>5. Files!Contract!ListFor(by, ids)
      BY <2>2, <2>4 DEF Files!Contract!ListFor
    <2> QED BY <2>4, <2>5
  <1>3. ASSUME NEW g \in PackGroups, Files!Shares(g)
        PROVE  PacksInv' /\ packTold'.call = "Shares" /\ packTold'.on[1] = g /\ Files!Contract!Shares(g)
    <2>1. {<<p, Files!SharedBy(g, p)>> : p \in {q \in PackIds : Files!SharedBy(g, q) # Absent}}
          = {<<p, ShareRows[g][p]>> : p \in {q \in PackIds : ShareRows[g][q] # Absent}}
      BY DEF ShareRows
    <2>2. PICK found : found = {<<p, Files!SharedBy(g, p)>> : p \in {q \in PackIds : Files!SharedBy(g, q) # Absent}}
      OBVIOUS
    <2>3. /\ Files!Contract!PackSays("Shares", <<g>>, "done", found) /\ PacksInv'
          /\ packTold'.call = "Shares" /\ packTold'.on = <<g>>
      BY <1>3, <2>2, PackAnswered DEF Files!Shares
    <2>4. Files!Contract!Shares(g)
      BY <2>1, <2>2, <2>3 DEF Files!Contract!Shares, ShareRows
    <2> QED BY <2>3, <2>4
  <1>4. ASSUME NEW o \in Owners, Files!Grants(o)
        PROVE  PacksInv' /\ packTold'.call = "Grants" /\ packTold'.on[1] = o /\ Files!Contract!Grants(o)
    BY <1>4, PackAnswered DEF Files!Grants, Files!Contract!Grants
  <1>5. ASSUME NEW r \in Releases, Files!GetPrivate(r)
        PROVE  PacksInv' /\ packTold'.call = "GetPrivate" /\ Files!Contract!GetPrivate(r)
    <2>1. CASE r \notin private /\ Files!PackTells("GetPrivate", <<r>>, "missing", {})
      <3>1. private \cap {r} = {}
        BY <2>1
      <3> QED BY <2>1, <3>1, PackAnswered DEF Files!Contract!GetPrivate
    <2>2. CASE r \in private /\ Files!PackTells("GetPrivate", <<r>>, "done", {r})
      <3>1. private \cap {r} = {r}
        BY <2>2
      <3> QED BY <2>2, <3>1, PackAnswered DEF Files!Contract!GetPrivate
    <2> QED BY <1>5, <2>1, <2>2 DEF Files!GetPrivate
  <1> QED BY <1>1, <1>2, <1>3, <1>4, <1>5

LEMMA PackShared ==
  ASSUME AbsentIsNoShelf, PacksInv, NEW g \in PackGroups, NEW p \in PackIds
  PROVE  /\ \A o \in Owners : Files!PutShare(g, p, o) =>
              /\ PacksInv' /\ packTold'.call = "PutShare" /\ packTold'.on[1] = g
              /\ Files!Contract!PutShare(g, p, o)
         /\ Files!DeleteShare(g, p) =>
              /\ PacksInv' /\ packTold'.call = "DeleteShare" /\ packTold'.on[1] = g
              /\ Files!Contract!DeleteShare(g, p)
  <1>1. ASSUME NEW o \in Owners, Files!PutShare(g, p, o)
        PROVE  /\ PacksInv' /\ packTold'.call = "PutShare" /\ packTold'.on[1] = g
               /\ Files!Contract!PutShare(g, p, o)
    <2>1. PICK row : row = [q \in PackIds |-> IF q = p THEN o
                                              ELSE IF shares[g] = Absent THEN Absent ELSE shares[g][q]]
      OBVIOUS
    <2>2. row \in [PackIds -> Owners \cup {Absent}] /\ row # Absent
      BY <2>1 DEF PacksInv, AbsentIsNoShelf
    <2>3. shares' = [shares EXCEPT ![g] = row]
      BY <1>1, <2>1 DEF Files!PutShare
    <2>4. PacksInv'
      BY <1>1, <2>2, <2>3 DEF PacksInv, Files!PutShare
    <2>5. \A q \in PackIds : Files!SharedBy(g, q)' = IF q = p THEN o ELSE Files!SharedBy(g, q)
      BY <2>1, <2>2, <2>3 DEF Files!SharedBy, PacksInv
    <2>6. \A h \in PackGroups, q \in PackIds : h # g => Files!SharedBy(h, q)' = Files!SharedBy(h, q)
      BY <2>3 DEF Files!SharedBy, PacksInv
    <2>7. ShareRows' = [ShareRows EXCEPT ![g][p] = o]
      BY <2>5, <2>6 DEF ShareRows
    <2> QED BY <1>1, <2>4, <2>7, PackDone DEF Files!PutShare, Files!Contract!PutShare, ShareRows
  <1>2. ASSUME Files!DeleteShare(g, p)
        PROVE  /\ PacksInv' /\ packTold'.call = "DeleteShare" /\ packTold'.on[1] = g
               /\ Files!Contract!DeleteShare(g, p)
    <2>1. PICK row : row = IF shares[g] = Absent THEN Absent ELSE [shares[g] EXCEPT ![p] = Absent]
      OBVIOUS
    <2>2. shares' = [shares EXCEPT ![g] = row]
      BY <1>2, <2>1 DEF Files!DeleteShare
    <2>3. row \in [PackIds -> Owners \cup {Absent}] \cup {Absent}
      BY <2>1 DEF PacksInv
    <2>4. PacksInv'
      BY <1>2, <2>2, <2>3 DEF PacksInv, Files!DeleteShare
    <2>5. \A q \in PackIds : Files!SharedBy(g, q)' = IF q = p THEN Absent ELSE Files!SharedBy(g, q)
      BY <2>1, <2>2 DEF Files!SharedBy, PacksInv, AbsentIsNoShelf
    <2>6. \A h \in PackGroups, q \in PackIds : h # g => Files!SharedBy(h, q)' = Files!SharedBy(h, q)
      BY <2>2 DEF Files!SharedBy, PacksInv
    <2>7. ShareRows' = [ShareRows EXCEPT ![g][p] = Absent]
      BY <2>5, <2>6 DEF ShareRows
    <2> QED BY <1>2, <2>4, <2>7, PackDone DEF Files!DeleteShare, Files!Contract!DeleteShare, ShareRows
  <1> QED BY <1>1, <1>2

LEMMA PackGranted ==
  ASSUME PacksInv
  PROVE  /\ \A o \in Owners : \A packs : Files!SetGrants(o, packs) =>
              /\ PacksInv' /\ packTold'.call = "SetGrants" /\ packTold'.on[1] = o
              /\ Files!Contract!SetGrants(o, packs)
         /\ \A r : Files!PutPrivate(r) =>
              PacksInv' /\ packTold'.call = "PutPrivate" /\ Files!Contract!PutPrivate(r)
  <1>1. ASSUME NEW o \in Owners, NEW packs, Files!SetGrants(o, packs)
        PROVE  /\ PacksInv' /\ packTold'.call = "SetGrants" /\ packTold'.on[1] = o
               /\ Files!Contract!SetGrants(o, packs)
    <2>1. PacksInv' /\ ShareRows' = ShareRows
      BY <1>1 DEF Files!SetGrants, PacksInv, ShareRows, Files!SharedBy
    <2> QED BY <1>1, <2>1, PackDone DEF Files!SetGrants, Files!Contract!SetGrants, ShareRows,
             Files!ToSet, Files!Contract!ToSet
  <1>2. ASSUME NEW r, Files!PutPrivate(r)
        PROVE  PacksInv' /\ packTold'.call = "PutPrivate" /\ Files!Contract!PutPrivate(r)
    <2>1. PacksInv' /\ ShareRows' = ShareRows
      BY <1>2 DEF Files!PutPrivate, PacksInv, ShareRows, Files!SharedBy
    <2> QED BY <1>2, <2>1, PackDone DEF Files!PutPrivate, Files!Contract!PutPrivate, ShareRows
  <1> QED BY <1>1, <1>2

LEMMA PacksImplement ==
  AbsentIsNoShelf /\ PacksInv /\ [Files!PacksNext]_packsKept =>
      PacksInv' /\ [Files!Contract!PacksNext]_(Files!Contract!packVars)
  <1> SUFFICES ASSUME AbsentIsNoShelf, PacksInv, [Files!PacksNext]_packsKept
               PROVE  PacksInv' /\ [Files!Contract!PacksNext]_(Files!Contract!packVars)
    OBVIOUS
  <1> USE DEF Files!Contract!PacksNext
  <1>1. CASE UNCHANGED packsKept
    BY <1>1 DEF packsKept, Files!Contract!packVars, PacksInv, Files!SharedBy
  <1>2. ASSUME NEW p \in PackIds, Files!GetPack(p)
        PROVE  PacksInv' /\ Files!Contract!PacksNext
    BY <1>2, PackReadings
  <1>3. ASSUME NEW p \in PackIds, NEW o \in Owners, NEW d \in Drafts, NEW r \in 0..Revisions,
               Files!Save(p, o, d, r)
        PROVE  PacksInv' /\ Files!Contract!PacksNext
    <2>1. /\ PacksInv' /\ packTold'.call = "Save" /\ packTold'.on[1] = p
          /\ Files!Contract!Save(p, o, d, r)
      BY <1>3, PackSaved
    <2> QED BY <2>1
  <1>4. ASSUME NEW p \in PackIds, NEW g \in PackGroups,
               Files!DeleteShare(g, p) \/ \E o \in Owners : Files!PutShare(g, p, o)
        PROVE  PacksInv' /\ Files!Contract!PacksNext
    <2>1. /\ PacksInv' /\ packTold'.call # "none" /\ packTold'.on[1] = g
          /\ Files!Contract!DeleteShare(g, p) \/ \E o \in Owners : Files!Contract!PutShare(g, p, o)
      BY <1>4, PackShared
    <2> QED BY <2>1
  <1>5. ASSUME NEW ids \in SUBSET PackIds, NEW by \in SUBSET Owners, Files!ListFor(by, ids)
        PROVE  PacksInv' /\ Files!Contract!PacksNext
    BY <1>5, PackReadings
  <1>6. ASSUME NEW g \in PackGroups, Files!Shares(g)
        PROVE  PacksInv' /\ Files!Contract!PacksNext
    BY <1>6, PackReadings
  <1>7. ASSUME NEW o \in Owners, Files!Grants(o)
        PROVE  PacksInv' /\ Files!Contract!PacksNext
    BY <1>7, PackReadings
  <1>8. ASSUME NEW o \in Owners, NEW packs \in Files!SeqOf(PackIds, 2), Files!SetGrants(o, packs)
        PROVE  PacksInv' /\ Files!Contract!PacksNext
    <2>1. packs \in Files!Contract!SeqOf(PackIds, 2)
      BY DEF Files!SeqOf, Files!Contract!SeqOf
    <2>2. /\ PacksInv' /\ packTold'.call = "SetGrants" /\ packTold'.on[1] = o
          /\ Files!Contract!SetGrants(o, packs)
      BY <1>8, PackGranted
    <2> QED BY <2>1, <2>2
  <1>9. ASSUME NEW r \in Releases, Files!PutPrivate(r) \/ Files!GetPrivate(r)
        PROVE  PacksInv' /\ Files!Contract!PacksNext
    BY <1>9, PackReadings, PackGranted
  <1> QED BY <1>1, <1>2, <1>3, <1>4, <1>5, <1>6, <1>7, <1>8, <1>9 DEF Files!PacksNext

\* The store of packs in memory (PackRepository, memory/pack.go).
PacksInMemory == Files!PacksBegin /\ [][Files!PacksNext]_packsKept

\* The store of packs, shares and grants in memory keeps the contract of its
\* port, whatever is called: a pack is saved at the revision its author saw and
\* stays its author's, and a share is told of whether or not its group has a
\* map yet.
THEOREM PacksKeepContract == PacksInMemory => Files!Contract!PacksSpec
  <1> AbsentIsNoShelf
    BY StoresAssumption DEF AbsentIsNoShelf
  <1>1. Files!PacksBegin => PacksInv
    BY DEF Files!PacksBegin, PacksInv
  <1>2. Files!PacksBegin => Files!Contract!PacksInit
    BY DEF Files!PacksBegin, Files!Contract!PacksInit, Files!SharedBy, Files!Answer,
           Files!Contract!Answer
  <1> QED BY <1>1, <1>2, PacksImplement, PTL DEF PacksInMemory, Files!Contract!PacksSpec

-----------------------------------------------------------------------------
(* Characters.                                                             *)

LEMMA FilesLists ==
  \A s, S : /\ Files!Only(s, S) = Only(s, S) /\ Files!Contract!Only(s, S) = Only(s, S)
            /\ Files!ToSet(s) = ToSet(s) /\ Files!Contract!ToSet(s) = ToSet(s)
            /\ Files!Contract!Reverse(s) = Files!Reverse(s)
            /\ Files!Contract!IsInjective(s) <=> IsInjective(s)
  <1>1. \A s, S : Files!Only(s, S) = Folded(<<"only", S>>, <<>>, s)
    BY DEF Files!Only, Files!FoldLeft, Files!MapThenFoldSet, Files!Max, Folded, Folds, Onward, Latest
  <1>2. \A s, S : Files!Contract!Only(s, S) = Folded(<<"only", S>>, <<>>, s)
    BY DEF Files!Contract!Only, Files!Contract!FoldLeft, Files!Contract!MapThenFoldSet,
           Files!Contract!Max, Folded, Folds, Onward, Latest
  <1>3. \A s : Files!ToSet(s) = ToSet(s) /\ Files!Contract!ToSet(s) = ToSet(s)
    BY DEF Files!ToSet, Files!Contract!ToSet, ToSet
  <1>4. \A s : Files!Contract!Reverse(s) = Files!Reverse(s)
    BY DEF Files!Contract!Reverse, Files!Reverse
  <1>5. \A s : Files!Contract!IsInjective(s) <=> IsInjective(s)
    BY DEF Files!Contract!IsInjective, IsInjective
  <1> QED BY <1>1, <1>2, <1>3, <1>4, <1>5, OnlyIs

LEMMA FilesCount ==
  \A S : Files!Cardinality(S) = Cardinality(S) /\ Files!Contract!Cardinality(S) = Cardinality(S)
  BY DEF Files!Cardinality, Files!Contract!Cardinality, Cardinality

GoodLogs == Logs \ {BadLog}
Character == [owner : Owners, folder : Filings, public : BOOLEAN, log : GoodLogs, revision : Nat]
SheetIds == 1..LastSheet

\* No character has an id the counter has not reached.
SheetsInv ==
    /\ nextSheet \in Nat
    /\ sheets \in [SheetIds -> Character \cup {Absent}]
    /\ \A c \in SheetIds : sheets[c] # Absent => c <= nextSheet

\* The characters in the order they were made.
MadeList == [i \in 1..nextSheet |-> i]
Below == {xy \in Nat \X Nat : xy[1] < xy[2]}

LEMMA MadeIs ==
  ASSUME SheetsInv
  PROVE  /\ MadeList \in Seq(Nat) /\ Len(MadeList) = nextSheet /\ ToSet(MadeList) = 1..nextSheet
         /\ Ascending(MadeList, Below)
  <1>1. nextSheet \in Nat
    BY DEF SheetsInv
  <1>2. MadeList \in [1..nextSheet -> Nat] /\ DOMAIN MadeList = 1..nextSheet
    BY <1>1 DEF MadeList
  <1>3. MadeList \in Seq(Nat)
    BY <1>1, <1>2
  <1>4. Len(MadeList) = nextSheet
    BY <1>1, <1>2, <1>3
  <1>5. ToSet(MadeList) = 1..nextSheet
    BY <1>2 DEF ToSet, MadeList
  <1>6. Ascending(MadeList, Below)
    BY <1>1, <1>4 DEF Ascending, MadeList, Below
  <1> QED BY <1>3, <1>4, <1>5, <1>6

\* The characters asked for by id are those of the order they were made in.
ListedById == \A cs \in SUBSET (1..nextSheet) : Files!ById(cs) = Files!Contract!Only(MadeList, cs)

LEMMA ByIdIs == SheetsInv => ListedById
  <1> SUFFICES ASSUME SheetsInv, NEW cs \in SUBSET (1..nextSheet)
               PROVE  Files!ById(cs) = Only(MadeList, cs)
    BY FilesLists DEF ListedById
  <1>1. PICK m \in Seq(Nat) : m = MadeList /\ ToSet(m) = 1..nextSheet /\ Ascending(m, Below)
    BY MadeIs
  <1>2. cs \in SUBSET Nat
    BY DEF SheetsInv
  <1>3. PICK k \in Seq(Nat) : k = Only(m, cs)
    BY OnlyKeeps DEF Kept
  <1>4. ToSet(k) = cs
    <2>1. ToSet(k) = ToSet(m) \cap cs
      BY <1>3, OnlyKeeps DEF Kept
    <2> QED BY <1>1, <2>1
  <1>5. Ascending(k, Below)
    BY <1>1, <1>3, OnlyAscends
  <1>6. OneWay(ToSet(k), Below)
    BY <1>2, <1>4 DEF OneWay, Below
  <1>7. Counts(k, cs, Below)
    BY <1>4, <1>5, <1>6, AscendingCounts
  <1>8. ASSUME NEW f \in cs PROVE {d \in cs : d < f} = Earlier(cs, Below, f)
    <2>1. \A d \in cs : d < f <=> <<d, f>> \in Below
      BY <1>2 DEF Below
    <2> QED BY <2>1 DEF Earlier
  <1>9. ASSUME NEW i \in 1..Len(k)
        PROVE  (CHOOSE c \in cs : Files!Cardinality({d \in cs : d < c}) = i - 1) = k[i]
    <2>1. k[i] \in cs /\ \A f \in cs : Files!Cardinality({d \in cs : d < f}) = i - 1 <=> f = k[i]
      BY <1>7, <1>8, FilesCount DEF Counts
    <2> QED BY <2>1
  <1>10. Files!Cardinality(cs) = Len(k) /\ k = [i \in 1..Len(k) |-> k[i]]
    BY <1>7, FilesCount DEF Counts
  <1>11. Files!ById(cs) = [i \in 1..Len(k) |-> CHOOSE c \in cs : Files!Cardinality({d \in cs : d < c}) = i - 1]
    BY <1>10 DEF Files!ById
  <1>12. [i \in 1..Len(k) |-> CHOOSE c \in cs : Files!Cardinality({d \in cs : d < c}) = i - 1]
            = [i \in 1..Len(k) |-> k[i]]
    BY <1>9
  <1> QED BY <1>1, <1>3, <1>10, <1>11, <1>12

LEMMA SheetAnswered ==
  ASSUME SheetsInv, NEW call, NEW on, NEW says, NEW got, Files!SheetTells(call, on, says, got)
  PROVE  /\ Files!Contract!SheetSays(call, on, says, got) /\ SheetsInv'
         /\ sheetTold'.call = call /\ sheetTold'.on = on
  BY DEF Files!SheetTells, Files!Answer, Files!Contract!SheetSays, Files!Contract!Answer, SheetsInv

\* A character is made under the next id.
LEMMA SheetMade ==
  ASSUME SheetsInv, NEW call, NEW on, NEW new \in Character, Files!Creates(call, on, new)
  PROVE  /\ Files!Contract!Makes(call, on, new) /\ SheetsInv'
         /\ sheetTold'.call = call /\ sheetTold'.on = on
  <1> DEFINE c == nextSheet + 1
  <1>1. /\ nextSheet < LastSheet /\ nextSheet' = c /\ sheets' = [sheets EXCEPT ![c] = new]
        /\ sheetTold' = Files!Answer(call, on, "done", {c})
    BY DEF Files!Creates
  <1>2. nextSheet \in Nat /\ LastSheet \in Nat /\ c \in SheetIds
    BY <1>1, StoresAssumption DEF SheetsInv, SheetIds
  <1>3. SheetsInv'
    <2>1. sheets' \in [SheetIds -> Character \cup {Absent}]
      BY <1>1, <1>2 DEF SheetsInv
    <2>2. ASSUME NEW d \in SheetIds, sheets'[d] # Absent PROVE d <= c
      <3>1. CASE d = c
        BY <1>2, <3>1
      <3>2. CASE d # c
        <4>1. sheets'[d] = sheets[d]
          BY <1>1, <1>2, <3>2 DEF SheetsInv
        <4>2. d <= nextSheet /\ d \in Nat
          BY <2>2, <4>1 DEF SheetsInv, SheetIds
        <4> QED BY <1>2, <4>2
      <3> QED BY <3>1, <3>2
    <2> QED BY <1>1, <1>2, <2>1, <2>2 DEF SheetsInv
  <1>4. MadeList \in Seq(Nat) /\ Len(MadeList) = nextSheet /\ ToSet(MadeList) = 1..nextSheet
    BY MadeIs
  <1>5. MadeList' = Append(MadeList, c)
    <2>1. MadeList' = [i \in 1..c |-> i]
      BY <1>1 DEF MadeList
    <2>2. PICK m : m = Append(MadeList, c)
      OBVIOUS
    <2>3. /\ m \in Seq(Nat) /\ Len(m) = c
          /\ m[c] = c /\ \A i \in 1..nextSheet : m[i] = MadeList[i]
      BY <1>2, <1>4, <2>2, AppendIs
    <2>4. \A i \in 1..nextSheet : MadeList[i] = i
      BY DEF MadeList
    <2>5. m = [i \in 1..c |-> i]
      BY <1>2, <2>3, <2>4
    <2> QED BY <2>1, <2>2, <2>5
  <1>6. c \notin Files!Contract!ToSet(MadeList)
    BY <1>2, <1>4, FilesLists
  <1>7. /\ sheetTold' = Files!Contract!Answer(call, on, "done", {c})
        /\ sheetTold'.call = call /\ sheetTold'.on = on
    BY <1>1 DEF Files!Answer, Files!Contract!Answer
  <1>8. c \in Files!SheetIds \ Files!Contract!ToSet(MadeList)
    BY <1>2, <1>6 DEF Files!SheetIds, SheetIds
  <1> HIDE DEF c
  <1> QED BY <1>1, <1>3, <1>5, <1>7, <1>8 DEF Files!Contract!Makes, MadeList

\* A character is changed, or there is none.
LEMMA SheetWritten ==
  ASSUME SheetsInv, NEW c \in SheetIds, NEW call, NEW on, NEW new,
         sheets[c] # Absent => new \in Character \cup {Absent}, Files!Changes(call, c, on, new)
  PROVE  /\ Files!Contract!Writes(call, c, on, new) /\ SheetsInv'
         /\ sheetTold'.call = call /\ sheetTold'.on = on
  <1>1. CASE sheets[c] = Absent /\ Files!SheetTells(call, on, "missing", {})
    BY <1>1, SheetAnswered DEF Files!Contract!Writes, Files!Contract!Has
  <1>2. CASE /\ sheets[c] # Absent
             /\ sheets' = [sheets EXCEPT ![c] = new]
             /\ sheetTold' = Files!Answer(call, on, "done", {})
             /\ UNCHANGED nextSheet
    <2>1. SheetsInv'
      BY <1>2 DEF SheetsInv
    <2>2. MadeList' = MadeList
      BY <1>2 DEF MadeList
    <2> QED BY <1>2, <2>1, <2>2
          DEF Files!Contract!Writes, Files!Contract!Has, Files!Answer, Files!Contract!Answer, MadeList
  <1> QED BY <1>1, <1>2 DEF Files!Changes

LEMMA SheetsCreated ==
  ASSUME SheetsInv, NEW o \in Owners, NEW f \in Filings
  PROVE  /\ Files!CreateSheet(o, f) =>
              /\ SheetsInv' /\ sheetTold'.call = "CreateSheet" /\ sheetTold'.on = <<o>>
              /\ Files!Contract!CreateSheet(o, f)
         /\ \A l \in Logs : Files!CreateWithLog(o, f, l) =>
              /\ SheetsInv' /\ sheetTold'.call = "CreateWithLog" /\ sheetTold'.on = <<o, l>>
              /\ Files!Contract!CreateWithLog(o, f, l)
  <1>1. ASSUME Files!CreateSheet(o, f)
        PROVE  /\ SheetsInv' /\ sheetTold'.call = "CreateSheet" /\ sheetTold'.on = <<o>>
               /\ Files!Contract!CreateSheet(o, f)
    <2> DEFINE new == [owner |-> o, folder |-> f, public |-> FALSE, log |-> <<>>, revision |-> 0]
    <2>1. new \in Character
      BY StoresAssumption DEF Character, GoodLogs
    <2>2. Files!Creates("CreateSheet", <<o>>, new)
      BY <1>1 DEF Files!CreateSheet
    <2>3. new = Files!Contract!Sheet(o, f, <<>>, 0)
      BY DEF Files!Contract!Sheet
    <2> HIDE DEF new
    <2> QED BY <2>1, <2>2, <2>3, SheetMade DEF Files!Contract!CreateSheet
  <1>2. ASSUME NEW l \in Logs, Files!CreateWithLog(o, f, l)
        PROVE  /\ SheetsInv' /\ sheetTold'.call = "CreateWithLog" /\ sheetTold'.on = <<o, l>>
               /\ Files!Contract!CreateWithLog(o, f, l)
    <2>1. CASE l = BadLog /\ Files!SheetTells("CreateWithLog", <<o, l>>, "refused", {})
      BY <2>1, SheetAnswered DEF Files!Contract!CreateWithLog
    <2>2. CASE /\ l # BadLog
               /\ Files!Creates("CreateWithLog", <<o, l>>,
                     [owner |-> o, folder |-> f, public |-> FALSE, log |-> l,
                      revision |-> Files!AtLeastOne(EntriesOf[l])])
      <3>1. l \in GoodLogs /\ EntriesOf[l] \in Nat
        BY <2>2, StoresAssumption DEF GoodLogs
      <3>2. /\ Files!AtLeastOne(EntriesOf[l]) \in Nat
            /\ Files!Contract!AtLeastOne(EntriesOf[l]) = Files!AtLeastOne(EntriesOf[l])
        BY <3>1 DEF Files!AtLeastOne, Files!Contract!AtLeastOne
      <3>3. PICK new \in Character :
              new = [owner |-> o, folder |-> f, public |-> FALSE, log |-> l,
                     revision |-> Files!AtLeastOne(EntriesOf[l])]
        BY <3>1, <3>2 DEF Character
      <3>4. new = Files!Contract!Sheet(o, f, l, Files!Contract!AtLeastOne(EntriesOf[l]))
        BY <3>2, <3>3 DEF Files!Contract!Sheet
      <3>5. Files!Creates("CreateWithLog", <<o, l>>, new)
        BY <2>2, <3>3
      <3> QED BY <2>2, <3>4, <3>5, SheetMade DEF Files!Contract!CreateWithLog
    <2> QED BY <1>2, <2>1, <2>2 DEF Files!CreateWithLog
  <1> QED BY <1>1, <1>2

LEMMA SheetsMoved ==
  ASSUME SheetsInv, NEW c \in SheetIds
  PROVE  /\ \A f \in Filings : Files!SetFolder(c, f) =>
              /\ SheetsInv' /\ sheetTold'.call = "SetFolder" /\ sheetTold'.on = <<c>>
              /\ Files!Contract!SetFolder(c, f)
         /\ \A b \in BOOLEAN : Files!SetPublic(c, b) =>
              /\ SheetsInv' /\ sheetTold'.call = "SetPublic" /\ sheetTold'.on = <<c>>
              /\ Files!Contract!SetPublic(c, b)
         /\ Files!DeleteSheet(c) =>
              /\ SheetsInv' /\ sheetTold'.call = "DeleteSheet" /\ sheetTold'.on = <<c>>
              /\ Files!Contract!DeleteSheet(c)
  <1>1. sheets[c] # Absent => sheets[c] \in Character
    BY DEF SheetsInv
  <1>2. \A f \in Filings : sheets[c] # Absent => [sheets[c] EXCEPT !.folder = f] \in Character
    BY <1>1 DEF Character
  <1>3. \A b \in BOOLEAN : sheets[c] # Absent => [sheets[c] EXCEPT !.public = b] \in Character
    BY <1>1 DEF Character
  <1>4. ASSUME NEW f \in Filings, Files!SetFolder(c, f)
        PROVE  /\ SheetsInv' /\ sheetTold'.call = "SetFolder" /\ sheetTold'.on = <<c>>
               /\ Files!Contract!SetFolder(c, f)
    BY <1>2, <1>4, SheetWritten DEF Files!SetFolder, Files!Contract!SetFolder
  <1>5. ASSUME NEW b \in BOOLEAN, Files!SetPublic(c, b)
        PROVE  /\ SheetsInv' /\ sheetTold'.call = "SetPublic" /\ sheetTold'.on = <<c>>
               /\ Files!Contract!SetPublic(c, b)
    BY <1>3, <1>5, SheetWritten DEF Files!SetPublic, Files!Contract!SetPublic
  <1>6. ASSUME Files!DeleteSheet(c)
        PROVE  /\ SheetsInv' /\ sheetTold'.call = "DeleteSheet" /\ sheetTold'.on = <<c>>
               /\ Files!Contract!DeleteSheet(c)
    BY <1>6, SheetWritten DEF Files!DeleteSheet, Files!Contract!DeleteSheet
  <1> QED BY <1>4, <1>5, <1>6

LEMMA SheetCommitted ==
  ASSUME SheetsInv, NEW c \in SheetIds, NEW r \in Nat, NEW l \in Logs, Files!Commit(c, r, l)
  PROVE  /\ SheetsInv' /\ sheetTold'.call = "Commit" /\ sheetTold'.on = <<c, r, l>>
         /\ Files!Contract!Commit(c, r, l)
  <1>1. sheets[c] # Absent => sheets[c] \in Character
    BY DEF SheetsInv
  <1>2. CASE /\ sheets[c] # Absent
             /\ sheets[c].revision # r \/ l = BadLog
             /\ Files!SheetTells("Commit", <<c, r, l>>, "refused", {})
    BY <1>2, SheetAnswered DEF Files!Contract!Commit, Files!Contract!Has
  <1>3. CASE /\ sheets[c] = Absent
             /\ Files!Changes("Commit", c, <<c, r, l>>,
                   [sheets[c] EXCEPT !.log = l, !.revision = @ + Files!Growth(c, l)])
    <2>1. Files!SheetTells("Commit", <<c, r, l>>, "missing", {})
      BY <1>3 DEF Files!Changes
    <2> QED BY <1>3, <2>1, SheetAnswered DEF Files!Contract!Commit, Files!Contract!Has
  <1>4. CASE /\ sheets[c] # Absent /\ sheets[c].revision = r /\ l # BadLog
             /\ Files!Changes("Commit", c, <<c, r, l>>,
                   [sheets[c] EXCEPT !.log = l, !.revision = @ + Files!Growth(c, l)])
    <2>1. /\ sheets[c] \in Character /\ sheets[c].log \in GoodLogs /\ l \in GoodLogs
          /\ EntriesOf[l] \in Nat /\ EntriesOf[sheets[c].log] \in Nat
      BY <1>1, <1>4, StoresAssumption DEF Character, GoodLogs
    <2> DEFINE added == IF EntriesOf[l] > EntriesOf[sheets[c].log]
                        THEN EntriesOf[l] - EntriesOf[sheets[c].log] ELSE 1
    <2>2. Files!Growth(c, l) = added /\ added \in Nat
      BY <2>1 DEF Files!Growth, Files!AtLeastOne
    <2>3. PICK new : new = [sheets[c] EXCEPT !.log = l, !.revision = r + added]
      OBVIOUS
    <2>4. new \in Character
      <3> HIDE DEF added
      <3>1. r + added \in Nat
        BY <2>2
      <3> QED BY <2>1, <2>3, <3>1 DEF Character
    <2>5. Files!Changes("Commit", c, <<c, r, l>>, new)
      <3>1. [sheets[c] EXCEPT !.log = l, !.revision = @ + Files!Growth(c, l)] = new
        BY <1>4, <2>1, <2>2, <2>3 DEF Character
      <3> QED BY <1>4, <3>1
    <2>6. /\ Files!Contract!Writes("Commit", c, <<c, r, l>>, new) /\ SheetsInv'
          /\ sheetTold'.call = "Commit" /\ sheetTold'.on = <<c, r, l>>
      BY <2>4, <2>5, SheetWritten
    <2> QED BY <1>4, <2>3, <2>6 DEF Files!Contract!Commit, Files!Contract!Has
  <1> QED BY <1>2, <1>3, <1>4 DEF Files!Commit

LEMMA SheetsRead ==
  ASSUME SheetsInv
  PROVE  /\ \A c \in SheetIds : Files!GetSheet(c) =>
              /\ SheetsInv' /\ sheetTold'.call = "GetSheet" /\ sheetTold'.on = <<c>>
              /\ Files!Contract!GetSheet(c)
         /\ \A o \in Owners : Files!ListSheets(o) =>
              /\ SheetsInv' /\ sheetTold'.call = "ListSheets" /\ sheetTold'.on = <<o>>
              /\ Files!Contract!ListSheets(o)
  <1>1. ASSUME NEW c \in SheetIds, Files!GetSheet(c)
        PROVE  /\ SheetsInv' /\ sheetTold'.call = "GetSheet" /\ sheetTold'.on = <<c>>
               /\ Files!Contract!GetSheet(c)
    BY <1>1, SheetAnswered DEF Files!GetSheet, Files!Contract!GetSheet, Files!Contract!Has
  <1>2. ASSUME NEW o \in Owners, Files!ListSheets(o)
        PROVE  /\ SheetsInv' /\ sheetTold'.call = "ListSheets" /\ sheetTold'.on = <<o>>
               /\ Files!Contract!ListSheets(o)
    <2> DEFINE cs == {c \in Files!Stored : sheets[c].owner = o}
    <2>1. cs = {c \in Files!SheetIds : Files!Contract!Has(c) /\ sheets[c].owner = o}
      BY DEF Files!Stored, Files!Contract!Has
    <2>2. cs \in SUBSET (1..nextSheet)
      BY DEF Files!Stored, SheetsInv, Files!SheetIds, SheetIds
    <2> HIDE DEF cs
    <2>3. Files!ById(cs) = Files!Contract!Only(MadeList, cs)
      BY <2>2, ByIdIs DEF ListedById
    <2>4. Files!SheetTells("ListSheets", <<o>>, "done", {Files!ById(cs)})
      BY <1>2 DEF Files!ListSheets, cs
    <2>5. /\ SheetsInv' /\ sheetTold'.call = "ListSheets" /\ sheetTold'.on = <<o>>
          /\ Files!Contract!SheetSays("ListSheets", <<o>>, "done", {Files!Contract!Only(MadeList, cs)})
      BY <2>3, <2>4, SheetAnswered
    <2> QED BY <2>1, <2>5 DEF Files!Contract!ListSheets, MadeList
  <1> QED BY <1>1, <1>2

\* A page of a list: those behind so many, as many as asked for.
OnPage(s, past, most) == {j \in 1..Len(s) : past < j /\ j <= past + most}
PageOf(s, past, most) == [i \in 1..Cardinality(OnPage(s, past, most)) |-> s[past + i]]

LEMMA PageIs ==
  ASSUME NEW T, NEW s \in Seq(T), NEW past \in Nat, NEW most \in Nat,
         NEW low \in Nat, past < Len(s) => low = past, ~(past < Len(s)) => low = Len(s),
         NEW high \in Nat, past + most < Len(s) => high = past + most,
         ~(past + most < Len(s)) => high = Len(s)
  PROVE  SubSeq(s, low + 1, high) = PageOf(s, past, most)
  <1> DEFINE P == OnPage(s, past, most)
             n == Cardinality(P)
  <1>1. Len(s) \in Nat
    OBVIOUS
  <1>2. /\ high <= Len(s) /\ high <= past + most
        /\ past >= Len(s) => low = Len(s) /\ high = Len(s)
        /\ past < Len(s) => low = past /\ past <= high
        /\ \A j \in 1..Len(s) : j <= past + most => j <= high
    <2>1. CASE past < Len(s)
      BY <1>1, <2>1
    <2>2. CASE ~(past < Len(s))
      BY <1>1, <2>2
    <2> QED BY <2>1, <2>2
  <1>3. P = (past + 1)..high
    <2>1. \A j \in 1..Len(s) : past < j /\ j <= past + most <=> j \in (past + 1)..high
      BY <1>1, <1>2
    <2>2. \A j \in (past + 1)..high : j \in 1..Len(s)
      BY <1>1, <1>2
    <2> QED BY <2>1, <2>2 DEF OnPage
  <1> HIDE DEF P
  <1>4. /\ n \in Nat
        /\ past >= Len(s) => n = 0
        /\ past < Len(s) => n = high - past
    <2>1. past + 1 \in Int /\ high \in Int
      BY <1>2
    <2>2. Cardinality((past + 1)..high) = IF past + 1 > high THEN 0 ELSE high - (past + 1) + 1
      BY <2>1, FS_Interval
    <2> QED BY <1>1, <1>2, <1>3, <2>2
  <1> HIDE DEF n
  <1>5. PICK x : x = SubSeq(s, low + 1, high)
    OBVIOUS
  <1>6. x \in Seq(T) /\ Len(x) = n /\ \A i \in 1..n : x[i] = s[past + i]
    <2>1. CASE past >= Len(s)
      <3>1. low = Len(s) /\ high = Len(s) /\ n = 0
        BY <1>2, <1>4, <2>1
      <3>2. x \in Seq(T) /\ Len(x) = 0
        BY <1>1, <1>5, <3>1
      <3> QED BY <3>1, <3>2
    <2>2. CASE past < Len(s)
      <3>1. low = past /\ high \in Nat /\ high <= Len(s) /\ n = high - past /\ past <= high
        BY <1>2, <1>4, <2>2
      <3>2. x \in Seq(T) /\ Len(x) = n
        BY <1>1, <1>4, <1>5, <3>1
      <3>3. \A i \in 1..n : x[i] = s[past + i]
        BY <1>1, <1>4, <1>5, <3>1
      <3> QED BY <3>2, <3>3
    <2> QED BY <1>1, <2>1, <2>2
  <1>7. x = [i \in 1..n |-> x[i]]
    BY <1>6
  <1> QED BY <1>5, <1>6, <1>7 DEF n, P, PageOf

LEMMA SheetsSearched ==
  ASSUME SheetsInv, NEW owners, NEW open, NEW skip \in Nat, NEW limit \in Nat,
         Files!Search(owners, open, skip, limit)
  PROVE  /\ SheetsInv' /\ sheetTold'.call = "Search" /\ sheetTold'.on = <<owners, open, skip, limit>>
         /\ Files!Contract!Search(owners, open, skip, limit)
  <1> DEFINE cs == {c \in Files!Stored : /\ owners # {} => sheets[c].owner \in owners
                                         /\ open # {} => sheets[c].public \in open}
             found == Files!Reverse(Files!ById(cs))
             low == IF skip < Len(found) THEN skip ELSE Len(found)
             high == IF skip + limit < Len(found) THEN skip + limit ELSE Len(found)
             page == {i \in DOMAIN found : skip < i /\ i <= skip + limit}
  <1>1. cs = {c \in Files!SheetIds : /\ Files!Contract!Has(c)
                                     /\ owners = {} \/ sheets[c].owner \in owners
                                     /\ open = {} \/ sheets[c].public \in open}
    BY DEF Files!Stored, Files!Contract!Has
  <1>2. cs \in SUBSET (1..nextSheet)
    BY DEF Files!Stored, SheetsInv, Files!SheetIds, SheetIds
  <1>3. Files!SheetTells("Search", <<owners, open, skip, limit>>, "done",
                         {[page |-> SubSeq(found, low + 1, high), total |-> Len(found)]})
    BY DEF Files!Search
  <1> HIDE DEF cs
  <1>4. Files!ById(cs) = Files!Contract!Only(MadeList, cs)
    BY <1>2, ByIdIs DEF ListedById
  <1>5. PICK k \in Seq(Nat) : k = Files!ById(cs)
    <2>1. Only(MadeList, cs) \in Seq(Nat)
      BY MadeIs, OnlyKeeps DEF Kept
    <2> QED BY <1>4, <2>1, FilesLists
  <1>6. found \in Seq(Nat)
    <2>1. Len(k) \in Nat /\ \A i \in 1..Len(k) : k[i] \in Nat /\ Len(k) - i + 1 \in 1..Len(k)
      OBVIOUS
    <2>2. [i \in 1..Len(k) |-> k[(Len(k) - i) + 1]] \in Seq(Nat)
      BY <2>1
    <2> QED BY <1>5, <2>2 DEF Files!Reverse
  <1>7. found = Files!Contract!Reverse(Files!Contract!Only(MadeList, cs))
    BY <1>4, FilesLists
  <1> HIDE DEF found
  <1>8. Len(found) \in Nat
    BY <1>6
  <1>9. /\ low \in Nat /\ high \in Nat
        /\ skip < Len(found) => low = skip
        /\ ~(skip < Len(found)) => low = Len(found)
        /\ skip + limit < Len(found) => high = skip + limit
        /\ ~(skip + limit < Len(found)) => high = Len(found)
    BY <1>8
  <1> HIDE DEF low, high
  <1>10. SubSeq(found, low + 1, high) = [i \in 1..Files!Contract!Cardinality(page) |-> found[skip + i]]
    <2>1. Files!Contract!Cardinality(page) = Cardinality(page)
      BY FilesCount
    <2>2. SubSeq(found, low + 1, high) = [i \in 1..Cardinality(page) |-> found[skip + i]]
      <3>1. SubSeq(found, low + 1, high) = PageOf(found, skip, limit)
        BY <1>6, <1>9, PageIs, SMTT(20)
      <3>2. page = OnPage(found, skip, limit)
        BY <1>6 DEF OnPage
      <3> HIDE DEF page
      <3> QED BY <3>1, <3>2 DEF PageOf
    <2> HIDE DEF page
    <2> QED BY <2>1, <2>2
  <1> HIDE DEF page
  <1>11. /\ SheetsInv' /\ sheetTold'.call = "Search" /\ sheetTold'.on = <<owners, open, skip, limit>>
         /\ Files!Contract!SheetSays("Search", <<owners, open, skip, limit>>, "done",
               {[page |-> [i \in 1..Files!Contract!Cardinality(page) |-> found[skip + i]],
                 total |-> Len(found)]})
    <2> DEFINE got == {[page |-> SubSeq(found, low + 1, high), total |-> Len(found)]}
    <2>1. /\ SheetsInv' /\ sheetTold'.call = "Search" /\ sheetTold'.on = <<owners, open, skip, limit>>
          /\ Files!Contract!SheetSays("Search", <<owners, open, skip, limit>>, "done", got)
      <3>1. Files!SheetTells("Search", <<owners, open, skip, limit>>, "done", got)
        BY <1>3
      <3> HIDE DEF got
      <3> QED BY <3>1, SheetAnswered
    <2>2. got = {[page |-> [i \in 1..Files!Contract!Cardinality(page) |-> found[skip + i]],
                  total |-> Len(found)]}
      BY <1>10
    <2> HIDE DEF got
    <2> QED BY <2>1, <2>2
  <1>12. Files!Contract!Search(owners, open, skip, limit)
    <2>1. found = Files!Contract!Reverse(Files!Contract!Only(MadeList,
                     {c \in Files!SheetIds : /\ Files!Contract!Has(c)
                                             /\ owners = {} \/ sheets[c].owner \in owners
                                             /\ open = {} \/ sheets[c].public \in open}))
      BY <1>1, <1>7
    <2> QED BY <1>11, <2>1 DEF Files!Contract!Search, MadeList, page
  <1> QED BY <1>11, <1>12

LEMMA SheetsImplement ==
  SheetsInv /\ [Files!SheetsNext]_sheetsKept =>
      SheetsInv' /\ [Files!Contract!SheetsNext]_(Files!Contract!sheetVars)
  <1> SUFFICES ASSUME SheetsInv, [Files!SheetsNext]_sheetsKept
               PROVE  SheetsInv' /\ [Files!Contract!SheetsNext]_(Files!Contract!sheetVars)
    OBVIOUS
  <1>1. CASE UNCHANGED sheetsKept
    BY <1>1 DEF sheetsKept, SheetsInv, Files!Contract!sheetVars
  <1>2. ASSUME NEW o \in Owners, Files!ListSheets(o)
        PROVE  SheetsInv' /\ Files!Contract!SheetsNext
    <2>1. /\ SheetsInv' /\ sheetTold'.call = "ListSheets" /\ sheetTold'.on = <<o>>
          /\ Files!Contract!ListSheets(o)
      BY <1>2, SheetsRead
    <2> QED BY <2>1 DEF Files!Contract!SheetsNext
  <1>3. ASSUME NEW o \in Owners, NEW f \in Filings, Files!CreateSheet(o, f)
        PROVE  SheetsInv' /\ Files!Contract!SheetsNext
    <2>1. /\ SheetsInv' /\ sheetTold'.call = "CreateSheet" /\ sheetTold'.on = <<o>>
          /\ Files!Contract!CreateSheet(o, f)
      BY <1>3, SheetsCreated
    <2> QED BY <2>1 DEF Files!Contract!SheetsNext
  <1>4. ASSUME NEW o \in Owners, NEW f \in Filings, NEW l \in Logs, Files!CreateWithLog(o, f, l)
        PROVE  SheetsInv' /\ Files!Contract!SheetsNext
    <2>1. /\ SheetsInv' /\ sheetTold'.call = "CreateWithLog" /\ sheetTold'.on = <<o, l>>
          /\ Files!Contract!CreateWithLog(o, f, l)
      BY <1>4, SheetsCreated
    <2> QED BY <2>1 DEF Files!Contract!SheetsNext
  <1>5. ASSUME NEW c \in SheetIds, Files!GetSheet(c)
        PROVE  SheetsInv' /\ Files!Contract!SheetsNext
    <2>1. /\ SheetsInv' /\ sheetTold'.call = "GetSheet" /\ sheetTold'.on = <<c>>
          /\ Files!Contract!GetSheet(c)
      BY <1>5, SheetsRead
    <2> QED BY <2>1 DEF Files!Contract!SheetsNext, Files!SheetIds, SheetIds
  <1>6. ASSUME NEW c \in SheetIds, Files!DeleteSheet(c)
        PROVE  SheetsInv' /\ Files!Contract!SheetsNext
    <2>1. /\ SheetsInv' /\ sheetTold'.call = "DeleteSheet" /\ sheetTold'.on = <<c>>
          /\ Files!Contract!DeleteSheet(c)
      BY <1>6, SheetsMoved
    <2> QED BY <2>1 DEF Files!Contract!SheetsNext, Files!SheetIds, SheetIds
  <1>7. ASSUME NEW c \in SheetIds, NEW f \in Filings, Files!SetFolder(c, f)
        PROVE  SheetsInv' /\ Files!Contract!SheetsNext
    <2>1. /\ SheetsInv' /\ sheetTold'.call = "SetFolder" /\ sheetTold'.on = <<c>>
          /\ Files!Contract!SetFolder(c, f)
      BY <1>7, SheetsMoved
    <2> QED BY <2>1 DEF Files!Contract!SheetsNext, Files!SheetIds, SheetIds
  <1>8. ASSUME NEW c \in SheetIds, NEW b \in BOOLEAN, Files!SetPublic(c, b)
        PROVE  SheetsInv' /\ Files!Contract!SheetsNext
    <2>1. /\ SheetsInv' /\ sheetTold'.call = "SetPublic" /\ sheetTold'.on = <<c>>
          /\ Files!Contract!SetPublic(c, b)
      BY <1>8, SheetsMoved
    <2> QED BY <2>1 DEF Files!Contract!SheetsNext, Files!SheetIds, SheetIds
  <1>9. ASSUME NEW c \in SheetIds, NEW r \in 0..Revisions, NEW l \in Logs, Files!Commit(c, r, l)
        PROVE  SheetsInv' /\ Files!Contract!SheetsNext
    <2>1. r \in Nat
      OBVIOUS
    <2>2. /\ SheetsInv' /\ sheetTold'.call = "Commit" /\ sheetTold'.on = <<c, r, l>>
          /\ Files!Contract!Commit(c, r, l)
      BY <1>9, <2>1, SheetCommitted
    <2>3. sheetTold'.on[1] = c /\ sheetTold'.on[2] = r /\ sheetTold'.on[3] = l
      BY <2>2
    <2> QED BY <2>2, <2>3 DEF Files!Contract!SheetsNext, Files!SheetIds, SheetIds
  <1>10. ASSUME NEW owners \in SUBSET Owners, NEW open \in {{}, {TRUE}, {FALSE}},
                NEW skip \in 0..2, NEW limit \in 0..1, Files!Search(owners, open, skip, limit)
         PROVE  SheetsInv' /\ Files!Contract!SheetsNext
    <2>1. skip \in Nat /\ limit \in Nat
      OBVIOUS
    <2>2. /\ SheetsInv' /\ sheetTold'.call = "Search" /\ sheetTold'.on = <<owners, open, skip, limit>>
          /\ Files!Contract!Search(owners, open, skip, limit)
      BY <1>10, <2>1, SheetsSearched
    <2>3. /\ sheetTold'.on[1] = owners /\ sheetTold'.on[2] = open
          /\ sheetTold'.on[3] = skip /\ sheetTold'.on[4] = limit
      BY <2>2
    <2> QED BY <2>2, <2>3 DEF Files!Contract!SheetsNext
  <1> QED BY <1>1, <1>2, <1>3, <1>4, <1>5, <1>6, <1>7, <1>8, <1>9, <1>10
        DEF Files!SheetsNext, Files!SheetIds, SheetIds

\* The store of characters in memory (CharacterRepository, memory/character.go).
SheetsInMemory == Files!SheetsBegin /\ [][Files!SheetsNext]_sheetsKept

\* The store of characters in memory keeps the contract of its port, whatever
\* is called: an id is never issued twice, though characters are deleted; a
\* listing by id is one in the order they were made, a page of it the
\* contract's page; and a log commits at the revision the caller saw.
THEOREM SheetsKeepContract == SheetsInMemory => Files!Contract!SheetsSpec
  <1>1. Files!SheetsBegin => SheetsInv
    BY DEF Files!SheetsBegin, SheetsInv, Files!SheetIds, SheetIds
  <1>2. Files!SheetsBegin => Files!Contract!SheetsInit
    <2> SUFFICES ASSUME Files!SheetsBegin PROVE Files!Contract!SheetsInit
      OBVIOUS
    <2>1. MadeList = <<>>
      BY DEF Files!SheetsBegin, MadeList
    <2> QED BY <2>1 DEF Files!SheetsBegin, Files!Contract!SheetsInit, MadeList, Files!Answer,
                        Files!Contract!Answer
  <1> QED BY <1>1, <1>2, SheetsImplement, PTL DEF SheetsInMemory, Files!Contract!SheetsSpec

-----------------------------------------------------------------------------
(* Folders.                                                                *)

Folder == [owner : Owners, main : BOOLEAN, position : Nat]

\* An owner has one default folder at most, and no id is ahead of the counter.
FoldersInv ==
    /\ nextFolder \in Nat
    /\ DOMAIN folders \subseteq 1..nextFolder
    /\ folders \in [DOMAIN folders -> Folder]
    /\ \A o \in Owners : \A f, h \in Files!DefaultOf(o) : f = h

\* The order of a listing, of all folders.
Standing == {fh \in Nat \X Nat : fh[1] \in DOMAIN folders /\ fh[2] \in DOMAIN folders /\ Files!Before(fh[1], fh[2])}

Bases == [o \in Owners |-> IF Files!DefaultOf(o) = {} THEN Absent
                           ELSE CHOOSE f \in Files!DefaultOf(o) : TRUE]
Shelves == [o \in Owners |-> Files!Only(Files!Listing(o), Files!Movable(o))]
Gaps == [o \in Owners |-> Files!MayLandBefore(o)]

LEMMA FolderIsRead ==
  ASSUME FoldersInv, NEW f \in DOMAIN folders
  PROVE  /\ f \in Nat /\ f <= nextFolder /\ nextFolder \in Nat /\ f # nextFolder + 1
         /\ folders[f] \in Folder /\ folders[f].owner \in Owners
         /\ folders[f].main \in BOOLEAN /\ folders[f].position \in Nat
  <1>1. nextFolder \in Nat /\ f \in 1..nextFolder
    BY DEF FoldersInv
  <1>2. folders[f] \in Folder
    BY DEF FoldersInv
  <1>3. folders[f].owner \in Owners /\ folders[f].main \in BOOLEAN /\ folders[f].position \in Nat
    BY <1>2 DEF Folder
  <1> QED BY <1>1, <1>2, <1>3

\* The folders of an owner: the default, and those it may move.
OwnersTell == \A o \in Owners :
    /\ Files!Of(o) \subseteq DOMAIN folders /\ Files!Of(o) \subseteq Nat
    /\ IsFiniteSet(Files!Of(o)) /\ Cardinality(Files!Of(o)) \in Nat
    /\ Files!Movable(o) = {f \in Files!Of(o) : ~folders[f].main}
    /\ IsFiniteSet(Files!Movable(o)) /\ Cardinality(Files!Movable(o)) <= Cardinality(Files!Of(o))
    /\ Cardinality(Files!Movable(o)) \in Nat
    /\ Bases[o] = Absent => Files!DefaultOf(o) = {}
    /\ Bases[o] # Absent => Files!DefaultOf(o) = {Bases[o]} /\ Bases[o] \in Files!Of(o)
    /\ Bases[o] = Absent <=> Files!DefaultOf(o) = {}

LEMMA OwnersAreTold == FoldersInv => OwnersTell
  <1> SUFFICES ASSUME FoldersInv, NEW o \in Owners
               PROVE  /\ Files!Of(o) \subseteq DOMAIN folders /\ Files!Of(o) \subseteq Nat
                      /\ IsFiniteSet(Files!Of(o)) /\ Cardinality(Files!Of(o)) \in Nat
                      /\ Files!Movable(o) = {f \in Files!Of(o) : ~folders[f].main}
                      /\ IsFiniteSet(Files!Movable(o))
                      /\ Cardinality(Files!Movable(o)) <= Cardinality(Files!Of(o))
                      /\ Cardinality(Files!Movable(o)) \in Nat
                      /\ Bases[o] = Absent => Files!DefaultOf(o) = {}
                      /\ Bases[o] # Absent => Files!DefaultOf(o) = {Bases[o]} /\ Bases[o] \in Files!Of(o)
                      /\ Bases[o] = Absent <=> Files!DefaultOf(o) = {}
    BY DEF OwnersTell
  <1>1. Files!Of(o) \subseteq DOMAIN folders /\ Files!Of(o) \subseteq 1..nextFolder /\ nextFolder \in Nat
    BY DEF FoldersInv, Files!Of
  <1>2. Files!Of(o) \subseteq Nat
    BY <1>1
  <1>3. IsFiniteSet(Files!Of(o))
    <2>1. IsFiniteSet(1..nextFolder)
      BY <1>1, FS_Interval
    <2> QED BY <1>1, <2>1, FS_Subset
  <1>4. Files!Movable(o) = {f \in Files!Of(o) : ~folders[f].main}
    BY <1>1, FolderIsRead DEF Files!Movable, Files!DefaultOf
  <1>5. Files!Movable(o) \in SUBSET Files!Of(o)
    BY <1>4
  <1>6. /\ IsFiniteSet(Files!Movable(o)) /\ Cardinality(Files!Movable(o)) <= Cardinality(Files!Of(o))
        /\ Cardinality(Files!Movable(o)) \in Nat /\ Cardinality(Files!Of(o)) \in Nat
    BY <1>3, <1>5, FS_Subset, FS_CardinalityType
  <1>7. CASE Files!DefaultOf(o) = {}
    <2>1. Bases[o] = Absent
      BY <1>7 DEF Bases
    <2> QED BY <1>1, <1>2, <1>3, <1>4, <1>6, <1>7, <2>1
  <1>8. CASE Files!DefaultOf(o) # {}
    <2>1. Bases[o] \in Files!DefaultOf(o)
      BY <1>8 DEF Bases
    <2>2. Files!DefaultOf(o) = {Bases[o]}
      BY <2>1 DEF FoldersInv
    <2>3. Bases[o] \in Files!Of(o) /\ Bases[o] \in Nat
      BY <1>2, <2>1 DEF Files!DefaultOf
    <2>4. Bases[o] # Absent
      BY <2>3, StoresAssumption
    <2> QED BY <1>1, <1>2, <1>3, <1>4, <1>6, <1>8, <2>2, <2>3, <2>4
  <1> QED BY <1>7, <1>8

LEMMA StandingIs ==
  ASSUME FoldersInv, NEW f \in DOMAIN folders, NEW h \in DOMAIN folders
  PROVE  <<f, h>> \in Standing <=>
            \/ folders[f].main /\ ~folders[h].main
            \/ /\ folders[f].main = folders[h].main
               /\ \/ folders[f].position < folders[h].position
                  \/ folders[f].position = folders[h].position /\ f < h
  <1>1. f \in Nat /\ h \in Nat
    BY FolderIsRead
  <1> QED BY <1>1 DEF Standing, Files!Before

LEMMA StandingStrict ==
  ASSUME FoldersInv, NEW S \in SUBSET DOMAIN folders
  PROVE  Strict(S, Standing)
  <1>1. ASSUME NEW f \in S, NEW h \in S, <<f, h>> \in Standing PROVE <<h, f>> \notin Standing
    BY <1>1, StandingIs, FolderIsRead
  <1>2. ASSUME NEW f \in S, NEW g \in S, NEW h \in S, <<f, g>> \in Standing, <<g, h>> \in Standing
        PROVE  <<f, h>> \in Standing
    BY <1>2, StandingIs, FolderIsRead
  <1>3. ASSUME NEW f \in S, NEW h \in S, f # h PROVE <<f, h>> \in Standing \/ <<h, f>> \in Standing
    BY <1>3, StandingIs, FolderIsRead
  <1> QED BY <1>1, <1>2, <1>3 DEF Strict, OneWay

\* The listing is all the owner's folders in order; without the default it is
\* the one list of those that may be moved.
ListingsTell == \A o \in Owners :
    /\ Files!Listing(o) \in Seq(Nat) /\ ToSet(Files!Listing(o)) = Files!Of(o)
    /\ Ascending(Files!Listing(o), Standing)

LEMMA ListingsAreTold == FoldersInv => ListingsTell
  <1> SUFFICES ASSUME FoldersInv, NEW o \in Owners
               PROVE  /\ Files!Listing(o) \in Seq(Nat) /\ ToSet(Files!Listing(o)) = Files!Of(o)
                      /\ Ascending(Files!Listing(o), Standing)
    BY DEF ListingsTell
  <1>1. PICK S \in SUBSET Nat : S = Files!Of(o) /\ IsFiniteSet(S) /\ S \subseteq DOMAIN folders
    BY OwnersAreTold DEF OwnersTell
  <1>2. Strict(S, Standing)
    BY <1>1, StandingStrict
  <1>3. PICK k \in Seq(Nat) : Ascending(k, Standing) /\ ToSet(k) = S
    BY <1>1, <1>2, OrderLists
  <1>4. Counts(k, S, Standing)
    BY <1>2, <1>3, AscendingCounts DEF Strict
  <1>5. ASSUME NEW f \in S PROVE {h \in S : Files!Before(h, f)} = Earlier(S, Standing, f)
    <2>1. \A h \in S : Files!Before(h, f) <=> <<h, f>> \in Standing
      BY <1>1 DEF Standing
    <2> QED BY <2>1 DEF Earlier
  <1>6. ASSUME NEW i \in 1..Len(k)
        PROVE  (CHOOSE f \in S : Files!Cardinality({h \in S : Files!Before(h, f)}) = i - 1) = k[i]
    <2>1. k[i] \in S /\ \A f \in S : Files!Cardinality({h \in S : Files!Before(h, f)}) = i - 1 <=> f = k[i]
      BY <1>4, <1>5, FilesCount DEF Counts
    <2> QED BY <2>1
  <1>7. Files!Cardinality(S) = Len(k) /\ k = [i \in 1..Len(k) |-> k[i]]
    BY <1>4, FilesCount DEF Counts
  <1>8. Files!Listing(o) = [i \in 1..Len(k) |->
                              CHOOSE f \in S : Files!Cardinality({h \in S : Files!Before(h, f)}) = i - 1]
    BY <1>1, <1>7 DEF Files!Listing
  <1>9. [i \in 1..Len(k) |-> CHOOSE f \in S : Files!Cardinality({h \in S : Files!Before(h, f)}) = i - 1]
           = [i \in 1..Len(k) |-> k[i]]
    BY <1>6
  <1>10. Files!Listing(o) = k
    BY <1>7, <1>8, <1>9
  <1> QED BY <1>1, <1>3, <1>10

\* A list of what may be moved, in order, is the shelf.
ShelvesTell == \A o \in Owners :
    /\ Shelves[o] \in Seq(Nat) /\ ToSet(Shelves[o]) = Files!Movable(o)
    /\ Ascending(Shelves[o], Standing)
    /\ \A k \in Seq(Nat) : ToSet(k) = Files!Movable(o) /\ Ascending(k, Standing) => k = Shelves[o]

LEMMA ShelvesAreTold == FoldersInv => ShelvesTell
  <1> SUFFICES ASSUME FoldersInv, NEW o \in Owners
               PROVE  /\ Shelves[o] \in Seq(Nat) /\ ToSet(Shelves[o]) = Files!Movable(o)
                      /\ Ascending(Shelves[o], Standing)
                      /\ \A k \in Seq(Nat) :
                            ToSet(k) = Files!Movable(o) /\ Ascending(k, Standing) => k = Shelves[o]
    BY DEF ShelvesTell
  <1>1. PICK l \in Seq(Nat) : l = Files!Listing(o) /\ ToSet(l) = Files!Of(o) /\ Ascending(l, Standing)
    BY ListingsAreTold DEF ListingsTell
  <1>2. PICK S \in SUBSET Nat : S = Files!Movable(o) /\ S \subseteq Files!Of(o) /\ S \subseteq DOMAIN folders
    BY OwnersAreTold DEF OwnersTell
  <1>3. Shelves[o] = Only(l, S)
    BY <1>1, <1>2, FilesLists DEF Shelves
  <1>4. Only(l, S) \in Seq(Nat) /\ ToSet(Only(l, S)) = ToSet(l) \cap S
    BY OnlyKeeps DEF Kept
  <1>5. Ascending(Only(l, S), Standing)
    BY <1>1, OnlyAscends
  <1>6. PICK s \in Seq(Nat) : s = Shelves[o] /\ ToSet(s) = S /\ Ascending(s, Standing)
    BY <1>1, <1>2, <1>3, <1>4, <1>5
  <1>7. OneWay(S, Standing)
    BY <1>2, StandingStrict DEF Strict
  <1>8. ASSUME NEW k \in Seq(Nat), ToSet(k) = S, Ascending(k, Standing) PROVE k = s
    BY <1>6, <1>7, <1>8, SameList
  <1> QED BY <1>2, <1>6, <1>8

\* The default comes first, and behind it those in the order asked for.
LEMMA ListedWhole ==
  ASSUME FoldersInv, NEW o \in Owners
  PROVE  Files!Listing(o) = IF Bases[o] = Absent THEN Shelves[o] ELSE <<Bases[o]>> \o Shelves[o]
  <1>1. PICK l \in Seq(Nat) : l = Files!Listing(o) /\ ToSet(l) = Files!Of(o) /\ Ascending(l, Standing)
    BY ListingsAreTold DEF ListingsTell
  <1>2. PICK s \in Seq(Nat) : s = Shelves[o] /\ ToSet(s) = Files!Movable(o) /\ Ascending(s, Standing)
    BY ShelvesAreTold DEF ShelvesTell
  <1>3. PICK S \in SUBSET Nat : S = Files!Of(o) /\ S \subseteq DOMAIN folders
    BY OwnersAreTold DEF OwnersTell
  <1>4. OneWay(S, Standing)
    BY <1>3, StandingStrict DEF Strict
  <1>5. CASE Bases[o] = Absent
    <2>1. Files!Movable(o) = S
      BY <1>3, <1>5, OwnersAreTold DEF OwnersTell, Files!Movable
    <2>2. l = s
      BY <1>1, <1>2, <1>3, <1>4, <2>1, SameList
    <2> QED BY <1>1, <1>2, <1>5, <2>2
  <1>6. CASE Bases[o] # Absent
    <2>1. PICK b \in S : b = Bases[o] /\ Files!DefaultOf(o) = {b}
      BY <1>3, <1>6, OwnersAreTold DEF OwnersTell
    <2>2. b \in Nat /\ b \in DOMAIN folders /\ folders[b].main /\ Files!Movable(o) = S \ {b}
      BY <1>3, <2>1 DEF Files!DefaultOf, Files!Movable
    <2>3. <<b>> \in Seq(Nat) /\ Len(<<b>>) = 1 /\ <<b>>[1] = b
      BY <2>2
    <2>4. PICK k \in Seq(Nat) : /\ k = <<b>> \o s /\ Len(k) = 1 + Len(s) /\ Len(s) \in Nat
                                /\ k[1] = b /\ \A j \in 1..Len(s) : k[1 + j] = s[j]
      <3>1. PICK e \in Seq(Nat) : e = <<b>> /\ Len(e) = 1 /\ e[1] = b
        BY <2>3
      <3>2. /\ e \o s \in Seq(Nat) /\ Len(e \o s) = Len(e) + Len(s) /\ Len(s) \in Nat
            /\ \A j \in 1..Len(e) : (e \o s)[j] = e[j]
            /\ \A j \in 1..Len(s) : (e \o s)[Len(e) + j] = s[j]
        BY JoinIs
      <3>3. 1 \in 1..1
        OBVIOUS
      <3> QED BY <3>1, <3>2, <3>3
    <2>5. \A i \in 1..Len(k) : i = 1 \/ \E j \in 1..Len(s) : i = 1 + j
      <3> SUFFICES ASSUME NEW i \in 1..Len(k), i # 1 PROVE \E j \in 1..Len(s) : i = 1 + j
        OBVIOUS
      <3>1. i - 1 \in 1..Len(s) /\ i = 1 + (i - 1)
        BY <2>4
      <3> QED BY <3>1
    <2>6. \A j \in 1..Len(s) : s[j] \in S \ {b}
      <3>1. \A j \in 1..Len(s) : s[j] \in ToSet(s)
        BY DEF ToSet
      <3> QED BY <1>2, <2>2, <3>1
    <2>7. ToSet(k) = S
      <3>1. \A i \in 1..Len(k) : k[i] \in S
        BY <2>4, <2>5, <2>6
      <3>2. ASSUME NEW e \in S PROVE \E i \in 1..Len(k) : k[i] = e
        <4>1. CASE e = b
          <5>1. 1 \in 1..Len(k)
            BY <2>4
          <5> QED BY <2>4, <4>1, <5>1
        <4>2. CASE e # b
          <5>1. e \in ToSet(s)
            BY <1>2, <2>2, <4>2
          <5>2. PICK j \in 1..Len(s) : e = s[j]
            BY <5>1 DEF ToSet
          <5>3. 1 + j \in 1..Len(k)
            BY <2>4
          <5> QED BY <2>4, <5>2, <5>3
        <4> QED BY <4>1, <4>2
      <3>3. ToSet(k) = {k[i] : i \in 1..Len(k)}
        BY DEF ToSet
      <3> QED BY <3>1, <3>2, <3>3
    <2>8. Ascending(k, Standing)
      <3> SUFFICES ASSUME NEW i \in 1..Len(k), NEW j \in 1..Len(k), i < j
                   PROVE  <<k[i], k[j]>> \in Standing
        BY DEF Ascending
      <3>1. j # 1
        BY <2>4
      <3>2. PICK n \in 1..Len(s) : j = 1 + n /\ k[j] = s[n]
        BY <2>4, <2>5, <3>1
      <3>3. CASE i = 1
        <4>1. k[i] = b /\ s[n] \in DOMAIN folders /\ ~folders[s[n]].main
          <5>1. s[n] \in S \ {b}
            BY <2>6
          <5>2. s[n] \in Files!Movable(o)
            BY <2>2, <5>1
          <5> QED BY <1>3, <2>4, <3>3, <5>2, OwnersAreTold DEF OwnersTell
        <4> QED BY <2>2, <3>2, <4>1, StandingIs
      <3>4. CASE i # 1
        <4>1. PICK m \in 1..Len(s) : i = 1 + m /\ k[i] = s[m]
          BY <2>4, <2>5, <3>4
        <4>2. m < n
          BY <3>2, <4>1
        <4> QED BY <1>2, <3>2, <4>1, <4>2 DEF Ascending
      <3> QED BY <3>3, <3>4
    <2>9. l = k
      BY <1>1, <1>3, <1>4, <2>7, <2>8, SameList
    <2> QED BY <1>1, <1>2, <1>6, <2>1, <2>4, <2>9
  <1> QED BY <1>5, <1>6

\* What the contract calls ordered and default, whoever's.
FoldersTell ==
    /\ \A o \in Owners : Files!Contract!Ordered(o) = Files!Movable(o)
    /\ \A f : f \in Files!Contract!Shelved <=> f \in DOMAIN folders /\ ~folders[f].main
    /\ \A f : f \in Files!Contract!Defaults <=> f \in DOMAIN folders /\ folders[f].main

LEMMA FoldersAreTold == FoldersInv => FoldersTell
  <1> SUFFICES ASSUME FoldersInv PROVE FoldersTell
    OBVIOUS
  <1>1. ASSUME NEW o \in Owners PROVE Files!Contract!Ordered(o) = Files!Movable(o)
    <2>1. Files!Contract!Ordered(o) = ToSet(Shelves[o])
      BY FilesLists DEF Files!Contract!Ordered, Shelves
    <2> QED BY <2>1, ShelvesAreTold DEF ShelvesTell
  <1>2. ASSUME NEW f
        PROVE  f \in Files!Contract!Shelved <=> f \in DOMAIN folders /\ ~folders[f].main
    <2>1. f \in Files!Contract!Shelved <=> \E o \in Owners : f \in Files!Movable(o)
      BY <1>1 DEF Files!Contract!Shelved
    <2>2. \A o \in Owners : f \in Files!Movable(o) <=> f \in Files!Of(o) /\ ~folders[f].main
      BY OwnersAreTold DEF OwnersTell
    <2>3. \A o \in Owners : f \in Files!Of(o) <=> f \in DOMAIN folders /\ folders[f].owner = o
      BY DEF Files!Of
    <2> QED BY <2>1, <2>2, <2>3, FolderIsRead
  <1>3. ASSUME NEW f
        PROVE  f \in Files!Contract!Defaults <=> f \in DOMAIN folders /\ folders[f].main
    <2>1. f \in Files!Contract!Defaults <=> f # Absent /\ \E o \in Owners : f = Bases[o]
      BY DEF Files!Contract!Defaults, Bases
    <2>2. \A o \in Owners : f \in Files!DefaultOf(o) <=> f \in DOMAIN folders /\ folders[f].owner = o /\ folders[f].main
      BY DEF Files!DefaultOf, Files!Of
    <2>3. \A o \in Owners : f # Absent => (f = Bases[o] <=> f \in Files!DefaultOf(o))
      BY OwnersAreTold DEF OwnersTell
    <2>4. f \in DOMAIN folders => f # Absent
      BY FolderIsRead, StoresAssumption
    <2> QED BY <2>1, <2>2, <2>3, <2>4, FolderIsRead
  <1> QED BY <1>1, <1>2, <1>3 DEF FoldersTell

LEMMA FoldersStand ==
  ASSUME FoldersInv, UNCHANGED <<folders, nextFolder>>
  PROVE  FoldersInv' /\ UNCHANGED <<Bases, Shelves, Gaps>>
  BY DEF FoldersInv, Bases, Shelves, Gaps, Files!DefaultOf, Files!Of, Files!Listing, Files!Before,
         Files!Movable, Files!MayLandBefore

LEMMA FolderAnswered ==
  ASSUME FoldersInv, NEW call, NEW on, NEW says, NEW got, Files!FolderTells(call, on, says, got)
  PROVE  /\ Files!Contract!FolderSays(call, on, says, got) /\ FoldersInv'
         /\ folderTold'.call = call /\ folderTold'.on = on
  <1>1. folderTold' = Files!Contract!Answer(call, on, says, got)
    BY DEF Files!FolderTells, Files!Answer, Files!Contract!Answer
  <1>2. FoldersInv' /\ UNCHANGED <<Bases, Shelves, Gaps>>
    BY FoldersStand DEF Files!FolderTells
  <1>3. folderTold'.call = call /\ folderTold'.on = on
    BY <1>1 DEF Files!Contract!Answer
  <1> QED BY <1>1, <1>2, <1>3 DEF Files!Contract!FolderSays, Bases, Shelves, Gaps

LEMMA ChangedAt ==
  ASSUME NEW S, NEW f, NEW g, f = [x \in S |-> f[x]], g = [x \in S |-> g[x]],
         NEW o \in S, NEW v, g[o] = v, \A x \in S : x # o => g[x] = f[x]
  PROVE  g = [f EXCEPT ![o] = v]
  OBVIOUS

\* What an owner's folders look like is told from that owner's alone.
Alike(o) == Files!Of(o)' = Files!Of(o) /\ \A f \in Files!Of(o) : folders'[f] = folders[f]

LEMMA Elsewhere ==
  ASSUME FoldersInv, FoldersInv', NEW o \in Owners, Alike(o)
  PROVE  Bases'[o] = Bases[o] /\ Shelves'[o] = Shelves[o] /\ Gaps'[o] = Gaps[o]
  <1>1. Files!DefaultOf(o)' = Files!DefaultOf(o)
    BY DEF Alike, Files!DefaultOf
  <1>2. Files!Movable(o)' = Files!Movable(o)
    BY <1>1 DEF Alike, Files!Movable
  <1>3. Bases'[o] = Bases[o]
    BY <1>1 DEF Bases
  <1>4. Gaps'[o] = Gaps[o]
    <2>1. \A f \in Files!Movable(o) : folders'[f] = folders[f]
      BY DEF Alike, Files!Movable
    <2> QED BY <1>2, <2>1 DEF Gaps, Files!MayLandBefore, Alike
  <1>5. ShelvesTell /\ ShelvesTell'
    BY ShelvesAreTold, PTL
  <1>6. PICK s \in Seq(Nat) : s = Shelves[o] /\ ToSet(s) = Files!Movable(o) /\ Ascending(s, Standing)
    BY <1>5 DEF ShelvesTell
  <1>7. Ascending(s, Standing')
    <2> SUFFICES ASSUME NEW i \in 1..Len(s), NEW j \in 1..Len(s), i < j PROVE <<s[i], s[j]>> \in Standing'
      BY DEF Ascending
    <2>1. <<s[i], s[j]>> \in Standing
      BY <1>6 DEF Ascending
    <2>2. s[i] \in Files!Of(o) /\ s[j] \in Files!Of(o)
      <3>1. s[i] \in ToSet(s) /\ s[j] \in ToSet(s)
        BY DEF ToSet
      <3> QED BY <1>6, <3>1 DEF Files!Movable
    <2>3. folders'[s[i]] = folders[s[i]] /\ folders'[s[j]] = folders[s[j]]
      BY <2>2 DEF Alike
    <2>4. s[i] \in Files!Of(o)' /\ s[j] \in Files!Of(o)'
      BY <2>2 DEF Alike
    <2> QED BY <2>1, <2>3, <2>4 DEF Standing, Files!Before, Files!Of
  <1>8. Shelves'[o] = s
    BY <1>2, <1>5, <1>6, <1>7 DEF ShelvesTell
  <1> QED BY <1>3, <1>4, <1>6, <1>8

\* A step about one owner changes that owner's part of the contract's state.
LEMMA OneOwner ==
  ASSUME FoldersInv, FoldersInv', NEW o \in Owners, \A u \in Owners : u # o => Alike(u)
  PROVE  /\ Bases' = [Bases EXCEPT ![o] = Bases'[o]]
         /\ Shelves' = [Shelves EXCEPT ![o] = Shelves'[o]]
         /\ Gaps' = [Gaps EXCEPT ![o] = Gaps'[o]]
  <1>1. /\ Bases = [x \in Owners |-> Bases[x]] /\ Bases' = [x \in Owners |-> Bases'[x]]
        /\ Shelves = [x \in Owners |-> Shelves[x]] /\ Shelves' = [x \in Owners |-> Shelves'[x]]
        /\ Gaps = [x \in Owners |-> Gaps[x]] /\ Gaps' = [x \in Owners |-> Gaps'[x]]
    BY DEF Bases, Shelves, Gaps
  <1>2. \A x \in Owners : x # o => Bases'[x] = Bases[x] /\ Shelves'[x] = Shelves[x] /\ Gaps'[x] = Gaps[x]
    BY Elsewhere
  <1>3. Bases' = [Bases EXCEPT ![o] = Bases'[o]]
    BY <1>1, <1>2, ChangedAt
  <1>4. Shelves' = [Shelves EXCEPT ![o] = Shelves'[o]]
    BY <1>1, <1>2, ChangedAt
  <1>5. Gaps' = [Gaps EXCEPT ![o] = Gaps'[o]]
    BY <1>1, <1>2, ChangedAt
  <1> QED BY <1>3, <1>4, <1>5

LEMMA FoldersRead ==
  ASSUME FoldersInv
  PROVE  /\ \A f : Files!GetFolder(f) =>
              /\ FoldersInv' /\ folderTold'.call = "Get" /\ folderTold'.on = <<f>>
              /\ Files!Contract!Get(f)
         /\ \A o \in Owners : Files!ListFolders(o) =>
              /\ FoldersInv' /\ folderTold'.call = "List" /\ folderTold'.on = <<o>>
              /\ Files!Contract!List(o)
  <1>1. ASSUME NEW f, Files!GetFolder(f)
        PROVE  /\ FoldersInv' /\ folderTold'.call = "Get" /\ folderTold'.on = <<f>>
               /\ Files!Contract!Get(f)
    <2>1. CASE f \notin DOMAIN folders /\ Files!FolderTells("Get", <<f>>, "missing", {})
      <3>1. f \notin Files!Contract!Shelved \cup Files!Contract!Defaults
        BY <2>1, FoldersAreTold DEF FoldersTell
      <3> QED BY <2>1, <3>1, FolderAnswered DEF Files!Contract!Get
    <2>2. CASE /\ f \in DOMAIN folders
               /\ Files!FolderTells("Get", <<f>>, "done", {<<folders[f].owner, folders[f].main>>})
      <3>1. PICK o \in Owners : o = folders[f].owner /\ f \in Files!Of(o)
        BY <2>2, FolderIsRead DEF Files!Of
      <3>2. PICK m \in BOOLEAN : m = folders[f].main
        BY <2>2, FolderIsRead
      <3>3. /\ Files!Contract!FolderSays("Get", <<f>>, "done", {<<o, m>>}) /\ FoldersInv'
            /\ folderTold'.call = "Get" /\ folderTold'.on = <<f>>
        BY <2>2, <3>1, <3>2, FolderAnswered
      <3>4. CASE m = TRUE
        <4>1. Files!DefaultOf(o) = {Bases[o]}
          BY <3>1, <3>2, <3>4, OwnersAreTold DEF OwnersTell, Files!DefaultOf
        <4>2. f = Bases[o]
          BY <3>1, <3>2, <3>4, <4>1 DEF Files!DefaultOf
        <4> QED BY <3>3, <3>4, <4>2 DEF Files!Contract!Get, Bases
      <3>5. CASE m = FALSE
        <4>1. f \in Files!Contract!Ordered(o)
          BY <3>1, <3>2, <3>5, OwnersAreTold, FoldersAreTold DEF OwnersTell, FoldersTell
        <4> QED BY <3>3, <3>5, <4>1 DEF Files!Contract!Get
      <3> QED BY <3>4, <3>5
    <2> QED BY <1>1, <2>1, <2>2 DEF Files!GetFolder
  <1>2. ASSUME NEW o \in Owners, Files!ListFolders(o)
        PROVE  /\ FoldersInv' /\ folderTold'.call = "List" /\ folderTold'.on = <<o>>
               /\ Files!Contract!List(o)
    <2>1. /\ Files!Contract!FolderSays("List", <<o>>, "done", {Files!Listing(o)}) /\ FoldersInv'
          /\ folderTold'.call = "List" /\ folderTold'.on = <<o>>
      BY <1>2, FolderAnswered DEF Files!ListFolders
    <2>2. Files!Listing(o) = IF Bases[o] = Absent THEN Shelves[o] ELSE <<Bases[o]>> \o Shelves[o]
      BY ListedWhole
    <2> QED BY <2>1, <2>2 DEF Files!Contract!List, Bases, Shelves
  <1> QED BY <1>1, <1>2

\* The folder made, and what is known of its owner's afterwards.
LEMMA FolderMade ==
  ASSUME FoldersInv, NEW call, NEW o \in Owners, NEW main \in BOOLEAN,
         main => Files!DefaultOf(o) = {}, Files!Insert(call, o, main)
  PROVE  LET f == nextFolder + 1 IN
         /\ FoldersInv' /\ folderTold' = Files!Contract!Answer(call, <<o>>, "done", {f})
         /\ folderTold'.call = call /\ folderTold'.on = <<o>>
         /\ f \in Files!FolderIds \ (Files!Contract!Shelved \cup Files!Contract!Defaults)
         /\ f \in Nat /\ f \notin DOMAIN folders /\ DOMAIN folders' = DOMAIN folders \cup {f}
         /\ \A h \in DOMAIN folders : folders'[h] = folders[h] /\ h < f
         /\ folders'[f] = [owner |-> o, main |-> main, position |-> Cardinality(Files!Of(o))]
         /\ Files!Of(o)' = Files!Of(o) \cup {f}
         /\ \A u \in Owners : u # o => Alike(u)
  <1> DEFINE f == nextFolder + 1
             new == [owner |-> o, main |-> main, position |-> Cardinality(Files!Of(o))]
  <1>1. nextFolder \in Nat /\ LastFolder \in Nat /\ nextFolder < LastFolder /\ f \in Nat
    BY StoresAssumption DEF FoldersInv, Files!Insert
  <1>2. f \notin DOMAIN folders /\ \A h \in DOMAIN folders : h < f
    BY FolderIsRead
  <1>3. /\ nextFolder' = f
        /\ folders' = [h \in DOMAIN folders \cup {f} |-> IF h \in DOMAIN folders THEN folders[h] ELSE new]
        /\ folderTold' = Files!Answer(call, <<o>>, "done", {f})
    BY FilesCount DEF Files!Insert
  <1>4. new \in Folder
    BY OwnersAreTold DEF OwnersTell, Folder
  <1> HIDE DEF new
  <1>5. f \in Files!FolderIds
    BY <1>1 DEF Files!FolderIds
  <1>6. f \notin Files!Contract!Shelved /\ f \notin Files!Contract!Defaults
    BY <1>2, FoldersAreTold DEF FoldersTell
  <1>7. DOMAIN folders' = DOMAIN folders \cup {f} /\ folders'[f] = new
    BY <1>2, <1>3
  <1>8. \A h \in DOMAIN folders : folders'[h] = folders[h]
    BY <1>3
  <1>9. Files!Of(o)' = Files!Of(o) \cup {f}
    BY <1>2, <1>7, <1>8 DEF Files!Of, new
  <1>10. ASSUME NEW u \in Owners, u # o PROVE Alike(u)
    <2>1. Files!Of(u)' = Files!Of(u)
      BY <1>2, <1>7, <1>8, <1>10 DEF Files!Of, new
    <2> QED BY <1>8, <2>1 DEF Alike, Files!Of
  <1>11. FoldersInv'
    <2>1. DOMAIN folders' \subseteq 1..nextFolder'
      <3>1. DOMAIN folders \subseteq 1..f
        BY <1>1 DEF FoldersInv
      <3> QED BY <1>1, <1>3, <1>7, <3>1
    <2>2. folders' \in [DOMAIN folders' -> Folder]
      BY <1>3, <1>4, <1>7, <1>8 DEF FoldersInv
    <2>3. ASSUME NEW u \in Owners, NEW g \in Files!DefaultOf(u)', NEW h \in Files!DefaultOf(u)'
          PROVE  g = h
      <3>1. CASE u = o /\ main
        <4>1. Files!DefaultOf(o) = {}
          BY <3>1
        <4>2. \A k \in Files!DefaultOf(o)' : k = f
          BY <1>7, <1>8, <4>1 DEF Files!DefaultOf, Files!Of
        <4> QED BY <2>3, <3>1, <4>2
      <3>2. CASE ~(u = o /\ main)
        <4>1. f \notin Files!DefaultOf(u)'
          BY <1>7, <3>2 DEF Files!DefaultOf, Files!Of, new
        <4>2. g \in Files!DefaultOf(u) /\ h \in Files!DefaultOf(u)
          BY <1>7, <1>8, <2>3, <4>1 DEF Files!DefaultOf, Files!Of
        <4> QED BY <4>2 DEF FoldersInv
      <3> QED BY <3>1, <3>2
    <2> QED BY <1>1, <1>3, <2>1, <2>2, <2>3 DEF FoldersInv
  <1>12. /\ folderTold' = Files!Contract!Answer(call, <<o>>, "done", {f})
         /\ folderTold'.call = call /\ folderTold'.on = <<o>>
    BY <1>3 DEF Files!Answer, Files!Contract!Answer
  <1> QED BY <1>1, <1>2, <1>5, <1>6, <1>7, <1>8, <1>9, <1>10, <1>11, <1>12 DEF new

LEMMA MoreThan ==
  ASSUME NEW S, IsFiniteSet(S), NEW x, x \notin S
  PROVE  Cardinality(S \cup {x}) = Cardinality(S) + 1 /\ Cardinality(S) \in Nat
  BY FS_AddElement, FS_CardinalityType

\* A gap that is there with another folder was there before.
LEMMA GapCloses ==
  ASSUME FoldersInv, FoldersInv', NEW o \in Owners, NEW f, f \notin DOMAIN folders,
         Files!Of(o)' = Files!Of(o) \cup {f}, \A h \in Files!Of(o) : folders'[h] = folders[h],
         folders'[f].position = Cardinality(Files!Of(o)), Gaps'[o]
  PROVE  Gaps[o]
  <1>1. PICK h \in Files!Movable(o)' : folders'[h].position > Cardinality(Files!Of(o)')
    BY FilesCount DEF Gaps, Files!MayLandBefore
  <1>2. IsFiniteSet(Files!Of(o)) /\ Cardinality(Files!Of(o)) \in Nat /\ f \notin Files!Of(o)
    BY OwnersAreTold DEF OwnersTell, Files!Of
  <1>3. Cardinality(Files!Of(o)') = Cardinality(Files!Of(o)) + 1
    BY <1>2, MoreThan
  <1>4. h \in Files!Of(o)' /\ h \notin Files!DefaultOf(o)'
    BY <1>1 DEF Files!Movable
  <1>5. h # f
    BY <1>1, <1>2, <1>3
  <1>6. h \in Files!Of(o) /\ folders'[h] = folders[h]
    BY <1>4, <1>5
  <1>7. h \in Files!Movable(o)
    BY <1>4, <1>6 DEF Files!Movable, Files!DefaultOf
  <1>8. folders[h].position > Cardinality(Files!Of(o))
    <2>1. folders[h].position \in Nat
      BY <1>6, FolderIsRead DEF Files!Of
    <2> QED BY <1>1, <1>2, <1>3, <1>6, <2>1
  <1> QED BY <1>7, <1>8, FilesCount DEF Gaps, Files!MayLandBefore

LEMMA StandingStays ==
  ASSUME NEW f \in DOMAIN folders, NEW h \in DOMAIN folders, f \in DOMAIN folders', h \in DOMAIN folders',
         folders'[f] = folders[f], folders'[h] = folders[h]
  PROVE  <<f, h>> \in Standing' <=> <<f, h>> \in Standing
  BY DEF Standing, Files!Before

StandingOneWay == \A f, h \in DOMAIN folders : <<f, h>> \in Standing => <<h, f>> \notin Standing

LEMMA StandingIsOneWay == FoldersInv => StandingOneWay
  BY StandingStrict DEF StandingOneWay, Strict, OneWay

LEMMA FolderEnsured ==
  ASSUME FoldersInv, NEW o \in Owners, Files!EnsureDefault(o)
  PROVE  /\ FoldersInv' /\ folderTold'.call = "EnsureDefault" /\ folderTold'.on = <<o>>
         /\ Files!Contract!EnsureDefault(o)
  <1>1. CASE Files!DefaultOf(o) # {} /\ Files!FolderTells("EnsureDefault", <<o>>, "done", Files!DefaultOf(o))
    <2>1. Bases[o] # Absent /\ Files!DefaultOf(o) = {Bases[o]}
      BY <1>1, OwnersAreTold DEF OwnersTell
    <2>2. /\ Files!Contract!FolderSays("EnsureDefault", <<o>>, "done", {Bases[o]}) /\ FoldersInv'
          /\ folderTold'.call = "EnsureDefault" /\ folderTold'.on = <<o>>
      BY <1>1, <2>1, FolderAnswered
    <2> QED BY <2>1, <2>2 DEF Files!Contract!EnsureDefault, Bases
  <1>2. CASE Files!DefaultOf(o) = {} /\ Files!Insert("EnsureDefault", o, TRUE)
    <2>1. PICK f : /\ FoldersInv' /\ folderTold' = Files!Contract!Answer("EnsureDefault", <<o>>, "done", {f})
                   /\ folderTold'.call = "EnsureDefault" /\ folderTold'.on = <<o>>
                   /\ f \in Files!FolderIds \ (Files!Contract!Shelved \cup Files!Contract!Defaults)
                   /\ f \in Nat /\ f \notin DOMAIN folders /\ DOMAIN folders' = DOMAIN folders \cup {f}
                   /\ \A h \in DOMAIN folders : folders'[h] = folders[h] /\ h < f
                   /\ folders'[f] = [owner |-> o, main |-> TRUE, position |-> Cardinality(Files!Of(o))]
                   /\ Files!Of(o)' = Files!Of(o) \cup {f}
                   /\ \A u \in Owners : u # o => Alike(u)
      BY <1>2, FolderMade
    <2>2. Bases[o] = Absent
      BY <1>2, OwnersAreTold DEF OwnersTell
    <2>3. Files!Of(o) \subseteq DOMAIN folders
      BY DEF Files!Of
    <2>4. Files!DefaultOf(o)' = {f}
      BY <1>2, <2>1, <2>3 DEF Files!DefaultOf
    <2>5. Files!Movable(o)' = Files!Movable(o)
      BY <1>2, <2>1, <2>3, <2>4 DEF Files!Movable
    <2>6. Bases'[o] = f
      BY <2>4 DEF Bases
    <2>7. ShelvesTell /\ ShelvesTell'
      BY <2>1, ShelvesAreTold, PTL
    <2>8. PICK s \in Seq(Nat) : s = Shelves[o] /\ ToSet(s) = Files!Movable(o) /\ Ascending(s, Standing)
      BY <2>7 DEF ShelvesTell
    <2>9. Ascending(s, Standing')
      <3> SUFFICES ASSUME NEW i \in 1..Len(s), NEW j \in 1..Len(s), i < j PROVE <<s[i], s[j]>> \in Standing'
        BY DEF Ascending
      <3>1. <<s[i], s[j]>> \in Standing
        BY <2>8 DEF Ascending
      <3>2. s[i] \in ToSet(s) /\ s[j] \in ToSet(s)
        BY DEF ToSet
      <3>3. s[i] \in DOMAIN folders /\ s[j] \in DOMAIN folders
        BY <2>3, <2>8, <3>2 DEF Files!Movable
      <3> QED BY <2>1, <3>1, <3>3, StandingStays
    <2>10. Shelves'[o] = Shelves[o]
      BY <2>5, <2>7, <2>8, <2>9 DEF ShelvesTell
    <2>11. Gaps'[o] => Gaps[o]
      <3>1. folders'[f].position = Cardinality(Files!Of(o)) /\ \A h \in Files!Of(o) : folders'[h] = folders[h]
        BY <2>1, <2>3
      <3> QED BY <2>1, <3>1, GapCloses
    <2>12. Gaps'[o] \in BOOLEAN
      BY DEF Gaps, Files!MayLandBefore
    <2>13. /\ Bases' = [Bases EXCEPT ![o] = f]
           /\ Shelves' = Shelves
           /\ Gaps' = [Gaps EXCEPT ![o] = Gaps'[o]]
      <3>1. /\ Bases' = [Bases EXCEPT ![o] = Bases'[o]]
            /\ Shelves' = [Shelves EXCEPT ![o] = Shelves'[o]]
            /\ Gaps' = [Gaps EXCEPT ![o] = Gaps'[o]]
        BY <2>1, OneOwner
      <3>2. [Shelves EXCEPT ![o] = Shelves[o]] = Shelves
        BY DEF Shelves
      <3> QED BY <2>6, <2>10, <3>1, <3>2
    <2>14. Files!Contract!MayClose(o)
      BY <2>11, <2>12, <2>13 DEF Files!Contract!MayClose, Gaps
    <2> QED BY <2>1, <2>2, <2>13, <2>14 DEF Files!Contract!EnsureDefault, Bases, Shelves
  <1> QED BY <1>1, <1>2 DEF Files!EnsureDefault

LEMMA FolderCreated ==
  ASSUME FoldersInv, NEW o \in Owners, Files!CreateFolder(o)
  PROVE  /\ FoldersInv' /\ folderTold'.call = "Create" /\ folderTold'.on = <<o>>
         /\ Files!Contract!Create(o)
  <1>1. PICK f : /\ FoldersInv' /\ folderTold' = Files!Contract!Answer("Create", <<o>>, "done", {f})
                 /\ folderTold'.call = "Create" /\ folderTold'.on = <<o>>
                 /\ f \in Files!FolderIds \ (Files!Contract!Shelved \cup Files!Contract!Defaults)
                 /\ f \in Nat /\ f \notin DOMAIN folders /\ DOMAIN folders' = DOMAIN folders \cup {f}
                 /\ \A h \in DOMAIN folders : folders'[h] = folders[h] /\ h < f
                 /\ folders'[f] = [owner |-> o, main |-> FALSE, position |-> Cardinality(Files!Of(o))]
                 /\ Files!Of(o)' = Files!Of(o) \cup {f}
                 /\ \A u \in Owners : u # o => Alike(u)
    BY FolderMade DEF Files!CreateFolder
  <1>2. Files!Of(o) \subseteq DOMAIN folders
    BY DEF Files!Of
  <1>3. Files!DefaultOf(o)' = Files!DefaultOf(o)
    BY <1>1, <1>2 DEF Files!DefaultOf
  <1>4. Files!Movable(o)' = Files!Movable(o) \cup {f} /\ f \notin Files!Movable(o)
    BY <1>1, <1>2, <1>3 DEF Files!Movable, Files!DefaultOf
  <1>5. ShelvesTell /\ ShelvesTell'
    BY <1>1, ShelvesAreTold, PTL
  <1>6. PICK s \in Seq(Nat) : s = Shelves[o] /\ ToSet(s) = Files!Movable(o) /\ Ascending(s, Standing)
    BY <1>5 DEF ShelvesTell
  <1>7. PICK t \in Seq(Nat) : t = Shelves'[o] /\ ToSet(t) = Files!Movable(o)' /\ Ascending(t, Standing')
    BY <1>5 DEF ShelvesTell
  <1>8. PICK i \in 1..Len(t) : t[i] = f
    <2>1. f \in ToSet(t)
      BY <1>4, <1>7
    <2> QED BY <2>1 DEF ToSet
  <1>9. PICK l \in Seq(Nat) : l = Less(t, i) /\ Len(l) = Len(t) - 1
    BY LessIs
  <1>10. OneWay(ToSet(t), Standing')
    <2>1. Files!Movable(o)' \subseteq DOMAIN folders'
      BY DEF Files!Movable, Files!Of
    <2>2. \A h, g \in DOMAIN folders' : <<h, g>> \in Standing' => <<g, h>> \notin Standing'
      <3>1. StandingOneWay'
        BY <1>1, StandingIsOneWay, PTL
      <3> QED BY <3>1 DEF StandingOneWay
    <2> QED BY <1>7, <2>1, <2>2 DEF OneWay
  <1>11. ToSet(l) = Files!Movable(o)
    <2>1. IsInjective(t)
      BY <1>7, <1>10, AscendingInjective
    <2>2. ToSet(l) = ToSet(t) \ {f}
      BY <1>8, <1>9, <2>1, LessLists
    <2> QED BY <1>4, <1>7, <2>2
  <1>12. Ascending(l, Standing)
    <2>1. Ascending(l, Standing')
      BY <1>7, <1>9, LessAscends
    <2> SUFFICES ASSUME NEW j \in 1..Len(l), NEW k \in 1..Len(l), j < k PROVE <<l[j], l[k]>> \in Standing
      BY DEF Ascending
    <2>2. <<l[j], l[k]>> \in Standing'
      BY <2>1 DEF Ascending
    <2>3. l[j] \in ToSet(l) /\ l[k] \in ToSet(l)
      BY DEF ToSet
    <2>4. l[j] \in DOMAIN folders /\ l[k] \in DOMAIN folders
      BY <1>2, <1>11, <2>3 DEF Files!Movable
    <2> QED BY <1>1, <2>2, <2>4, StandingStays
  <1>13. l = s
    BY <1>5, <1>6, <1>11, <1>12 DEF ShelvesTell
  <1>14. t = Files!Contract!InsertAt(s, i, f)
    BY <1>8, <1>9, <1>13, LessInserted
  <1>15. Len(t) = Len(s) + 1 /\ Len(s) \in Nat /\ i \in 1..(Len(s) + 1)
    <2>1. Len(t) \in Nat /\ Len(s) \in Nat /\ Len(s) = Len(t) - 1
      BY <1>9, <1>13
    <2> QED BY <2>1
  <1>16. Gaps[o] \/ i = Len(s) + 1
    <2> SUFFICES ASSUME i # Len(s) + 1 PROVE Gaps[o]
      OBVIOUS
    <2>1. i \in Nat /\ i < i + 1 /\ i + 1 \in 1..Len(t)
      BY <1>15
    <2>2. PICK h : h = t[i + 1] /\ <<f, h>> \in Standing'
      BY <1>7, <1>8, <2>1 DEF Ascending
    <2>3. h \in ToSet(t)
      BY <2>1, <2>2 DEF ToSet
    <2>4. h \in Files!Movable(o)' /\ h # f
      <3>1. h \in Files!Movable(o)'
        BY <1>7, <2>3
      <3>2. f \in DOMAIN folders'
        BY <1>1
      <3>3. <<f, f>> \notin Standing'
        <4>1. f \in ToSet(t)
          BY <1>4, <1>7
        <4> QED BY <1>10, <4>1 DEF OneWay
      <3> QED BY <2>2, <3>1, <3>3
    <2>5. h \in Files!Movable(o) /\ h \in DOMAIN folders
      BY <1>2, <1>4, <2>4 DEF Files!Movable
    <2>6. ~folders[h].main /\ folders[h].position \in Nat /\ h < f /\ folders'[h] = folders[h] /\ h \in Nat
      <3>1. ~folders[h].main
        BY <2>5, OwnersAreTold DEF OwnersTell
      <3> QED BY <1>1, <2>5, <3>1, FolderIsRead
    <2>7. /\ Files!Before(f, h)'
          /\ ~folders'[f].main /\ folders'[f].position = Cardinality(Files!Of(o))
      BY <1>1, <2>2 DEF Standing
    <2>8. folders'[f].position < folders'[h].position \/ f < h
      BY <2>6, <2>7 DEF Files!Before
    <2>9. Cardinality(Files!Of(o)) < folders[h].position
      BY <1>1, <2>6, <2>7, <2>8
    <2>10. folders[h].position > Cardinality(Files!Of(o))
      <3>1. Cardinality(Files!Of(o)) \in Nat
        BY OwnersAreTold DEF OwnersTell
      <3> QED BY <2>6, <2>9, <3>1
    <2> QED BY <2>5, <2>10, FilesCount DEF Gaps, Files!MayLandBefore
  <1>17. Gaps'[o] => Gaps[o]
    <2>1. folders'[f].position = Cardinality(Files!Of(o)) /\ \A h \in Files!Of(o) : folders'[h] = folders[h]
      BY <1>1, <1>2
    <2> QED BY <1>1, <2>1, GapCloses
  <1>18. Gaps'[o] \in BOOLEAN
    BY DEF Gaps, Files!MayLandBefore
  <1>19. /\ Bases' = Bases
         /\ Shelves' = [Shelves EXCEPT ![o] = Files!Contract!InsertAt(s, i, f)]
         /\ Gaps' = [Gaps EXCEPT ![o] = Gaps'[o]]
    <2>1. /\ Bases' = [Bases EXCEPT ![o] = Bases'[o]]
          /\ Shelves' = [Shelves EXCEPT ![o] = Shelves'[o]]
          /\ Gaps' = [Gaps EXCEPT ![o] = Gaps'[o]]
      BY <1>1, OneOwner
    <2>2. Bases'[o] = Bases[o]
      BY <1>3 DEF Bases
    <2>3. [Bases EXCEPT ![o] = Bases[o]] = Bases
      BY DEF Bases
    <2> QED BY <1>7, <1>14, <2>1, <2>2, <2>3
  <1>20. Files!Contract!MayClose(o)
    BY <1>17, <1>18, <1>19 DEF Files!Contract!MayClose, Gaps
  <1>21. \E k \in 1 .. Len(Shelves[o]) + 1 :
            /\ Gaps[o] \/ k = Len(Shelves[o]) + 1
            /\ Shelves' = [Shelves EXCEPT ![o] = Files!Contract!InsertAt(Shelves[o], k, f)]
    BY <1>6, <1>15, <1>16, <1>19
  <1>22. \E k \in 1 .. Len(Shelves[o]) + 1 :
            /\ Gaps[o] \/ k = Len(Shelves[o]) + 1
            /\ Shelves' = [Shelves EXCEPT ![o] = Files!Contract!InsertAt(@, k, f)]
    BY <1>21
  <1> QED BY <1>1, <1>19, <1>20, <1>22 DEF Files!Contract!Create, Bases, Shelves, Gaps

\* As many as can be moved, each of them and none twice: each of them, once.
LEMMA OrdersIs ==
  ASSUME FoldersInv, NEW o \in Owners, NEW ids \in Seq(Nat)
  PROVE  Files!Orders(o, ids) <=> ToSet(ids) = Files!Movable(o) /\ IsInjective(ids)
  <1> DEFINE M == Files!Movable(o)
  <1>1. IsFiniteSet(M) /\ Cardinality(M) \in Nat
    BY OwnersAreTold DEF OwnersTell
  <1> HIDE DEF M
  <1>2. DOMAIN ids = 1..Len(ids) /\ Len(ids) \in Nat
    OBVIOUS
  <1>3. Files!Orders(o, ids) <=> /\ Len(ids) = Cardinality(M)
                                 /\ \A i \in 1..Len(ids) : ids[i] \in M /\ \A k \in 1..(i - 1) : ids[i] # ids[k]
    BY <1>2, FilesCount DEF Files!Orders, M
  <1>4. ToSet(ids) = {ids[i] : i \in 1..Len(ids)}
    BY <1>2 DEF ToSet
  <1>5. ASSUME Files!Orders(o, ids) PROVE ToSet(ids) = M /\ IsInjective(ids)
    <2>1. ASSUME NEW i \in 1..Len(ids), NEW k \in 1..Len(ids), k < i PROVE ids[i] # ids[k]
      <3>1. k \in 1..(i - 1)
        BY <2>1
      <3> QED BY <1>3, <1>5, <3>1
    <2>2. IsInjective(ids)
      <3> SUFFICES ASSUME NEW i \in 1..Len(ids), NEW k \in 1..Len(ids), ids[i] = ids[k] PROVE i = k
        BY <1>2 DEF IsInjective
      <3>1. ~(i < k) /\ ~(k < i)
        BY <2>1
      <3> QED BY <1>2, <3>1
    <2>3. ToSet(ids) \in SUBSET M
      BY <1>3, <1>4, <1>5
    <2>4. Cardinality(ToSet(ids)) = Cardinality(M)
      BY <1>3, <1>5, <2>2, DifferentLength
    <2>5. ToSet(ids) = M
      BY <1>1, <2>3, <2>4, FS_Subset
    <2> QED BY <2>2, <2>5
  <1>6. ASSUME ToSet(ids) = M, IsInjective(ids) PROVE Files!Orders(o, ids)
    <2>1. Len(ids) = Cardinality(M)
      BY <1>6, DifferentLength
    <2>2. \A i \in 1..Len(ids) : ids[i] \in M
      BY <1>4, <1>6
    <2>3. ASSUME NEW i \in 1..Len(ids), NEW k \in 1..(i - 1) PROVE ids[i] # ids[k]
      <3>1. k \in 1..Len(ids) /\ k # i
        BY <1>2
      <3> QED BY <1>2, <1>6, <3>1 DEF IsInjective
    <2> QED BY <1>3, <2>1, <2>2, <2>3
  <1> QED BY <1>5, <1>6 DEF M

LEMMA FoldersReordered ==
  ASSUME FoldersInv, NEW o \in Owners, NEW ids \in Seq(Nat), Files!Reorder(o, ids)
  PROVE  /\ FoldersInv' /\ folderTold'.call = "Reorder" /\ folderTold'.on = <<o, ids>>
         /\ Files!Contract!Reorder(o, ids)
  <1>1. /\ Files!Contract!ToSet(ids) = ToSet(ids) /\ Files!ToSet(ids) = ToSet(ids)
        /\ Files!Contract!IsInjective(ids) <=> IsInjective(ids)
        /\ Files!Contract!Ordered(o) = Files!Movable(o)
    BY FilesLists, FoldersAreTold DEF FoldersTell
  <1>2. CASE ~Files!Orders(o, ids) /\ Files!FolderTells("Reorder", <<o, ids>>, "refused", {})
    <2>1. ToSet(ids) # Files!Movable(o) \/ ~IsInjective(ids)
      BY <1>2, OrdersIs
    <2>2. /\ Files!Contract!FolderSays("Reorder", <<o, ids>>, "refused", {}) /\ FoldersInv'
          /\ folderTold'.call = "Reorder" /\ folderTold'.on = <<o, ids>>
      BY <1>2, FolderAnswered
    <2> QED BY <1>1, <2>1, <2>2 DEF Files!Contract!Reorder
  <1>3. CASE /\ Files!Orders(o, ids)
             /\ folders' = [f \in DOMAIN folders |->
                               IF f \in Files!ToSet(ids)
                               THEN [folders[f] EXCEPT !.position = CHOOSE i \in DOMAIN ids : ids[i] = f]
                               ELSE folders[f]]
             /\ folderTold' = Files!Answer("Reorder", <<o, ids>>, "done", {})
             /\ UNCHANGED nextFolder
    <2>1. ToSet(ids) = Files!Movable(o) /\ IsInjective(ids)
      BY <1>3, OrdersIs
    <2>2. DOMAIN ids = 1..Len(ids) /\ Len(ids) \in Nat
      OBVIOUS
    <2>3. ToSet(ids) \subseteq Files!Of(o) /\ Files!Of(o) \subseteq DOMAIN folders
      BY <2>1 DEF Files!Movable, Files!Of
    <2>4. DOMAIN folders' = DOMAIN folders
      BY <1>3
    <2>5. \A h \in DOMAIN folders : h \notin ToSet(ids) => folders'[h] = folders[h]
      BY <1>1, <1>3
    <2>6. ASSUME NEW i \in 1..Len(ids)
          PROVE  folders'[ids[i]] = [owner |-> o, main |-> FALSE, position |-> i]
      <3>1. ids[i] \in ToSet(ids)
        BY <2>2 DEF ToSet
      <3>2. (CHOOSE k \in DOMAIN ids : ids[k] = ids[i]) = i
        BY <2>1, <2>2 DEF IsInjective
      <3>3. folders'[ids[i]] = [folders[ids[i]] EXCEPT !.position = i]
        BY <1>1, <1>3, <2>3, <3>1, <3>2
      <3>4. folders[ids[i]] \in Folder /\ folders[ids[i]].owner = o /\ folders[ids[i]].main = FALSE
        <4>1. ids[i] \in Files!Movable(o) /\ ids[i] \in DOMAIN folders
          BY <2>1, <2>3, <3>1
        <4>2. ~folders[ids[i]].main
          BY <4>1, OwnersAreTold DEF OwnersTell
        <4>3. folders[ids[i]].owner = o
          BY <2>3, <3>1 DEF Files!Of
        <4> QED BY <4>1, <4>2, <4>3, FolderIsRead
      <3> QED BY <3>3, <3>4 DEF Folder
    <2>7. ASSUME NEW i \in 1..Len(ids)
           PROVE  /\ folders'[ids[i]].owner = o /\ folders'[ids[i]].main = FALSE
                  /\ folders'[ids[i]].position = i /\ folders'[ids[i]] \in Folder
      <3>1. folders'[ids[i]] = [owner |-> o, main |-> FALSE, position |-> i] /\ i \in Nat
        BY <2>6
      <3>2. PICK r : r = folders'[ids[i]] /\ r = [owner |-> o, main |-> FALSE, position |-> i]
        BY <3>1
      <3>3. r.owner = o /\ r.main = FALSE /\ r.position = i /\ r \in Folder
        BY <3>1, <3>2 DEF Folder
      <3> QED BY <3>2, <3>3
    <2>8. \A f \in ToSet(ids) : \E i \in 1..Len(ids) : f = ids[i]
      BY <2>2 DEF ToSet
    <2>9. ASSUME NEW f \in DOMAIN folders
          PROVE  /\ folders'[f].owner = folders[f].owner /\ folders'[f].main = folders[f].main
                 /\ folders'[f] \in Folder
      <3>1. CASE f \in ToSet(ids)
        <4>1. PICK i \in 1..Len(ids) : f = ids[i]
          BY <2>8, <3>1
        <4>2. folders'[f].owner = o /\ folders'[f].main = FALSE /\ folders'[f] \in Folder
          BY <2>7, <4>1
        <4>3. folders[f].owner = o /\ folders[f].main = FALSE
          <5>1. ~folders[f].main
            BY <2>1, <3>1, OwnersAreTold DEF OwnersTell
          <5> QED BY <2>3, <3>1, <5>1, FolderIsRead DEF Files!Of
        <4> QED BY <4>2, <4>3
      <3>2. CASE f \notin ToSet(ids)
        BY <2>5, <3>2, FolderIsRead
      <3> QED BY <3>1, <3>2
    <2>10. \A u \in Owners : Files!Of(u)' = Files!Of(u) /\ Files!DefaultOf(u)' = Files!DefaultOf(u)
      BY <2>4, <2>9 DEF Files!Of, Files!DefaultOf
    <2>11. FoldersInv'
      <3>1. folders' \in [DOMAIN folders' -> Folder]
        BY <1>3, <2>4, <2>9
      <3> QED BY <1>3, <2>4, <2>10, <3>1 DEF FoldersInv
    <2>12. ASSUME NEW u \in Owners, u # o PROVE Alike(u)
      <3>1. \A f \in Files!Of(u) : f \in DOMAIN folders /\ f \notin ToSet(ids)
        BY <2>3, <2>12 DEF Files!Of
      <3> QED BY <2>5, <2>10, <3>1 DEF Alike
    <2>13. Files!Movable(o)' = Files!Movable(o)
      BY <2>10 DEF Files!Movable
    <2>14. Ascending(ids, Standing')
      <3> SUFFICES ASSUME NEW i \in 1..Len(ids), NEW j \in 1..Len(ids), i < j
                   PROVE  <<ids[i], ids[j]>> \in Standing'
        BY DEF Ascending
      <3>1. /\ folders'[ids[i]].main = FALSE /\ folders'[ids[j]].main = FALSE
            /\ folders'[ids[i]].position = i /\ folders'[ids[j]].position = j
        BY <2>7
      <3>2. ids[i] \in DOMAIN folders' /\ ids[j] \in DOMAIN folders'
        <4>1. ids[i] \in ToSet(ids) /\ ids[j] \in ToSet(ids)
          BY DEF ToSet
        <4> QED BY <2>3, <2>4, <4>1
      <3>3. Files!Before(ids[i], ids[j])'
        BY <3>1 DEF Files!Before
      <3>4. ids[i] \in Nat /\ ids[j] \in Nat
        OBVIOUS
      <3> QED BY <3>2, <3>3, <3>4 DEF Standing
    <2>15. Shelves'[o] = ids
      <3>1. ShelvesTell'
        BY <2>11, ShelvesAreTold, PTL
      <3> QED BY <2>1, <2>13, <2>14, <3>1 DEF ShelvesTell
    <2>16. Gaps'[o] = FALSE
      <3> SUFFICES ASSUME NEW f \in Files!Movable(o)', folders'[f].position > Cardinality(Files!Of(o)')
                   PROVE  FALSE
        BY FilesCount DEF Gaps, Files!MayLandBefore
      <3>1. PICK i \in 1..Len(ids) : f = ids[i]
        BY <2>1, <2>8, <2>13
      <3>2. folders'[f].position = i
        BY <2>7, <3>1
      <3>3. Len(ids) = Cardinality(Files!Movable(o))
        BY <2>1, DifferentLength
      <3>4. Cardinality(Files!Movable(o)) <= Cardinality(Files!Of(o)) /\ Cardinality(Files!Of(o)) \in Nat
        BY OwnersAreTold DEF OwnersTell
      <3>5. i <= Cardinality(Files!Of(o)) /\ i \in Nat
        BY <2>2, <3>3, <3>4
      <3>6. Cardinality(Files!Of(o)') = Cardinality(Files!Of(o))
        BY <2>10
      <3> QED BY <3>2, <3>4, <3>5, <3>6
    <2>17. /\ Bases' = Bases
           /\ Shelves' = [Shelves EXCEPT ![o] = ids]
           /\ Gaps' = [Gaps EXCEPT ![o] = FALSE]
      <3>1. /\ Bases' = [Bases EXCEPT ![o] = Bases'[o]]
            /\ Shelves' = [Shelves EXCEPT ![o] = Shelves'[o]]
            /\ Gaps' = [Gaps EXCEPT ![o] = Gaps'[o]]
        BY <2>11, <2>12, OneOwner
      <3>2. Bases'[o] = Bases[o]
        <4>1. Files!DefaultOf(o)' = Files!DefaultOf(o)
          BY <2>10
        <4> QED BY <4>1 DEF Bases
      <3>3. [Bases EXCEPT ![o] = Bases[o]] = Bases
        BY DEF Bases
      <3> QED BY <2>15, <2>16, <3>1, <3>2, <3>3
    <2>18. /\ folderTold' = Files!Contract!Answer("Reorder", <<o, ids>>, "done", {})
           /\ folderTold'.call = "Reorder" /\ folderTold'.on = <<o, ids>>
      BY <1>3 DEF Files!Answer, Files!Contract!Answer
    <2> QED BY <1>1, <2>1, <2>11, <2>17, <2>18 DEF Files!Contract!Reorder, Bases, Shelves, Gaps
  <1> QED BY <1>2, <1>3 DEF Files!Reorder

LEMMA FolderDeleted ==
  ASSUME FoldersInv, NEW f, Files!DeleteFolder(f)
  PROVE  /\ FoldersInv' /\ folderTold'.call = "DeleteFolder" /\ folderTold'.on = <<f>>
         /\ Files!Contract!DeleteFolder(f)
  <1>1. CASE f \notin DOMAIN folders /\ Files!FolderTells("DeleteFolder", <<f>>, "missing", {})
    <2>1. f \notin Files!Contract!Shelved \cup Files!Contract!Defaults
      BY <1>1, FoldersAreTold DEF FoldersTell
    <2> QED BY <1>1, <2>1, FolderAnswered DEF Files!Contract!DeleteFolder
  <1>2. CASE /\ f \in DOMAIN folders /\ folders[f].main
             /\ Files!FolderTells("DeleteFolder", <<f>>, "refused", {})
    <2>1. f \in Files!Contract!Defaults
      BY <1>2, FoldersAreTold DEF FoldersTell
    <2> QED BY <1>2, <2>1, FolderAnswered DEF Files!Contract!DeleteFolder
  <1>3. CASE /\ f \in DOMAIN folders /\ ~folders[f].main
             /\ folders' = [h \in DOMAIN folders \ {f} |-> folders[h]]
             /\ folderTold' = Files!Answer("DeleteFolder", <<f>>, "done", {})
             /\ UNCHANGED nextFolder
    <2>1. PICK o \in Owners : o = folders[f].owner /\ f \in Files!Of(o)
      BY <1>3, FolderIsRead DEF Files!Of
    <2>2. DOMAIN folders' = DOMAIN folders \ {f} /\ \A h \in DOMAIN folders' : folders'[h] = folders[h]
      BY <1>3
    <2>3. f \in Files!Movable(o)
      BY <1>3, <2>1 DEF Files!Movable, Files!DefaultOf
    <2>4. Files!Of(o)' = Files!Of(o) \ {f}
      BY <2>2 DEF Files!Of
    <2>5. \A u \in Owners : Files!DefaultOf(u)' = Files!DefaultOf(u)
      BY <1>3, <2>2 DEF Files!DefaultOf, Files!Of
    <2>6. Files!Movable(o)' = Files!Movable(o) \ {f}
      BY <2>4, <2>5 DEF Files!Movable
    <2>7. ASSUME NEW u \in Owners, u # o PROVE Alike(u)
      BY <2>1, <2>2, <2>7 DEF Alike, Files!Of
    <2>8. FoldersInv'
      <3>1. folders' \in [DOMAIN folders' -> Folder]
        BY <1>3, <2>2 DEF FoldersInv
      <3>2. DOMAIN folders' \subseteq 1..nextFolder'
        BY <1>3, <2>2 DEF FoldersInv
      <3> QED BY <1>3, <2>5, <3>1, <3>2 DEF FoldersInv
    <2>9. ShelvesTell /\ ShelvesTell'
      BY <2>8, ShelvesAreTold, PTL
    <2>10. PICK s \in Seq(Nat) : s = Shelves[o] /\ ToSet(s) = Files!Movable(o) /\ Ascending(s, Standing)
      BY <2>9 DEF ShelvesTell
    <2>11. PICK k \in Seq(Nat) : k = Only(s, ToSet(s) \ {f}) /\ ToSet(k) = Files!Movable(o) \ {f}
      <3>1. /\ Only(s, ToSet(s) \ {f}) \in Seq(Nat)
            /\ ToSet(Only(s, ToSet(s) \ {f})) = ToSet(s) \cap (ToSet(s) \ {f})
        BY OnlyKeeps DEF Kept
      <3>2. ToSet(s) \cap (ToSet(s) \ {f}) = Files!Movable(o) \ {f}
        BY <2>10
      <3> QED BY <3>1, <3>2
    <2>12. Ascending(k, Standing')
      <3>1. Ascending(k, Standing)
        BY <2>10, <2>11, OnlyAscends
      <3> SUFFICES ASSUME NEW i \in 1..Len(k), NEW j \in 1..Len(k), i < j PROVE <<k[i], k[j]>> \in Standing'
        BY DEF Ascending
      <3>2. <<k[i], k[j]>> \in Standing
        BY <3>1 DEF Ascending
      <3>3. k[i] \in ToSet(k) /\ k[j] \in ToSet(k)
        BY DEF ToSet
      <3>4. /\ k[i] \in DOMAIN folders /\ k[i] \in DOMAIN folders'
            /\ k[j] \in DOMAIN folders /\ k[j] \in DOMAIN folders'
        BY <2>2, <2>11, <3>3 DEF Files!Movable, Files!Of
      <3> QED BY <2>2, <3>2, <3>4, StandingStays
    <2>13. Shelves'[o] = k
      BY <2>6, <2>9, <2>11, <2>12 DEF ShelvesTell
    <2>14. /\ Bases' = Bases
           /\ Shelves' = [Shelves EXCEPT ![o] = k]
           /\ Gaps' = [Gaps EXCEPT ![o] = Gaps'[o]]
      <3>1. /\ Bases' = [Bases EXCEPT ![o] = Bases'[o]]
            /\ Shelves' = [Shelves EXCEPT ![o] = Shelves'[o]]
            /\ Gaps' = [Gaps EXCEPT ![o] = Gaps'[o]]
        BY <2>7, <2>8, OneOwner
      <3>2. Bases'[o] = Bases[o]
        <4>1. Files!DefaultOf(o)' = Files!DefaultOf(o)
          BY <2>5
        <4> QED BY <4>1 DEF Bases
      <3>3. [Bases EXCEPT ![o] = Bases[o]] = Bases
        BY DEF Bases
      <3> QED BY <2>13, <3>1, <3>2, <3>3
    <2>15. Gaps'[o] \in BOOLEAN
      BY DEF Gaps, Files!MayLandBefore
    <2>16. k = Files!Contract!Only(Shelves[o], Files!Contract!ToSet(Shelves[o]) \ {f})
      BY <2>10, <2>11, FilesLists
    <2>17. f \in Files!Contract!Ordered(o)
      BY <2>3, FoldersAreTold DEF FoldersTell
    <2>18. /\ folderTold' = Files!Contract!Answer("DeleteFolder", <<f>>, "done", {})
           /\ folderTold'.call = "DeleteFolder" /\ folderTold'.on = <<f>>
      BY <1>3 DEF Files!Answer, Files!Contract!Answer
    <2>19. Shelves' = [Shelves EXCEPT ![o] = Files!Contract!Only(@, Files!Contract!ToSet(@) \ {f})]
      BY <2>14, <2>16
    <2> QED BY <2>8, <2>14, <2>15, <2>17, <2>18, <2>19
          DEF Files!Contract!DeleteFolder, Bases, Shelves, Gaps
  <1> QED BY <1>1, <1>2, <1>3 DEF Files!DeleteFolder

LEMMA FoldersImplement ==
  FoldersInv /\ [Files!FoldersNext]_foldersKept =>
      FoldersInv' /\ [Files!Contract!FoldersNext]_(Files!Contract!folderVars)
  <1> SUFFICES ASSUME FoldersInv, [Files!FoldersNext]_foldersKept
               PROVE  FoldersInv' /\ [Files!Contract!FoldersNext]_(Files!Contract!folderVars)
    OBVIOUS
  <1>1. CASE UNCHANGED foldersKept
    <2>1. FoldersInv' /\ UNCHANGED <<Bases, Shelves, Gaps>> /\ UNCHANGED folderTold
      BY <1>1, FoldersStand DEF foldersKept
    <2> QED BY <2>1 DEF Files!Contract!folderVars, Bases, Shelves, Gaps
  <1>2. ASSUME NEW o \in Owners, Files!EnsureDefault(o)
        PROVE  FoldersInv' /\ Files!Contract!FoldersNext
    <2>1. /\ FoldersInv' /\ folderTold'.call = "EnsureDefault" /\ folderTold'.on = <<o>>
          /\ Files!Contract!EnsureDefault(o)
      BY <1>2, FolderEnsured
    <2> QED BY <2>1 DEF Files!Contract!FoldersNext
  <1>3. ASSUME NEW o \in Owners, Files!CreateFolder(o)
        PROVE  FoldersInv' /\ Files!Contract!FoldersNext
    <2>1. /\ FoldersInv' /\ folderTold'.call = "Create" /\ folderTold'.on = <<o>>
          /\ Files!Contract!Create(o)
      BY <1>3, FolderCreated
    <2> QED BY <2>1 DEF Files!Contract!FoldersNext
  <1>4. ASSUME NEW o \in Owners, Files!ListFolders(o)
        PROVE  FoldersInv' /\ Files!Contract!FoldersNext
    <2>1. /\ FoldersInv' /\ folderTold'.call = "List" /\ folderTold'.on = <<o>>
          /\ Files!Contract!List(o)
      BY <1>4, FoldersRead
    <2> QED BY <2>1 DEF Files!Contract!FoldersNext
  <1>5. ASSUME NEW o \in Owners, NEW ids \in Files!SeqOf(Files!FolderIds, 2), Files!Reorder(o, ids)
        PROVE  FoldersInv' /\ Files!Contract!FoldersNext
    <2>1. ids \in Seq(Nat)
      <3>1. PICK m \in 0..2 : ids \in [1..m -> Files!FolderIds]
        BY DEF Files!SeqOf
      <3>2. Files!FolderIds \subseteq Nat /\ m \in Nat
        BY DEF Files!FolderIds
      <3>3. ids \in [1..m -> Nat]
        BY <3>1, <3>2
      <3> QED BY <3>2, <3>3
    <2>2. /\ FoldersInv' /\ folderTold'.call = "Reorder" /\ folderTold'.on = <<o, ids>>
          /\ Files!Contract!Reorder(o, ids)
      BY <1>5, <2>1, FoldersReordered
    <2>3. folderTold'.on[2] = ids
      BY <2>2
    <2> QED BY <2>2, <2>3 DEF Files!Contract!FoldersNext
  <1>6. ASSUME NEW f \in Files!FolderIds, Files!GetFolder(f)
        PROVE  FoldersInv' /\ Files!Contract!FoldersNext
    <2>1. /\ FoldersInv' /\ folderTold'.call = "Get" /\ folderTold'.on = <<f>>
          /\ Files!Contract!Get(f)
      BY <1>6, FoldersRead
    <2> QED BY <2>1 DEF Files!Contract!FoldersNext
  <1>7. ASSUME NEW f \in Files!FolderIds, Files!DeleteFolder(f)
        PROVE  FoldersInv' /\ Files!Contract!FoldersNext
    <2>1. /\ FoldersInv' /\ folderTold'.call = "DeleteFolder" /\ folderTold'.on = <<f>>
          /\ Files!Contract!DeleteFolder(f)
      BY <1>7, FolderDeleted
    <2> QED BY <2>1 DEF Files!Contract!FoldersNext
  <1> QED BY <1>1, <1>2, <1>3, <1>4, <1>5, <1>6, <1>7 DEF Files!FoldersNext

\* The store of folders in memory (FolderRepository, memory/folder.go).
FoldersInMemory == Files!FoldersBegin /\ [][Files!FoldersNext]_foldersKept

\* The store of folders in memory keeps the contract of its port, whatever is
\* called: one default folder for an owner and it is listed first; the others
\* in the order last asked for; a folder made lands last unless a deletion left
\* a gap, although positions are counts and never closed up.
THEOREM FoldersKeepContract == FoldersInMemory => Files!Contract!FoldersSpec
  <1>1. Files!FoldersBegin => FoldersInv
    BY DEF Files!FoldersBegin, FoldersInv, Files!DefaultOf, Files!Of
  <1>2. Files!FoldersBegin => Files!Contract!FoldersInit
    <2> SUFFICES ASSUME Files!FoldersBegin PROVE Files!Contract!FoldersInit
      OBVIOUS
    <2>1. FoldersInv
      BY <1>1
    <2>2. ASSUME NEW o \in Owners
          PROVE  Bases[o] = Absent /\ Shelves[o] = <<>> /\ Gaps[o] = FALSE
      <3>1. Files!Of(o) = {} /\ Files!DefaultOf(o) = {} /\ Files!Movable(o) = {}
        BY DEF Files!FoldersBegin, Files!DefaultOf, Files!Of, Files!Movable
      <3>2. Shelves[o] \in Seq(Nat) /\ ToSet(Shelves[o]) = {}
        BY <2>1, <3>1, ShelvesAreTold DEF ShelvesTell
      <3>3. Shelves[o] = <<>>
        <4>1. PICK s \in Seq(Nat) : s = Shelves[o] /\ ToSet(s) = {}
          BY <3>2
        <4>2. \A i \in 1..Len(s) : s[i] \in ToSet(s)
          BY DEF ToSet
        <4>3. ~(1 \in 1..Len(s))
          BY <4>1, <4>2
        <4>4. Len(s) = 0
          BY <4>3
        <4> QED BY <4>1, <4>4
      <3>4. Bases[o] = Absent
        BY <3>1 DEF Bases
      <3>5. Gaps[o] = FALSE
        BY <3>1 DEF Gaps, Files!MayLandBefore
      <3> QED BY <3>3, <3>4, <3>5
    <2>3. /\ Bases = [o \in Owners |-> Bases[o]] /\ Shelves = [o \in Owners |-> Shelves[o]]
          /\ Gaps = [o \in Owners |-> Gaps[o]]
      BY DEF Bases, Shelves, Gaps
    <2>4. Bases = [o \in Owners |-> Absent]
      BY <2>2, <2>3
    <2>5. Shelves = [o \in Owners |-> <<>>]
      BY <2>2, <2>3
    <2>6. Gaps = [o \in Owners |-> FALSE]
      BY <2>2, <2>3
    <2>7. folderTold = Files!Contract!Answer("none", <<Absent>>, "done", {})
      BY DEF Files!FoldersBegin, Files!Answer, Files!Contract!Answer
    <2> QED BY <2>4, <2>5, <2>6, <2>7 DEF Files!Contract!FoldersInit, Bases, Shelves, Gaps
  <1> QED BY <1>1, <1>2, FoldersImplement, PTL DEF FoldersInMemory, Files!Contract!FoldersSpec

-----------------------------------------------------------------------------
(* All the stores together.                                                *)

LEMMA StoresParts ==
  StoresSpec => /\ MemorySpec /\ GroupsInMemory /\ PoolsInMemory /\ GamesInMemory
                /\ FoldersInMemory /\ SheetsInMemory /\ PacksInMemory
  <1>1. StoresInit => /\ MemoryInit
                      /\ Tables!GroupsBegin /\ Tables!PoolsBegin /\ Tables!GamesBegin
                      /\ Files!FoldersBegin /\ Files!SheetsBegin /\ Files!PacksBegin
    BY DEF StoresInit
  <1>2. [StoresNext]_storesKept =>
          /\ [MemoryNext]_memoryVars
          /\ [Tables!GroupsNext]_groupsKept
          /\ [Tables!PoolsNext]_poolsKept
          /\ [Tables!GamesNext]_gamesKept
          /\ [Files!FoldersNext]_foldersKept
          /\ [Files!SheetsNext]_sheetsKept
          /\ [Files!PacksNext]_packsKept
    BY DEF StoresNext, storesKept, tablesKept, filesKept, GroupsStep, PoolsStep, GamesStep,
           FoldersStep, SheetsStep, PacksStep
  <1> QED BY <1>1, <1>2, PTL DEF StoresSpec, MemorySpec, GroupsInMemory, PoolsInMemory,
             GamesInMemory, FoldersInMemory, SheetsInMemory, PacksInMemory

\* The stores in memory keep the contracts of all their ports, side by side, for
\* every set of accounts, groups, folders, characters and packs.
THEOREM StoresKeepContract == StoresSpec => StoresInMemory
  <1>1. StoresSpec => UsersInMemory
    BY StoresParts, MemoryKeepsContract, PTL
  <1>2. StoresSpec => Tables!TablesInMemory
    BY StoresParts, GroupsKeepContract, PoolsKeepContract, GamesKeepContract, PTL
       DEF Tables!TablesInMemory, Tables!Contract!Spec
  <1>3. StoresSpec => Files!FilesInMemory
    BY StoresParts, FoldersKeepContract, SheetsKeepContract, PacksKeepContract, PTL
       DEF Files!FilesInMemory, Files!Contract!Spec
  <1> QED BY <1>1, <1>2, <1>3, PTL DEF StoresInMemory
=============================================================================
