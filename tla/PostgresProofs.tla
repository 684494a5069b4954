--------------------------- MODULE PostgresProofs ---------------------------
(***************************************************************************)
(* The account store in PostgreSQL implements the contract, for any        *)
(* accounts, proofs, values and number of requests at once.  The invariant *)
(* is what the database's locks give a transaction: what it found when it  *)
(* wrote a row is still so when it commits.                                *)
(***************************************************************************)
EXTENDS PostgresUsers, TLAPS

\* What a transaction is, by its method.
SoundTx(r) ==
    /\ r.op = "none" => r.at = "idle"
    /\ r.op \in Writers =>
          r.at \in {"account", "rows"} /\ r.id \in Ids /\ r.wrote \subseteq r.on
    /\ r.op \in Writers /\ r.at = "account" => r.wrote = {}
    /\ r.op \in {"AddIdentity", "RemoveIdentity"} => \E p \in Subjects : r.on = {p}
    /\ r.op \in {"Touch", "ByProof"} => \E p \in Proofs : r.on = {p}
    /\ r.op = "ByProof" /\ r.at = "account" => r.id = Absent
    /\ r.op = "ByID" => r.on = {} /\ r.id \in Ids
    /\ r.op = "Create" => r.new \in Row
    /\ r.op \in {"Create", "AddIdentity"} => r.mark = Fresh

\* What its rows in flight keep so until it ends.
Kept(r) ==
    /\ r.op = "Create" /\ r.at = "rows" => ~Stored(r.id)
    /\ r.op \in {"Create", "AddIdentity"} => \A p \in r.wrote : ways[p] = Free
    /\ r.op = "AddIdentity" /\ r.wrote # {} => Stored(r.id)
    /\ r.op \in {"Touch", "RemoveIdentity"} => r.wrote \subseteq HeldBy(r.id)

\* Two transactions have no row in common.
Apart(r, s) ==
    /\ r.op \in Writers /\ s.op \in Writers => r.wrote \cap s.wrote = {}
    /\ ~(/\ r.op = "Create" /\ r.at = "rows"
         /\ s.op = "Create" /\ s.at = "rows" /\ r.id = s.id)

\* Every proof's row names an account's row (the foreign keys).
Referential == \A p \in Proofs : ways[p] # Free => Stored(ways[p].by)

PostgresInv ==
    /\ PostgresTypeOK
    /\ Referential
    /\ \A q \in Calls : SoundTx(tx[q]) /\ Kept(tx[q])
    /\ \A q, o \in Calls : q # o => Apart(tx[q], tx[o])

-----------------------------------------------------------------------------
(* The transactions.                                                       *)

LEMMA NoTxSound ==
  /\ NoTx \in Tx /\ SoundTx(NoTx) /\ Kept(NoTx)
  /\ \A s : Apart(NoTx, s)
  BY UserAssumption DEF NoTx, Tx, SoundTx, Kept, Apart, Writers

LEMMA PutKeeps ==
  ASSUME PostgresInv, NEW q \in Calls, NEW r \in Tx, SoundTx(r), Kept(r),
         \A o \in Calls \ {q} : Apart(r, tx[o]), Put(q, r), UNCHANGED <<users, ways>>
  PROVE  PostgresInv'
  <1>1. /\ tx' \in [Calls -> Tx] /\ tx'[q] = r
        /\ \A o \in Calls : o # q => tx'[o] = tx[o]
    BY DEF PostgresInv, PostgresTypeOK, Put
  <1>2. PostgresTypeOK' /\ Referential'
    BY <1>1 DEF PostgresInv, PostgresTypeOK, Referential, Stored
  <1>3. \A o \in Calls : SoundTx(tx'[o]) /\ Kept(tx[o])' /\ SoundTx(tx[o])'
    <2>1. ASSUME NEW o \in Calls PROVE SoundTx(tx'[o]) /\ Kept(tx'[o])
      BY <1>1 DEF PostgresInv
    <2>2. ASSUME NEW o \in Calls PROVE Kept(tx[o])' /\ SoundTx(tx[o])'
      BY <2>1 DEF Kept, Stored, HeldBy, SoundTx
    <2> QED BY <2>1, <2>2
  <1>4. ASSUME NEW o \in Calls, NEW p \in Calls, o # p PROVE Apart(tx'[o], tx'[p])
    <2>1. Apart(tx[o], tx[p]) /\ (o # q => Apart(r, tx[o])) /\ (p # q => Apart(r, tx[p]))
      BY <1>4 DEF PostgresInv
    <2> QED BY <2>1, <1>1, <1>4 DEF Apart
  <1>5. \A o, p \in Calls : o # p => Apart(tx[o], tx[p])'
    BY <1>4 DEF Apart
  <1> QED BY <1>2, <1>3, <1>5 DEF PostgresInv

LEMMA EndsKeeps ==
  ASSUME PostgresInv, NEW q \in Calls, Put(q, NoTx), UNCHANGED <<users, ways>>
  PROVE  PostgresInv'
  BY NoTxSound, PutKeeps

LEMMA BeginKeeps ==
  ASSUME PostgresInv, NEW q \in Calls, Begin(q)
  PROVE  PostgresInv'
  <1>1. PICK r \in Tx : Put(q, r) /\ SoundTx(r) /\ r.at = "account" /\ r.wrote = {}
    <2>1. ASSUME NEW a \in Ids, NEW n \in Names, NEW ps \in SUBSET Proofs,
                 Put(q, Asked("Create", a, ps, Plain(n), Fresh))
          PROVE  \E r \in Tx : Put(q, r) /\ SoundTx(r) /\ r.at = "account" /\ r.wrote = {}
      <3>1. Plain(n) \in Row
        BY UserAssumption DEF Plain, Row
      <3> QED BY <2>1, <3>1, UserAssumption DEF Asked, Tx, SoundTx, Writers
    <2>2. ASSUME NEW a \in Ids, NEW p \in Subjects, NEW op \in {"AddIdentity", "RemoveIdentity"},
                 Put(q, Asked(op, a, {p}, Absent, Fresh))
          PROVE  \E r \in Tx : Put(q, r) /\ SoundTx(r) /\ r.at = "account" /\ r.wrote = {}
      BY <2>2, UserAssumption DEF Asked, Tx, SoundTx, Writers, Proofs
    <2>3. ASSUME NEW a \in Ids, NEW p \in Proofs, NEW m \in Marks,
                 Put(q, Asked("Touch", a, {p}, Absent, m))
          PROVE  \E r \in Tx : Put(q, r) /\ SoundTx(r) /\ r.at = "account" /\ r.wrote = {}
      BY <2>3 DEF Asked, Tx, SoundTx, Writers
    <2>4. ASSUME NEW p \in Proofs, Put(q, Asked("ByProof", Absent, {p}, Absent, Fresh))
          PROVE  \E r \in Tx : Put(q, r) /\ SoundTx(r) /\ r.at = "account" /\ r.wrote = {}
      BY <2>4, UserAssumption DEF Asked, Tx, SoundTx, Writers, Loads
    <2>5. ASSUME NEW a \in Ids, Put(q, Asked("ByID", a, {}, Absent, Fresh))
          PROVE  \E r \in Tx : Put(q, r) /\ SoundTx(r) /\ r.at = "account" /\ r.wrote = {}
      BY <2>5, UserAssumption DEF Asked, Tx, SoundTx, Writers, Loads
    <2> QED BY <2>1, <2>2, <2>3, <2>4, <2>5 DEF Begin
  <1>2. Kept(r) /\ \A o \in Calls \ {q} : Apart(r, tx[o])
    BY <1>1 DEF Kept, Apart
  <1> QED BY <1>1, <1>2, PutKeeps DEF Begin

LEMMA InsertAccountKeeps ==
  ASSUME PostgresInv, NEW q \in Calls, InsertAccount(q)
  PROVE  PostgresInv'
  <1>1. CASE Put(q, NoTx)
    BY <1>1, EndsKeeps DEF InsertAccount
  <1>2. CASE ~Stored(tx[q].id) /\ GoesOn(q, "rows")
    <2> DEFINE r == [tx[q] EXCEPT !.at = "rows"]
    <2>1. tx[q] \in Tx /\ SoundTx(tx[q]) /\ Kept(tx[q])
          /\ tx[q].op = "Create" /\ tx[q].at = "account"
          /\ \A o \in Calls \ {q} : ~Inserting(o, tx[q].id)
      BY DEF PostgresInv, PostgresTypeOK, InsertAccount
    <2>2. r \in Tx /\ r.op = "Create" /\ r.at = "rows" /\ r.id = tx[q].id /\ r.on = tx[q].on
          /\ r.new = tx[q].new /\ r.mark = tx[q].mark /\ r.wrote = {}
      BY <2>1 DEF Tx, SoundTx, Writers
    <2>3. Put(q, r) /\ UNCHANGED <<users, ways>>
      BY <1>2 DEF GoesOn, InsertAccount
    <2> HIDE DEF r
    <2>4. SoundTx(r) /\ Kept(r)
      BY <2>1, <2>2, <1>2 DEF SoundTx, Kept, Writers
    <2>5. \A o \in Calls \ {q} : Apart(r, tx[o])
      BY <2>1, <2>2 DEF Apart, Inserting
    <2> QED BY <2>2, <2>3, <2>4, <2>5, PutKeeps
  <1> QED BY <1>1, <1>2 DEF InsertAccount, Ends

LEMMA RequireAccountKeeps ==
  ASSUME PostgresInv, NEW q \in Calls, RequireAccount(q)
  PROVE  PostgresInv'
  <1>1. CASE Put(q, NoTx)
    BY <1>1, EndsKeeps DEF RequireAccount
  <1>2. CASE GoesOn(q, "rows")
    <2> DEFINE r == [tx[q] EXCEPT !.at = "rows"]
    <2>1. tx[q] \in Tx /\ SoundTx(tx[q]) /\ tx[q].at = "account"
          /\ tx[q].op \in Writers \ {"Create"}
      BY DEF PostgresInv, PostgresTypeOK, RequireAccount
    <2>2. r \in Tx /\ r.op = tx[q].op /\ r.at = "rows" /\ r.id = tx[q].id /\ r.on = tx[q].on
          /\ r.new = tx[q].new /\ r.mark = tx[q].mark /\ r.wrote = {}
      BY <2>1 DEF Tx, SoundTx, Writers
    <2>3. Put(q, r) /\ UNCHANGED <<users, ways>>
      BY <1>2 DEF GoesOn, RequireAccount
    <2> HIDE DEF r
    <2>4. SoundTx(r) /\ Kept(r)
      BY <2>1, <2>2 DEF SoundTx, Kept, Writers
    <2>5. \A o \in Calls \ {q} : Apart(r, tx[o])
      BY <2>1, <2>2 DEF Apart
    <2> QED BY <2>2, <2>3, <2>4, <2>5, PutKeeps
  <1> QED BY <1>1, <1>2 DEF RequireAccount, Ends

\* A row is written that nobody else has in flight.
LEMMA WritesKeeps ==
  ASSUME PostgresInv, NEW q \in Calls, NEW p \in Proofs, Writes(q, p), UNCHANGED <<users, ways>>,
         tx[q].op \in Writers, tx[q].at = "rows", p \in tx[q].on,
         \A o \in Calls \ {q} : ~Locking(o, p),
         tx[q].op \in {"Create", "AddIdentity"} => ways[p] = Free,
         tx[q].op = "AddIdentity" => Stored(tx[q].id),
         tx[q].op \in {"Touch", "RemoveIdentity"} => p \in HeldBy(tx[q].id)
  PROVE  PostgresInv'
  <1> DEFINE r == [tx[q] EXCEPT !.wrote = tx[q].wrote \cup {p}]
  <1>1. tx[q] \in Tx /\ SoundTx(tx[q]) /\ Kept(tx[q])
        /\ \A o \in Calls \ {q} : Apart(tx[q], tx[o])
    BY DEF PostgresInv, PostgresTypeOK
  <1>2. r \in Tx /\ r.op = tx[q].op /\ r.at = "rows" /\ r.id = tx[q].id /\ r.on = tx[q].on
        /\ r.new = tx[q].new /\ r.mark = tx[q].mark /\ r.wrote = tx[q].wrote \cup {p}
    BY <1>1 DEF Tx
  <1>3. Put(q, r)
    BY DEF Writes
  <1> HIDE DEF r
  <1>4. SoundTx(r)
    BY <1>1, <1>2 DEF SoundTx, Writers
  <1>5. Kept(r)
    BY <1>1, <1>2 DEF Kept, Writers
  <1>6. \A o \in Calls \ {q} : Apart(r, tx[o])
    BY <1>1, <1>2 DEF Apart, Locking
  <1> QED BY <1>2, <1>3, <1>4, <1>5, <1>6, PutKeeps

LEMMA InsertProofKeeps ==
  ASSUME PostgresInv, NEW q \in Calls, NEW p \in Proofs, InsertProof(q, p)
  PROVE  PostgresInv'
  <1>1. CASE Put(q, NoTx)
    BY <1>1, EndsKeeps DEF InsertProof
  <1>2. CASE /\ ways[p] = Free
             /\ tx[q].op = "Create" \/ Stored(tx[q].id)
             /\ Writes(q, p)
    BY <1>2, WritesKeeps DEF InsertProof, Writers
  <1> QED BY <1>1, <1>2 DEF InsertProof, Ends

LEMMA ChangeProofKeeps ==
  ASSUME PostgresInv, NEW q \in Calls, NEW p \in Proofs, ChangeProof(q, p)
  PROVE  PostgresInv'
  <1>1. CASE Put(q, NoTx)
    BY <1>1, EndsKeeps DEF ChangeProof
  <1>2. CASE /\ p \in HeldBy(tx[q].id)
             /\ \A o \in Calls \ {q} : ~Locking(o, p)
             /\ Writes(q, p)
    BY <1>2, WritesKeeps DEF ChangeProof, Writers
  <1> QED BY <1>1, <1>2 DEF ChangeProof, Ends

LEMMA LoadKeeps ==
  ASSUME PostgresInv, NEW q \in Calls,
         LoadAccount(q) \/ LoadKeys(q) \/ LoadSubjects(q) \/ GiveBack(q)
  PROVE  PostgresInv'
  <1>0. tx[q] \in Tx /\ SoundTx(tx[q])
    BY DEF PostgresInv, PostgresTypeOK
  <1>1. CASE Put(q, NoTx)
    BY <1>1, EndsKeeps DEF LoadAccount, LoadKeys, LoadSubjects, GiveBack
  <1>2. ASSUME NEW a \in Ids, Put(q, [tx[q] EXCEPT !.at = "keys", !.id = a]),
               LoadAccount(q), Finds(q, a)
        PROVE  PostgresInv'
    <2> DEFINE r == [tx[q] EXCEPT !.at = "keys", !.id = a]
    <2>1. r \in Tx /\ r.op = tx[q].op /\ r.at = "keys" /\ r.id = a /\ r.on = tx[q].on
          /\ tx[q].op \in Loads
      BY <1>0, <1>2 DEF Tx, LoadAccount
    <2> HIDE DEF r
    <2>2. SoundTx(r) /\ Kept(r) /\ \A o \in Calls \ {q} : Apart(r, tx[o])
      BY <1>0, <2>1 DEF SoundTx, Kept, Apart, Writers, Loads
    <2>3. Put(q, r) /\ UNCHANGED <<users, ways>>
      BY <1>2 DEF LoadAccount, r
    <2> QED BY <2>1, <2>2, <2>3, PutKeeps
  <1>3. ASSUME NEW read \in SUBSET Proofs, NEW at \in {"subjects", "loaded"},
               tx[q].at \in {"keys", "subjects"},
               Put(q, [tx[q] EXCEPT !.at = at, !.wrote = read]), UNCHANGED <<users, ways>>
        PROVE  PostgresInv'
    <2> DEFINE r == [tx[q] EXCEPT !.at = at, !.wrote = read]
    <2>1. r \in Tx /\ r.op = tx[q].op /\ r.at = at /\ r.id = tx[q].id /\ r.on = tx[q].on
          /\ tx[q].op \in Loads
      BY <1>0, <1>3 DEF Tx, SoundTx, Writers, Loads
    <2> HIDE DEF r
    <2>2. SoundTx(r) /\ Kept(r) /\ \A o \in Calls \ {q} : Apart(r, tx[o])
      BY <1>0, <2>1 DEF SoundTx, Kept, Apart, Writers, Loads
    <2>3. Put(q, r)
      BY <1>3 DEF r
    <2> QED BY <1>3, <2>1, <2>2, <2>3, PutKeeps
  <1>4. CASE LoadKeys(q)
    <2>1. HeldBy(tx[q].id) \cap Keys \in SUBSET Proofs
      BY DEF HeldBy
    <2> QED BY <1>4, <2>1, <1>3 DEF LoadKeys
  <1>5. CASE LoadSubjects(q)
    <2>1. tx[q].wrote \cup (HeldBy(tx[q].id) \cap Subjects) \in SUBSET Proofs
      BY <1>0 DEF HeldBy, Tx
    <2> QED BY <1>5, <2>1, <1>3 DEF LoadSubjects
  <1>6. CASE GiveBack(q)
    BY <1>6, <1>1 DEF GiveBack
  <1> QED BY <1>1, <1>2, <1>4, <1>5, <1>6 DEF LoadAccount, Ends

\* What the others keep is not in the rows a commit makes visible.
LEMMA CommitKeeps ==
  ASSUME PostgresInv, NEW q \in Calls, Commit(q)
  PROVE  PostgresInv'
  <1> DEFINE r == tx[q]
  <1>1. /\ r \in Tx /\ SoundTx(r) /\ Kept(r) /\ r.op \in Writers /\ r.at = "rows"
        /\ r.on \subseteq r.wrote /\ r.id \in Ids /\ r.wrote \subseteq Proofs
        /\ Visible(r) /\ Put(q, NoTx)
    BY DEF PostgresInv, PostgresTypeOK, Commit, Ends, SoundTx, Tx
  <1>2. tx' \in [Calls -> Tx] /\ tx'[q] = NoTx /\ \A o \in Calls : o # q => tx'[o] = tx[o]
    BY <1>1, NoTxSound DEF PostgresInv, PostgresTypeOK, Put
  <1>3. \A o \in Calls : o # q => SoundTx(tx[o]) /\ Kept(tx[o]) /\ Apart(r, tx[o])
    BY DEF PostgresInv
  <1> HIDE DEF r
  <1>4. /\ users' \in [Ids -> Row \cup {Absent}]
        /\ \A a \in Ids : Stored(a) => users'[a] # Absent
        /\ r.op = "Create" => users'[r.id] # Absent
        /\ \A a \in Ids : (r.op = "Create" => a # r.id) => (users'[a] # Absent <=> Stored(a))
    <2>1. CASE r.op = "Create"
      <3>1. r.new \in Row /\ r.new # Absent
        BY <1>1, <2>1, UserAssumption DEF SoundTx
      <3> QED BY <1>1, <2>1, <3>1 DEF Visible, PostgresInv, PostgresTypeOK, Stored
    <2>2. CASE r.op # "Create"
      BY <1>1, <2>2 DEF Visible, PostgresInv, PostgresTypeOK, Stored
    <2> QED BY <2>1, <2>2
  <1>5. /\ ways' \in [Proofs -> [by : Ids, mark : Marks] \cup {Free}]
        /\ \A p \in Proofs : p \notin r.wrote => ways'[p] = ways[p]
        /\ \A p \in r.wrote : ways'[p] = Free \/ ways'[p] = [by |-> r.id, mark |-> r.mark]
    <2>1. r.mark \in Marks
      BY <1>1 DEF Tx
    <2> QED BY <1>1, <2>1 DEF Visible, PostgresInv, PostgresTypeOK
  <1>6. PostgresTypeOK'
    BY <1>2, <1>4, <1>5 DEF PostgresTypeOK
  <1>7. Referential'
    <2>1. ASSUME NEW p \in Proofs, ways'[p] # Free PROVE users'[ways'[p].by] # Absent
      <3>1. CASE p \notin r.wrote
        <4>1. ways'[p] = ways[p] /\ ways[p].by \in Ids /\ Stored(ways[p].by)
          BY <1>5, <2>1, <3>1 DEF PostgresInv, PostgresTypeOK, Referential
        <4> QED BY <1>4, <4>1 DEF Stored
      <3>2. CASE p \in r.wrote
        <4>1. ways'[p].by = r.id
          BY <1>5, <2>1, <3>2
        <4>2. r.op # "Create" => Stored(r.id)
          <5>1. r.op = "AddIdentity" => Stored(r.id)
            BY <1>1, <3>2 DEF Kept
          <5>2. r.op \in {"Touch", "RemoveIdentity"} => Stored(r.id)
            BY <1>1, <3>2 DEF Kept, HeldBy, PostgresInv, Referential
          <5> QED BY <5>1, <5>2, <1>1 DEF Writers
        <4> QED BY <1>1, <1>4, <4>1, <4>2 DEF Stored
      <3> QED BY <3>1, <3>2
    <2>2. \A p \in Proofs : ways'[p] # Free => users'[ways'[p].by] # Absent
      BY <2>1
    <2> QED BY <2>2 DEF Referential, Stored
  <1>8. ASSUME NEW o \in Calls, o # q PROVE Kept(tx[o])'
    <2> DEFINE s == tx[o]
    <2>1. tx'[o] = s /\ s \in Tx /\ SoundTx(s) /\ Kept(s) /\ Apart(r, s)
      BY <1>2, <1>3, <1>8 DEF PostgresInv, PostgresTypeOK
    <2> HIDE DEF s
    <2>2. s.op \in Writers => s.wrote \cap r.wrote = {} /\ s.wrote \subseteq Proofs /\ s.id \in Ids
      BY <1>1, <2>1 DEF Apart, Tx, SoundTx
    <2>3. s.op \in Writers => \A p \in s.wrote : ways'[p] = ways[p]
      BY <1>5, <2>2
    <2>4. s.op = "Create" /\ s.at = "rows" => users'[s.id] = Absent
      <3>1. s.op = "Create" /\ s.at = "rows" => ~Stored(s.id) /\ (r.op = "Create" => s.id # r.id)
        BY <1>1, <2>1 DEF Kept, Apart
      <3> QED BY <1>4, <2>2, <3>1 DEF Writers, Stored
    <2>5. s.op = "AddIdentity" /\ s.wrote # {} => users'[s.id] # Absent
      BY <1>4, <2>1, <2>2 DEF Kept, Writers, Stored
    <2>6. s.op \in {"Create", "AddIdentity"} => \A p \in s.wrote : ways'[p] = Free
      BY <2>1, <2>3 DEF Kept, Writers, Stored
    <2>7. s.op \in {"Touch", "RemoveIdentity"} => \A p \in s.wrote : p \in Proofs /\ ways'[p] # Free /\ ways'[p].by = s.id
      BY <2>1, <2>2, <2>3 DEF Kept, Writers, HeldBy
    <2>8. Kept(s)'
      BY <2>1, <2>4, <2>5, <2>6, <2>7, <1>2, <1>8 DEF Kept, Stored, HeldBy, s
    <2> QED BY <2>1, <2>8 DEF Kept, s
  <1>9. \A o \in Calls : SoundTx(tx[o])' /\ Kept(tx[o])'
    <2>1. SoundTx(tx[q])' /\ Kept(tx[q])'
      BY <1>2, NoTxSound DEF SoundTx, Kept, NoTx, Writers
    <2>2. \A o \in Calls : o # q => SoundTx(tx[o])'
      BY <1>2, <1>3 DEF SoundTx
    <2> QED BY <1>8, <2>1, <2>2
  <1>10. \A o, p \in Calls : o # p => Apart(tx[o], tx[p])'
    <2>1. ASSUME NEW o \in Calls, NEW p \in Calls, o # p PROVE Apart(tx'[o], tx'[p])
      <3>1. CASE o = q \/ p = q
        BY <1>2, <3>1, NoTxSound DEF Apart, NoTx, Writers
      <3>2. CASE o # q /\ p # q
        BY <1>2, <2>1, <3>2 DEF PostgresInv
      <3> QED BY <3>1, <3>2
    <2> QED BY <2>1 DEF Apart
  <1> QED BY <1>6, <1>7, <1>9, <1>10 DEF PostgresInv

\* A statement that leaves every transaction, and keeps what they rely on.
LEMMA StatementKeeps ==
  ASSUME PostgresInv, UNCHANGED tx,
         users' \in [Ids -> Row \cup {Absent}],
         ways' \in [Proofs -> [by : Ids, mark : Marks] \cup {Free}],
         Referential',
         \A o \in Calls : Kept(tx[o])'
  PROVE  PostgresInv'
  <1>1. \A o \in Calls : SoundTx(tx[o])'
    BY DEF PostgresInv, SoundTx
  <1>2. \A o, p \in Calls : o # p => Apart(tx[o], tx[p])'
    BY DEF PostgresInv, Apart
  <1> QED BY <1>1, <1>2 DEF PostgresInv, PostgresTypeOK

LEMMA EnsureGuestKeeps ==
  ASSUME PostgresInv, NEW a \in Ids, NEW n \in Names, EnsureGuest(a, n)
  PROVE  PostgresInv'
  <1>1. Plain(n) \in Row /\ Plain(n) # Absent
    BY UserAssumption DEF Plain, Row
  <1>2. /\ users' \in [Ids -> Row \cup {Absent}]
        /\ \A b \in Ids : Stored(b) => users'[b] # Absent
        /\ \A b \in Ids : b # a => (users'[b] # Absent <=> Stored(b))
    BY <1>1 DEF EnsureGuest, PostgresInv, PostgresTypeOK, Stored
  <1>3. Referential'
    BY <1>2 DEF EnsureGuest, PostgresInv, PostgresTypeOK, Referential, Stored
  <1>4. ASSUME NEW o \in Calls PROVE Kept(tx[o])'
    <2>1. Kept(tx[o]) /\ SoundTx(tx[o]) /\ tx[o] \in Tx /\ ~Inserting(o, a)
      BY DEF PostgresInv, PostgresTypeOK, EnsureGuest
    <2>2. tx'[o] = tx[o] /\ ways' = ways
      BY DEF EnsureGuest
    <2>3. tx[o].op = "Create" /\ tx[o].at = "rows" => users'[tx[o].id] = Absent
      BY <1>2, <2>1 DEF Kept, SoundTx, Writers, Inserting, Stored
    <2>4. tx[o].op = "AddIdentity" /\ tx[o].wrote # {} => users'[tx[o].id] # Absent
      BY <1>2, <2>1 DEF Kept, SoundTx, Writers, Stored
    <2> QED BY <2>1, <2>2, <2>3, <2>4 DEF Kept, HeldBy, Stored
  <1> QED BY <1>2, <1>3, <1>4, StatementKeeps DEF EnsureGuest, PostgresInv, PostgresTypeOK

LEMMA SetKeeps ==
  ASSUME PostgresInv, NEW a \in Ids,
         \/ \E v \in Looks : SetAppearance(a, v)
         \/ \E v \in Images : SetImage(a, v)
  PROVE  PostgresInv'
  <1>1. /\ users' \in [Ids -> Row \cup {Absent}]
        /\ \A b \in Ids : users'[b] # Absent <=> Stored(b)
        /\ UNCHANGED <<ways, tx>>
    <2>1. Stored(a) => users[a] \in Row
      BY DEF PostgresInv, PostgresTypeOK, Stored
    <2>2. ASSUME NEW v \in Looks, Stored(a)
          PROVE  [users[a] EXCEPT !.look = v] \in Row
                 /\ [users EXCEPT ![a].look = v] = [users EXCEPT ![a] = [users[a] EXCEPT !.look = v]]
      BY <2>1, <2>2 DEF Row
    <2>3. ASSUME NEW v \in Images, Stored(a)
          PROVE  [users[a] EXCEPT !.image = v] \in Row
                 /\ [users EXCEPT ![a].image = v] = [users EXCEPT ![a] = [users[a] EXCEPT !.image = v]]
      BY <2>1, <2>3 DEF Row
    <2>4. \/ users' = users
          \/ \E r \in Row : Stored(a) /\ users' = [users EXCEPT ![a] = r]
      BY <2>2, <2>3 DEF SetAppearance, SetImage
    <2> QED BY <2>4, UserAssumption
            DEF SetAppearance, SetImage, PostgresInv, PostgresTypeOK, Stored
  <1>2. Referential'
    BY <1>1 DEF PostgresInv, PostgresTypeOK, Referential, Stored
  <1>3. ASSUME NEW o \in Calls PROVE Kept(tx[o])'
    <2>1. Kept(tx[o]) /\ SoundTx(tx[o])
      BY DEF PostgresInv
    <2> QED BY <1>1, <2>1 DEF Kept, HeldBy, Stored, SoundTx, Writers
  <1> QED BY <1>1, <1>2, <1>3, StatementKeeps DEF PostgresInv, PostgresTypeOK

LEMMA DeleteKeeps ==
  ASSUME PostgresInv, NEW a \in Ids, Delete(a)
  PROVE  PostgresInv'
  <1>1. /\ users' \in [Ids -> Row \cup {Absent}] /\ users'[a] = Absent
        /\ \A b \in Ids : b # a => (users'[b] # Absent <=> Stored(b))
    BY DEF Delete, PostgresInv, PostgresTypeOK, Stored
  <1>2. /\ ways' \in [Proofs -> [by : Ids, mark : Marks] \cup {Free}]
        /\ \A p \in Proofs : ways'[p] = IF p \in HeldBy(a) THEN Free ELSE ways[p]
    BY DEF Delete, PostgresInv, PostgresTypeOK
  <1>3. Referential'
    <2>1. ASSUME NEW p \in Proofs, ways'[p] # Free PROVE users'[ways'[p].by] # Absent
      BY <1>1, <1>2, <2>1 DEF PostgresInv, PostgresTypeOK, Referential, HeldBy, Stored
    <2> QED BY <2>1 DEF Referential, Stored
  <1>4. ASSUME NEW o \in Calls PROVE Kept(tx[o])'
    <2> DEFINE s == tx[o]
    <2>1. /\ tx'[o] = s /\ s \in Tx /\ SoundTx(s) /\ Kept(s)
          /\ s.op = "AddIdentity" /\ s.id = a => s.wrote = {}
          /\ s.op \in Writers => s.wrote \cap HeldBy(a) = {}
      BY DEF Delete, Locking, PostgresInv, PostgresTypeOK
    <2> HIDE DEF s
    <2>2. s.op \in Writers => /\ s.id \in Ids /\ s.wrote \subseteq Proofs
                              /\ \A p \in s.wrote : ways'[p] = ways[p]
      BY <1>2, <2>1 DEF SoundTx, Tx
    <2>3. s.op = "Create" /\ s.at = "rows" => users'[s.id] = Absent
      BY <1>1, <2>1, <2>2 DEF Kept, Writers, Stored
    <2>4. s.op = "AddIdentity" /\ s.wrote # {} => users'[s.id] # Absent
      BY <1>1, <2>1, <2>2 DEF Kept, Writers, Stored
    <2>5. s.op \in {"Create", "AddIdentity"} => \A p \in s.wrote : ways'[p] = Free
      BY <2>1, <2>2 DEF Kept, Writers, Stored
    <2>6. s.op \in {"Touch", "RemoveIdentity"} => \A p \in s.wrote : p \in Proofs /\ ways'[p] # Free /\ ways'[p].by = s.id
      BY <2>1, <2>2 DEF Kept, Writers, HeldBy
    <2> QED BY <2>1, <2>3, <2>4, <2>5, <2>6 DEF Kept, Stored, HeldBy, s
  <1> QED BY <1>1, <1>2, <1>3, <1>4, StatementKeeps DEF Delete

LEMMA PostgresInitInv == PostgresInit => PostgresInv
  <1> SUFFICES ASSUME PostgresInit PROVE PostgresInv
    OBVIOUS
  <1>1. PostgresTypeOK /\ Referential
    BY NoTxSound DEF PostgresInit, PostgresTypeOK, Referential
  <1>2. \A q \in Calls : SoundTx(tx[q]) /\ Kept(tx[q])
    BY NoTxSound DEF PostgresInit
  <1>3. \A q, o \in Calls : Apart(tx[q], tx[o])
    BY NoTxSound DEF PostgresInit
  <1> QED BY <1>1, <1>2, <1>3 DEF PostgresInv

LEMMA PostgresNextInv == PostgresInv /\ [PostgresNext]_postgresVars => PostgresInv'
  <1> SUFFICES ASSUME PostgresInv, [PostgresNext]_postgresVars PROVE PostgresInv'
    OBVIOUS
  <1>1. ASSUME NEW q \in Calls, Fail(q) PROVE PostgresInv'
    BY <1>1, EndsKeeps DEF Fail
  <1>2. CASE UNCHANGED postgresVars
    BY <1>2 DEF postgresVars, PostgresInv, PostgresTypeOK, Referential, SoundTx, Kept, Apart,
                Stored, HeldBy
  <1> QED BY <1>1, <1>2, BeginKeeps, InsertAccountKeeps, RequireAccountKeeps, CommitKeeps,
             InsertProofKeeps, ChangeProofKeeps, LoadKeeps, EnsureGuestKeeps, SetKeeps, DeleteKeeps
          DEF PostgresNext

\* The foreign keys hold: whatever is in flight, fails or is cut off from its
\* answer, no committed proof names an account that is not there.
THEOREM ProofsNameAccounts == PostgresSpec => []Referential
  <1>1. PostgresInv => Referential
    BY DEF PostgresInv
  <1> QED BY <1>1, PostgresInitInv, PostgresNextInv, PTL DEF PostgresSpec

-----------------------------------------------------------------------------
(* The contract, seen through the tables.                                  *)

LEMMA SameSets ==
  /\ Contract!Proofs = Proofs /\ Contract!Row = Row
  /\ \A a : Contract!Stored(a) <=> Stored(a)
  /\ \A a : Contract!HeldBy(a) = HeldBy(a)
  /\ \A a, m : Contract!Held(a, m) = [by |-> a, mark |-> m]
  BY DEF Contract!Proofs, Proofs, Contract!Row, Row, Contract!Stored, Stored,
         Contract!HeldBy, HeldBy, Contract!Held

LEMMA Declining ==
  ASSUME NEW call, NEW a, NEW on, NEW why, Reply(call, a, on, why), UNCHANGED <<users, ways>>
  PROVE  Contract!Declines(call, a, on, why)
  BY DEF Reply, Contract!Declines, Contract!Answer

LEMMA Happening ==
  ASSUME NEW call, NEW a, NEW on, Reply(call, a, on, "done") \/ Reply(call, a, on, "failed")
  PROVE  Contract!Happens(call, a, on)
  BY DEF Reply, Contract!Happens, Contract!Answer

\* Whatever the contract lets be done to an account is a step of its.
LEMMA Steps ==
  ASSUME NEW a \in Ids,
         \/ \E ps \in SUBSET Proofs : Contract!Create(a, ps)
         \/ \E p \in Proofs : Contract!Touch(a, p)
         \/ \E p \in Subjects : Contract!AddIdentity(a, p) \/ Contract!RemoveIdentity(a, p)
         \/ Contract!EnsureGuest(a) \/ Contract!ByID(a)
         \/ Contract!SetAppearance(a) \/ Contract!SetImage(a) \/ Contract!Delete(a)
  PROVE  Contract!Next
  <1>1. reply'.id = a
    <2>1. \A call, on, why : Contract!Declines(call, a, on, why) => reply'.id = a
      BY DEF Contract!Declines, Contract!Answer
    <2>2. \A call, on : Contract!Happens(call, a, on) => reply'.id = a
      BY DEF Contract!Happens, Contract!Answer
    <2>3. \A call, on : Contract!Fails(call, a, on) => reply'.id = a
      BY <2>1 DEF Contract!Fails
    <2> QED BY <2>1, <2>2, <2>3
            DEF Contract!Create, Contract!Touch, Contract!AddIdentity, Contract!RemoveIdentity,
                Contract!EnsureGuest, Contract!ByID, Contract!SetAppearance, Contract!SetImage,
                Contract!Delete
  <1> QED BY <1>1, SameSets DEF Contract!Next

\* A write that is refused, that finds nothing to change, or that fails.
LEMMA WriterDeclines ==
  ASSUME PostgresInv, NEW q \in Calls, tx[q].op \in Writers, UNCHANGED <<users, ways>>,
         NEW why, Reply(tx[q].op, tx[q].id, tx[q].on, why),
         \/ why = "failed"
         \/ /\ why = "refused" /\ tx[q].op \in {"Create", "AddIdentity"}
            /\ \/ tx[q].op = "Create" /\ Stored(tx[q].id)
               \/ \E p \in tx[q].on : ways[p] # Free
         \/ /\ why = "missing"
            /\ \/ tx[q].op = "AddIdentity" /\ ~Stored(tx[q].id)
               \/ /\ tx[q].op \in {"Touch", "RemoveIdentity"}
                  /\ \E p \in tx[q].on : p \notin HeldBy(tx[q].id)
  PROVE  Contract!Next
  <1>1. /\ tx[q].id \in Ids /\ tx[q].on \subseteq Proofs
        /\ tx[q].op \in {"AddIdentity", "RemoveIdentity"} => \E p \in Subjects : tx[q].on = {p}
        /\ tx[q].op = "Touch" => \E p \in Proofs : tx[q].on = {p}
    BY DEF PostgresInv, PostgresTypeOK, SoundTx, Tx
  <1>2. Contract!Declines(tx[q].op, tx[q].id, tx[q].on, why)
    BY Declining
  <1>3. CASE tx[q].op = "Create"
    <2>1. Contract!Create(tx[q].id, tx[q].on)
      BY <1>2, <1>3, SameSets DEF Contract!Create, Contract!Fails
    <2> QED BY <1>1, <2>1, Steps
  <1>4. CASE tx[q].op = "AddIdentity"
    <2>1. PICK p \in Subjects : tx[q].on = {p}
      BY <1>1, <1>4
    <2>2. Contract!AddIdentity(tx[q].id, p)
      BY <1>2, <1>4, <2>1, SameSets DEF Contract!AddIdentity, Contract!Fails
    <2> QED BY <1>1, <2>2, Steps
  <1>5. CASE tx[q].op = "RemoveIdentity"
    <2>1. PICK p \in Subjects : tx[q].on = {p}
      BY <1>1, <1>5
    <2>2. Contract!RemoveIdentity(tx[q].id, p)
      BY <1>2, <1>5, <2>1, SameSets DEF Contract!RemoveIdentity, Contract!Fails
    <2> QED BY <1>1, <2>2, Steps
  <1>6. CASE tx[q].op = "Touch"
    <2>1. PICK p \in Proofs : tx[q].on = {p}
      BY <1>1, <1>6
    <2>2. Contract!Touch(tx[q].id, p)
      BY <1>2, <1>6, <2>1, SameSets DEF Contract!Touch, Contract!Fails
    <2> QED BY <1>1, <2>2, Steps
  <1> QED BY <1>3, <1>4, <1>5, <1>6 DEF Writers

LEMMA InsertAccountImplements ==
  ASSUME PostgresInv, NEW q \in Calls, InsertAccount(q)
  PROVE  Contract!Next \/ UNCHANGED Contract!contractVars
  <1>1. CASE Stored(tx[q].id) /\ Ends(q, "refused")
    BY <1>1, WriterDeclines DEF InsertAccount, Ends, Writers
  <1>2. CASE GoesOn(q, "rows")
    BY <1>2 DEF InsertAccount, GoesOn, Contract!contractVars
  <1> QED BY <1>1, <1>2 DEF InsertAccount

LEMMA RequireAccountImplements ==
  ASSUME PostgresInv, NEW q \in Calls, RequireAccount(q)
  PROVE  Contract!Next \/ UNCHANGED Contract!contractVars
  <1>1. CASE ~Stored(tx[q].id) /\ Ends(q, "missing")
    <2>1. tx[q].op \in {"Touch", "RemoveIdentity"} => \E p \in tx[q].on : p \notin HeldBy(tx[q].id)
      <3>1. HeldBy(tx[q].id) = {}
        BY <1>1 DEF HeldBy, PostgresInv, Referential
      <3>2. tx[q].op \in {"Touch", "RemoveIdentity"} => \E p : tx[q].on = {p}
        BY DEF PostgresInv, SoundTx
      <3> QED BY <3>1, <3>2
    <2> QED BY <1>1, <2>1, WriterDeclines DEF RequireAccount, Ends, Writers
  <1>2. CASE GoesOn(q, "rows")
    BY <1>2 DEF RequireAccount, GoesOn, Contract!contractVars
  <1> QED BY <1>1, <1>2 DEF RequireAccount

LEMMA InsertProofImplements ==
  ASSUME PostgresInv, NEW q \in Calls, NEW p \in Proofs, InsertProof(q, p)
  PROVE  Contract!Next \/ UNCHANGED Contract!contractVars
  <1>1. CASE ways[p] # Free /\ Ends(q, "refused")
    BY <1>1, WriterDeclines DEF InsertProof, Ends, Writers
  <1>2. CASE Ends(q, "failed")
    BY <1>2, WriterDeclines DEF InsertProof, Ends, Writers
  <1>3. CASE Writes(q, p)
    BY <1>3 DEF InsertProof, Writes, Contract!contractVars
  <1> QED BY <1>1, <1>2, <1>3 DEF InsertProof

LEMMA ChangeProofImplements ==
  ASSUME PostgresInv, NEW q \in Calls, NEW p \in Proofs, ChangeProof(q, p)
  PROVE  Contract!Next \/ UNCHANGED Contract!contractVars
  <1>1. CASE p \notin HeldBy(tx[q].id) /\ Ends(q, "missing")
    BY <1>1, WriterDeclines DEF ChangeProof, Ends, Writers
  <1>2. CASE Writes(q, p)
    BY <1>2 DEF ChangeProof, Writes, Contract!contractVars
  <1> QED BY <1>1, <1>2 DEF ChangeProof

\* What the transaction found when it wrote its rows is still so.
LEMMA CommitImplements ==
  ASSUME PostgresInv, NEW q \in Calls, Commit(q)
  PROVE  Contract!Next
  <1> DEFINE r == tx[q]
  <1>1. /\ r \in Tx /\ SoundTx(r) /\ Kept(r) /\ r.op \in Writers /\ r.at = "rows"
        /\ Visible(r)
        /\ Reply(r.op, r.id, r.on, "done") \/ Reply(r.op, r.id, r.on, "failed")
        /\ r.on \subseteq r.wrote
    BY DEF PostgresInv, PostgresTypeOK, Commit, Ends
  <1>2. users \in [Ids -> Row \cup {Absent}] /\ DOMAIN ways = Proofs
    BY DEF PostgresInv, PostgresTypeOK
  <1> HIDE DEF r
  <1>3. Contract!Happens(r.op, r.id, r.on) /\ r.id \in Ids /\ r.on = r.wrote /\ r.on \subseteq Proofs
    BY <1>1, Happening DEF SoundTx, Tx
  <1>4. CASE r.op = "Create"
    <2>1. r.new \in Row /\ r.mark = Fresh /\ users' = [users EXCEPT ![r.id] = r.new]
          /\ ~Stored(r.id) /\ \A p \in r.on : ways[p] = Free
      BY <1>1, <1>3, <1>4 DEF SoundTx, Kept, Visible
    <2>2. ways' = [p \in Proofs |-> IF p \in r.on THEN Contract!Held(r.id, Fresh) ELSE ways[p]]
      BY <1>1, <1>3, <1>4, <2>1, SameSets DEF Visible
    <2>3. Contract!Create(r.id, r.on)
      BY <1>3, <1>4, <2>1, <2>2, SameSets DEF Contract!Create
    <2> QED BY <1>3, <2>3, Steps
  <1>5. CASE r.op = "AddIdentity"
    <2>1. PICK p \in Subjects : r.on = {p}
      BY <1>1, <1>5 DEF SoundTx
    <2>2. Stored(r.id) /\ ways[p] = Free /\ r.mark = Fresh /\ users' = users
      BY <1>1, <1>3, <1>5, <2>1 DEF SoundTx, Kept, Visible
    <2>3. ways' = [ways EXCEPT ![p] = Contract!Held(r.id, Fresh)]
      BY <1>1, <1>2, <1>3, <1>5, <2>1, <2>2, SameSets DEF Visible
    <2>4. Contract!AddIdentity(r.id, p)
      BY <1>3, <1>5, <2>1, <2>2, <2>3, SameSets DEF Contract!AddIdentity
    <2> QED BY <1>3, <2>4, Steps
  <1>6. CASE r.op = "RemoveIdentity"
    <2>1. PICK p \in Subjects : r.on = {p}
      BY <1>1, <1>6 DEF SoundTx
    <2>2. p \in HeldBy(r.id) /\ users' = users
      BY <1>1, <1>3, <1>6, <2>1 DEF Kept, Visible
    <2>3. ways' = [ways EXCEPT ![p] = Free]
      BY <1>1, <1>2, <1>3, <1>6, <2>1 DEF Visible
    <2>4. Contract!RemoveIdentity(r.id, p)
      BY <1>3, <1>6, <2>1, <2>2, <2>3, SameSets DEF Contract!RemoveIdentity
    <2> QED BY <1>3, <2>4, Steps
  <1>7. CASE r.op = "Touch"
    <2>1. PICK p \in Proofs : r.on = {p}
      BY <1>1, <1>7 DEF SoundTx
    <2>2. p \in HeldBy(r.id) /\ users' = users /\ r.mark \in Marks
      BY <1>1, <1>3, <1>7, <2>1 DEF Kept, Visible, Tx
    <2>3. ways' = [ways EXCEPT ![p] = Contract!Held(r.id, r.mark)]
      BY <1>1, <1>2, <1>3, <1>7, <2>1, SameSets DEF Visible
    <2>4. Contract!Touch(r.id, p)
      BY <1>3, <1>7, <2>1, <2>2, <2>3, SameSets DEF Contract!Touch
    <2> QED BY <1>3, <2>4, Steps
  <1> QED BY <1>1, <1>4, <1>5, <1>6, <1>7 DEF Writers

LEMMA FailImplements ==
  ASSUME PostgresInv, NEW q \in Calls, Fail(q)
  PROVE  Contract!Next
  <1>1. tx[q] \in Tx /\ SoundTx(tx[q]) /\ tx[q].op # "none" /\ UNCHANGED <<users, ways>>
    BY DEF Fail, PostgresInv, PostgresTypeOK, SoundTx
  <1>2. CASE tx[q].op \in Writers
    BY <1>1, <1>2, WriterDeclines DEF Fail, Writers
  <1>3. CASE tx[q].op = "ByProof"
    <2>1. PICK p \in Proofs : tx[q].on = {p}
      BY <1>1, <1>3 DEF SoundTx
    <2>2. Contract!Declines("ByProof", Absent, {p}, "failed")
      BY <1>1, <1>3, <2>1, Declining DEF Fail
    <2> QED BY <2>2, SameSets DEF Contract!Next, Contract!ByProof, Contract!Fails
  <1>4. CASE tx[q].op = "ByID"
    <2>1. tx[q].id \in Ids /\ tx[q].on = {}
      BY <1>1, <1>4 DEF SoundTx
    <2>2. Contract!Declines("ByID", tx[q].id, {}, "failed")
      BY <1>1, <1>4, <2>1, Declining DEF Fail
    <2> QED BY <2>1, <2>2, Steps DEF Contract!ByID, Contract!Fails
  <1> QED BY <1>1, <1>2, <1>3, <1>4 DEF Tx, Loads

\* The statement that finds the account's row decides what a load answers.
LEMMA LoadAccountImplements ==
  ASSUME PostgresInv, NEW q \in Calls, LoadAccount(q)
  PROVE  Contract!Next
  <1>1. tx[q] \in Tx /\ SoundTx(tx[q]) /\ tx[q].op \in Loads /\ UNCHANGED <<users, ways>>
    BY DEF LoadAccount, PostgresInv, PostgresTypeOK
  <1>2. CASE tx[q].op = "ByID"
    <2>1. tx[q].id \in Ids /\ tx[q].on = {}
      BY <1>1, <1>2 DEF SoundTx
    <2>2. \/ Stored(tx[q].id) /\ Reply("ByID", tx[q].id, {}, "found")
          \/ ~Stored(tx[q].id) /\ Reply("ByID", tx[q].id, {}, "missing")
      BY <1>2, <2>1 DEF LoadAccount, Finds, Ends
    <2>3. Contract!ByID(tx[q].id)
      BY <1>1, <2>2, Declining, SameSets DEF Contract!ByID
    <2> QED BY <2>1, <2>3, Steps
  <1>3. CASE tx[q].op = "ByProof"
    <2>1. PICK p \in Proofs : tx[q].on = {p}
      BY <1>1, <1>3 DEF SoundTx
    <2>2. tx[q].id = Absent
      BY <1>1, <1>3 DEF LoadAccount, SoundTx
    <2>3. ASSUME NEW a \in Ids, Finds(q, a), Reply("ByProof", a, {p}, "found")
          PROVE  Contract!ByProof(p)
      <3>1. Stored(a) /\ ways[p] # Free /\ ways[p].by = a
        BY <1>3, <2>1, <2>3 DEF Finds, HeldBy
      <3> QED BY <1>1, <2>3, <3>1, Declining, SameSets DEF Contract!ByProof
    <2>4. ASSUME \A a \in Ids : ~Finds(q, a), Reply("ByProof", Absent, {p}, "missing")
          PROVE  Contract!ByProof(p)
      <3>1. ways[p] # Free => ways[p].by \in Ids /\ Stored(ways[p].by)
        BY DEF PostgresInv, PostgresTypeOK, Referential
      <3>2. ways[p] = Free
        BY <1>3, <2>1, <2>4, <3>1 DEF Finds, HeldBy
      <3> QED BY <1>1, <2>4, <3>2, Declining DEF Contract!ByProof
    <2>5. Contract!ByProof(p)
      BY <1>3, <2>1, <2>2, <2>3, <2>4 DEF LoadAccount, Ends
    <2> QED BY <2>5, SameSets DEF Contract!Next
  <1> QED BY <1>1, <1>2, <1>3 DEF Loads

LEMMA EnsureGuestImplements ==
  ASSUME PostgresInv, NEW a \in Ids, NEW n \in Names, EnsureGuest(a, n)
  PROVE  Contract!EnsureGuest(a)
  <1>1. Plain(n) \in Row
    BY UserAssumption DEF Plain, Row
  <1> QED BY <1>1, Happening, SameSets DEF EnsureGuest, Told, Contract!EnsureGuest

LEMMA SetAppearanceImplements ==
  ASSUME PostgresInv, NEW a \in Ids, NEW v \in Looks, SetAppearance(a, v)
  PROVE  Contract!SetAppearance(a)
  <1>1. CASE Stored(a)
    BY <1>1, Happening, SameSets DEF SetAppearance, Told, Contract!SetAppearance
  <1>2. CASE ~Stored(a)
    BY <1>2, Declining, SameSets DEF SetAppearance, Told, Contract!SetAppearance, Contract!Fails
  <1> QED BY <1>1, <1>2

LEMMA SetImageImplements ==
  ASSUME PostgresInv, NEW a \in Ids, NEW v \in Images, SetImage(a, v)
  PROVE  Contract!SetImage(a)
  <1>1. CASE Stored(a)
    BY <1>1, Happening, SameSets DEF SetImage, Told, Contract!SetImage
  <1>2. CASE ~Stored(a)
    BY <1>2, Declining, SameSets DEF SetImage, Told, Contract!SetImage, Contract!Fails
  <1> QED BY <1>1, <1>2

LEMMA DeleteImplements ==
  ASSUME PostgresInv, NEW a \in Ids, Delete(a)
  PROVE  Contract!Delete(a)
  <1>1. CASE Stored(a)
    BY <1>1, Happening, SameSets DEF Delete, Told, Contract!Delete
  <1>2. CASE ~Stored(a)
    <2>1. users' = users
      BY <1>2 DEF Delete, Stored, PostgresInv, PostgresTypeOK
    <2>2. HeldBy(a) = {}
      BY <1>2 DEF HeldBy, PostgresInv, Referential
    <2>3. ways' = ways
      BY <2>2 DEF Delete, PostgresInv, PostgresTypeOK
    <2> QED BY <1>2, <2>1, <2>3, Declining, SameSets
            DEF Delete, Told, Contract!Delete, Contract!Fails
  <1> QED BY <1>1, <1>2

LEMMA InitImplements == PostgresInit => Contract!Init
  BY SameSets DEF PostgresInit, Contract!Init, Contract!Answer

LEMMA NextImplements ==
  PostgresInv /\ [PostgresNext]_postgresVars => [Contract!Next]_(Contract!contractVars)
  <1> SUFFICES ASSUME PostgresInv, [PostgresNext]_postgresVars
               PROVE  Contract!Next \/ UNCHANGED Contract!contractVars
    OBVIOUS
  <1>1. ASSUME NEW q \in Calls, Begin(q) \/ LoadKeys(q) \/ LoadSubjects(q) \/ GiveBack(q)
        PROVE  UNCHANGED Contract!contractVars
    BY <1>1 DEF Begin, LoadKeys, LoadSubjects, GiveBack, Contract!contractVars
  <1>2. ASSUME NEW a \in Ids,
               \/ \E n \in Names : EnsureGuest(a, n)
               \/ \E v \in Looks : SetAppearance(a, v)
               \/ \E v \in Images : SetImage(a, v)
               \/ Delete(a)
        PROVE  Contract!Next
    BY <1>2, EnsureGuestImplements, SetAppearanceImplements, SetImageImplements, DeleteImplements,
       Steps
  <1>3. CASE UNCHANGED postgresVars
    BY <1>3 DEF postgresVars, Contract!contractVars
  <1> QED BY <1>1, <1>2, <1>3, InsertAccountImplements, RequireAccountImplements,
             InsertProofImplements, ChangeProofImplements, CommitImplements, FailImplements,
             LoadAccountImplements
          DEF PostgresNext

\* The store in PostgreSQL keeps the contract of the ports: with any number of
\* requests in flight, each failing or losing its answer at any statement,
\* every answer of postgres/user.go is one the contract allows at one moment
\* of the call.
THEOREM PostgresKeepsContract == PostgresSpec => UsersInPostgres
  <1>1. PostgresSpec => []PostgresInv
    BY PostgresInitInv, PostgresNextInv, PTL DEF PostgresSpec
  <1> QED BY <1>1, InitImplements, NextImplements, PTL
          DEF PostgresSpec, UsersInPostgres, Contract!Spec
=============================================================================
