--------------------------- MODULE UsersContract ---------------------------
(***************************************************************************)
(* What any account store promises (domain/user.Repository, as the         *)
(* conformance suite repotest/user.go has it): accounts by id, the proofs  *)
(* each is signed in to with, and the one answer a call is given.          *)
(*                                                                         *)
(* Every operation is one step, and so is its answer.  A store that keeps  *)
(* its rows elsewhere may lose the answer: then the caller is told that it *)
(* failed, and the write has happened or has not.                          *)
(***************************************************************************)
EXTENDS UserRows

VARIABLES row,            \* the account stored under each id
          proof,          \* who holds each proof, and its mark
          said            \* the last answer

contractVars == <<row, proof, said>>

Held(a, m) == [by |-> a, mark |-> m]
HeldBy(a) == {p \in Proofs : proof[p] # Free /\ proof[p].by = a}
Stored(a) == row[a] # Absent

Answer(call, a, on, says) == [call |-> call, id |-> a, on |-> on, says |-> says]

\* The write is made; its answer may be lost on the way.
Happens(call, a, on) == \E says \in {"done", "failed"} : said' = Answer(call, a, on, says)

\* Nothing is written, and the caller is told why, or that it failed.
Declines(call, a, on, why) ==
    /\ said' = Answer(call, a, on, why)
    /\ UNCHANGED <<row, proof>>

Fails(call, a, on) == Declines(call, a, on, "failed")

Init ==
    /\ row = [a \in Ids |-> Absent]
    /\ proof = [p \in Proofs |-> Free]
    /\ said = Answer("none", Absent, {}, "done")

-----------------------------------------------------------------------------
\* An account comes whole, with all its proofs, or not at all.
Create(a, ps) ==
    \/ /\ Happens("Create", a, ps)
       /\ ~Stored(a) /\ \A p \in ps : proof[p] = Free
       /\ \E new \in Row : row' = [row EXCEPT ![a] = new]
       /\ proof' = [p \in Proofs |-> IF p \in ps THEN Held(a, Fresh) ELSE proof[p]]
    \/ /\ Declines("Create", a, ps, "refused")
       /\ Stored(a) \/ \E p \in ps : proof[p] # Free
    \/ Fails("Create", a, ps)

\* A guest's row is made once: a later call does not rename it.
EnsureGuest(a) ==
    \/ /\ Happens("EnsureGuest", a, {})
       /\ \E new \in Row : row' = IF Stored(a) THEN row ELSE [row EXCEPT ![a] = new]
       /\ UNCHANGED proof
    \/ Fails("EnsureGuest", a, {})

\* A proof resolves to its holder, whose account is there.
ByProof(p) ==
    \/ /\ proof[p] # Free
       /\ Stored(proof[p].by)
       /\ Declines("ByProof", proof[p].by, {p}, "found")
    \/ Declines("ByProof", Absent, {p}, "missing") /\ proof[p] = Free
    \/ Fails("ByProof", Absent, {p})

ByID(a) ==
    \/ Declines("ByID", a, {}, "found") /\ Stored(a)
    \/ Declines("ByID", a, {}, "missing") /\ ~Stored(a)
    \/ Fails("ByID", a, {})

\* A sign-in moves the mark of a proof the account holds, and never the proof.
Touch(a, p) ==
    \/ /\ Happens("Touch", a, {p})
       /\ p \in HeldBy(a)
       /\ \E m \in Marks : proof' = [proof EXCEPT ![p] = Held(a, m)]
       /\ UNCHANGED row
    \/ Declines("Touch", a, {p}, "missing") /\ p \notin HeldBy(a)
    \/ Fails("Touch", a, {p})

\* Taken by anybody is taken, the account itself included.
AddIdentity(a, p) ==
    \/ /\ Happens("AddIdentity", a, {p})
       /\ Stored(a) /\ proof[p] = Free
       /\ proof' = [proof EXCEPT ![p] = Held(a, Fresh)]
       /\ UNCHANGED row
    \/ Declines("AddIdentity", a, {p}, "missing") /\ ~Stored(a)
    \/ Declines("AddIdentity", a, {p}, "refused") /\ proof[p] # Free
    \/ Fails("AddIdentity", a, {p})

RemoveIdentity(a, p) ==
    \/ /\ Happens("RemoveIdentity", a, {p})
       /\ p \in HeldBy(a)
       /\ proof' = [proof EXCEPT ![p] = Free]
       /\ UNCHANGED row
    \/ Declines("RemoveIdentity", a, {p}, "missing") /\ p \notin HeldBy(a)
    \/ Fails("RemoveIdentity", a, {p})

\* SetAppearance and SetImage each write their own columns.
SetAppearance(a) ==
    \/ /\ Happens("SetAppearance", a, {})
       /\ Stored(a)
       /\ \E v \in Looks : row' = [row EXCEPT ![a].look = v]
       /\ UNCHANGED proof
    \/ Declines("SetAppearance", a, {}, "missing") /\ ~Stored(a)
    \/ Fails("SetAppearance", a, {})

SetImage(a) ==
    \/ /\ Happens("SetImage", a, {})
       /\ Stored(a)
       /\ \E v \in Images : row' = [row EXCEPT ![a].image = v]
       /\ UNCHANGED proof
    \/ Declines("SetImage", a, {}, "missing") /\ ~Stored(a)
    \/ Fails("SetImage", a, {})

\* The account's proofs are free again: none of them names a ghost.
Delete(a) ==
    \/ /\ Happens("Delete", a, {})
       /\ Stored(a)
       /\ row' = [row EXCEPT ![a] = Absent]
       /\ proof' = [p \in Proofs |-> IF p \in HeldBy(a) THEN Free ELSE proof[p]]
    \/ Declines("Delete", a, {}, "missing") /\ ~Stored(a)
    \/ Fails("Delete", a, {})

\* The last answer tells whose account the step was about.
Next ==
    \/ \E p \in Proofs : ByProof(p)
    \/ \E a \in Ids :
        /\ said'.id = a
        /\ \/ \E ps \in SUBSET Proofs : Create(a, ps)
           \/ \E p \in Proofs : Touch(a, p)
           \/ \E p \in Subjects : AddIdentity(a, p) \/ RemoveIdentity(a, p)
           \/ EnsureGuest(a) \/ ByID(a) \/ SetAppearance(a) \/ SetImage(a) \/ Delete(a)

Spec == Init /\ [][Next]_contractVars
=============================================================================
