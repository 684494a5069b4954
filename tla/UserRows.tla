------------------------------ MODULE UserRows ------------------------------
(***************************************************************************)
(* What an account store is about (domain/user): accounts, and the proofs  *)
(* they are signed in to with.  A proof is a passkey's credential id, or a *)
(* provider and a subject at it; what a sign-in may rewrite of one (a sign *)
(* count, an email, a last use) is its mark.                               *)
(***************************************************************************)
CONSTANTS Ids, Keys, Subjects,
          Names, Looks, Images,
          Dragon, Bare,   \* the appearance and the portrait nobody chose
          Marks, Fresh,   \* what a proof says of its use, and says when new
          Absent, Free    \* no account, and a proof that nobody holds

Proofs == Keys \cup Subjects
Row == [name : Names, look : Looks, image : Images]
\* An account with all its proofs: those it does not hold are Free in it.
Account == [name : Names, look : Looks, image : Images, ways : [Proofs -> Marks \cup {Free}]]
Plain(n) == [name |-> n, look |-> Dragon, image |-> Bare]

ASSUME UserAssumption ==
    /\ Fresh \in Marks /\ Free \notin Marks
    /\ Dragon \in Looks /\ Bare \in Images
    /\ Absent \notin Ids /\ Free \notin Ids
    /\ Absent \notin Row /\ Absent \notin Account
    /\ \A a \in Ids, m \in Marks : [by |-> a, mark |-> m] # Free
=============================================================================
