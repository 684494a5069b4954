------------------------------ MODULE HandOver ------------------------------
(***************************************************************************)
(* Items changing hands at a game (usecase/game/items.go): the DM grants   *)
(* or strikes off, a player gives to another.  Every change is one event   *)
(* appended to a character's log: the log is read, the change decided from *)
(* the sheet as it stands, and committed at the revision read.  A gift is  *)
(* two such changes and, when the second fails, a third that gives back.   *)
(*                                                                         *)
(* One kind of item; what is worn is never taken and is left out.  Coins   *)
(* in a purse (AdjustCoins) go the way of a grant.  Owners edit and delete *)
(* their characters meanwhile.                                             *)
(***************************************************************************)
EXTENDS Naturals, FiniteSets

\* Mutant...: see Membership.

CONSTANTS Characters,
          Givers,        \* the requests being served at once
          NoOne,
          MaxHeld        \* bound: what owners and grants fill a backpack to

ASSUME HandOverAssumption ==
    /\ NoOne \notin Characters
    /\ MaxHeld \in Nat
    /\ IsFiniteSet(Characters) /\ IsFiniteSet(Givers)

VARIABLES backpack, loot,  \* what each character carries of the item
          kept,            \* the characters that are stored
          knows,           \* those whose rule packs have the item
          gift,            \* the requests
          current,         \* those that read the revision that is still stored
          fault          \* what befell the last step

handVars == <<backpack, loot, kept, knows, gift, current, fault>>

\* "take", "hand" and "back" are the three changes of a gift, "grant" and
\* "strike" the DM's.  read: the sheet was read, and bag and pile are what the
\* change will write.
Gift == [act : {"idle", "take", "hand", "back", "grant", "strike"}, read : BOOLEAN,
         from : Characters \cup {NoOne}, to : Characters \cup {NoOne},
         count : Nat, bag : Nat, pile : Nat]

NoGift == [act |-> "idle", read |-> FALSE, from |-> NoOne, to |-> NoOne,
           count |-> 0, bag |-> 0, pile |-> 0]

HandTypeOK ==
    /\ backpack \in [Characters -> Nat] /\ loot \in [Characters -> Nat]
    /\ kept \subseteq Characters /\ knows \subseteq Characters /\ current \subseteq Givers
    /\ gift \in [Givers -> Gift]
    /\ fault \in {"none", "cut", "unanswered"}

HandInit ==
    /\ backpack = [c \in Characters |-> 1]
    /\ loot = [c \in Characters |-> 1]
    /\ kept = Characters /\ knows = Characters
    /\ gift = [q \in Givers |-> NoGift]
    /\ current = {}
    /\ fault = "none"

\* Whose log a request is changing.
Whose(g) == IF g.act \in {"hand", "grant"} THEN g.to ELSE g.from

\* What follows a change that is done, and one that failed.
After(g) == IF g.act = "take" THEN [g EXCEPT !.act = "hand", !.read = FALSE] ELSE NoGift

MutantFailed(g) == NoGift

Failed(g) ==
    IF g.act = "hand" THEN [g EXCEPT !.act = "back", !.read = FALSE] ELSE NoGift

-----------------------------------------------------------------------------

\* GiveItem: both are seated, not the same, and the recipient's catalogue has
\* the item.  Seats are only asked here.
AskGive(q, from, to, count) ==
    /\ gift[q].act = "idle"
    /\ {from, to} \subseteq kept /\ from # to /\ to \in knows
    /\ backpack[to] < MaxHeld
    /\ gift' = [gift EXCEPT ![q] = [NoGift EXCEPT !.act = "take", !.from = from,
                                                  !.to = to, !.count = count]]
    /\ fault' = "none"
    /\ UNCHANGED <<backpack, loot, kept, knows, current>>

\* GrantItem with a count above or below nothing, AdjustCoins.
AskGrant(q, c, act, count) ==
    /\ gift[q].act = "idle" /\ c \in kept
    /\ backpack[c] < MaxHeld
    /\ gift' = [gift EXCEPT ![q] = [NoGift EXCEPT !.act = act, !.count = count,
                   !.from = IF act = "strike" THEN c ELSE NoOne,
                   !.to = IF act = "grant" THEN c ELSE NoOne]]
    /\ fault' = "none"
    /\ UNCHANGED <<backpack, loot, kept, knows, current>>

\* From the backpack, then from the loot, as counts to be written.
Take(g) ==
    LET fromBackpack == IF backpack[g.from] < g.count THEN backpack[g.from] ELSE g.count
    IN [g EXCEPT !.read = TRUE,
                 !.bag = backpack[g.from] - fromBackpack,
                 !.pile = loot[g.from] - (g.count - fromBackpack)]

Receive(g) ==
    [g EXCEPT !.read = TRUE, !.bag = backpack[Whose(g)] + g.count, !.pile = loot[Whose(g)]]

\* changeCharacter up to its commit: the sheet is read and the change decided.
Decide(q) ==
    LET g == gift[q]  c == Whose(g) IN
    /\ g.act # "idle" /\ ~g.read /\ c \in kept
    /\ IF g.act \in {"take", "strike"} THEN backpack[c] + loot[c] >= g.count
       ELSE c \in knows
    /\ gift' = [gift EXCEPT ![q] = IF g.act \in {"take", "strike"} THEN Take(g) ELSE Receive(g)]
    /\ current' = current \cup {q}
    /\ fault' = "none"
    /\ UNCHANGED <<backpack, loot, kept, knows>>

\* A write to a character's log makes every earlier reading of it stale.
Stale(c) == {q \in Givers : gift[q].read /\ Whose(gift[q]) = c}

MutantWrite(q) ==
    LET g == gift[q]  c == Whose(g) IN
    /\ g.read /\ c \in kept
    /\ backpack' = [backpack EXCEPT ![c] = g.bag]
    /\ loot' = [loot EXCEPT ![c] = g.pile]
    /\ current' = current \ Stale(c)

\* Repository.Commit at the revision read.
Write(q) ==
    LET g == gift[q]  c == Whose(g) IN
    /\ g.read /\ c \in kept /\ q \in current
    /\ backpack' = [backpack EXCEPT ![c] = g.bag]
    /\ loot' = [loot EXCEPT ![c] = g.pile]
    /\ current' = current \ Stale(c)

Commit(q) ==
    /\ Write(q)
    /\ gift' = [gift EXCEPT ![q] = After(gift[q])]
    /\ fault' = "none"
    /\ UNCHANGED <<kept, knows>>

\* The commit happened and the database's answer did not arrive.
CommitUnanswered(q) ==
    /\ Write(q)
    /\ gift' = [gift EXCEPT ![q] = Failed(gift[q])]
    /\ fault' = "unanswered"
    /\ UNCHANGED <<kept, knows>>

\* A change that cannot be made: the character is gone, its revision moved on,
\* it has too few to take, or its catalogue lacks the item.  A give-back that
\* cannot be made is only logged.
Refuse(q) ==
    LET g == gift[q]  c == Whose(g)  takes == g.act \in {"take", "strike"} IN
    /\ g.act # "idle"
    /\ \/ c \notin kept
       \/ g.read /\ q \notin current
       \/ ~g.read /\ takes /\ backpack[c] + loot[c] < g.count
       \/ ~g.read /\ ~takes /\ c \notin knows
    /\ gift' = [gift EXCEPT ![q] = Failed(g)]
    /\ current' = current \ {q}
    /\ fault' = IF g.act = "back" THEN "cut" ELSE "none"
    /\ UNCHANGED <<backpack, loot, kept, knows>>

\* The database fails in the middle, or the process dies.
Cut(q) ==
    /\ gift[q].act # "idle"
    /\ \/ gift' = [gift EXCEPT ![q] = Failed(gift[q])]
       \/ gift' = [gift EXCEPT ![q] = NoGift]
    /\ current' = current \ {q}
    /\ fault' = "cut"
    /\ UNCHANGED <<backpack, loot, kept, knows>>

\* The owner writes the count they want, and their log moves on.
Edit(c, count) ==
    /\ c \in kept /\ count # backpack[c] /\ count <= MaxHeld
    /\ backpack' = [backpack EXCEPT ![c] = count]
    /\ current' = current \ Stale(c)
    /\ fault' = "none"
    /\ UNCHANGED <<loot, kept, knows, gift>>

\* The owner plays by other rule packs, which have the item or have not.
ChooseRules(c) ==
    /\ c \in kept
    /\ knows' = IF c \in knows THEN knows \ {c} ELSE knows \cup {c}
    /\ current' = current \ Stale(c)
    /\ fault' = "none"
    /\ UNCHANGED <<backpack, loot, kept, gift>>

\* A character is deleted with what it carries.
Forget(c) ==
    /\ c \in kept
    /\ kept' = kept \ {c}
    /\ backpack' = [backpack EXCEPT ![c] = 0] /\ loot' = [loot EXCEPT ![c] = 0]
    /\ current' = current \ Stale(c)
    /\ fault' = "none"
    /\ UNCHANGED <<knows, gift>>

HandNext ==
    \/ \E q \in Givers :
          \/ \E from, to \in Characters, n \in 1..2 : AskGive(q, from, to, n)
          \/ \E c \in Characters, act \in {"grant", "strike"} : AskGrant(q, c, act, 1)
          \/ Decide(q) \/ Commit(q) \/ CommitUnanswered(q) \/ Refuse(q) \/ Cut(q)
    \/ \E c \in Characters : Forget(c) \/ ChooseRules(c) \/ \E n \in 0..MaxHeld : Edit(c, n)

HandSpec == HandInit /\ [][HandNext]_handVars

-----------------------------------------------------------------------------
(* Properties.                                                             *)

\* What all the sheets carry, and what is between two of them.
InPlay == Cardinality(UNION {{c} \X (1..(backpack[c] + loot[c])) : c \in Characters})
Carried == Cardinality(UNION {{q} \X (1..gift[q].count) :
                                  q \in {r \in Givers : gift[r].act \in {"hand", "back"}}})

\* A step of a request that writes what the DM granted or struck off.
Dealt(act) == \E q \in Givers : gift[q].act = act /\ gift'[q].act = "idle"

\* A gift never makes two items of one, however its commits interleave with
\* the owners' edits, other gifts, refusals and crashes.  What is in play and
\* carried grows only by an owner's own edit or the DM's grant, or when the
\* answer of a commit was lost: the recipient has it and the giver gets it back.
NeverDuplicates ==
    [][InPlay' + Carried' > InPlay + Carried =>
           UNCHANGED gift \/ Dealt("grant") \/ fault' = "unanswered"]_handVars

\* Nothing is lost but by an owner's own hand, the DM's, or in a crash, a
\* failed give-back or a lost answer: a recipient who is gone, or whose sheet
\* was edited meanwhile, costs nothing.
NothingLost ==
    [][InPlay' + Carried' < InPlay + Carried =>
           UNCHANGED gift \/ Dealt("strike") \/ fault' # "none"]_handVars

=============================================================================
