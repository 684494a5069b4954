------------------------------- MODULE Solver -------------------------------
(***************************************************************************)
(* Which releases of rule packs a character is played by                   *)
(* (adapter/catalog/file/pack_registry.go).  Registry.Resolve searches,    *)
(* with backtracking, for a release of every pack that is asked for or     *)
(* needed; Registry.ordered checks a lock and puts it in the order it is   *)
(* compiled in.  A release that is installed stays; more may come.         *)
(*                                                                         *)
(* Ids and versions are numbers in the order the code compares them, and a *)
(* constraint is the set of the versions it admits.                        *)
(***************************************************************************)
EXTENDS Naturals, SequencesExt

\* Mutant...: see Membership.

CONSTANTS Documents,     \* the releases there may be
          Questions      \* what may be asked for: sets of dependencies

\* A lock of no pack is refused (Lock.Validate), so nobody asks for nothing.
ASSUME SolverAssumption ==
    /\ IsFiniteSet(Documents)
    /\ \A d \in Documents :
          {d.id, d.version, d.edition} \subseteq Nat /\ IsFiniteSet(d.needs)
    /\ \A deps \in Questions : deps # {} /\ IsFiniteSet(deps)
    /\ \A n \in UNION (Questions \cup {d.needs : d \in Documents}) : n.id \in Nat

VARIABLES installed,     \* Registry.releases
          asked,         \* the dependencies that were asked for
          lock           \* the answer, {} when it is a refusal

solverVars == <<installed, asked, lock>>

SolverTypeOK ==
    /\ installed \subseteq Documents
    /\ asked \in Questions
    /\ lock \subseteq installed
    /\ \A d, e \in installed : d.id = e.id /\ d.version = e.version => d = e

MutantCandidates(docs, dep) == {d \in docs : d.id = dep.id}

\* The documents that may answer a dependency.
Candidates(docs, dep) == {d \in docs : d.id = dep.id /\ d.version \in dep.admits}

\* What is asked for or needed.
Lookups(docs, deps) == deps \cup UNION {d.needs : d \in docs}

Lowest(deps) == CHOOSE n \in deps : \A m \in deps : n.id <= m.id
Newest(docs) == CHOOSE d \in docs : \A e \in docs : e.version <= d.version

MutantTried(docs, found, selected, rest, dep) ==
    IF Candidates(docs, dep) = {} THEN {}
    ELSE LET d == Newest(Candidates(docs, dep))
         IN found[<<selected \cup {d}, rest \cup d.needs>>]

\* The newest of the candidates with which, and with what they need, the search
\* succeeds: `found` has what comes of the searches after this choice.
Tried(docs, found, selected, rest, dep) ==
    LET with(d) == found[<<selected \cup {d}, rest \cup d.needs>>]
        works == {d \in Candidates(docs, dep) : with(d) # {}}
    IN IF works = {} THEN {} ELSE with(Newest(works))

MutantRound(docs, found, selected, pending) ==
    IF pending = {} THEN selected
    ELSE LET dep == Lowest(pending)
             rest == pending \ {dep}
         IN IF \E d \in selected : d.id = dep.id THEN found[<<selected, rest>>]
            ELSE Tried(docs, found, selected, rest, dep)

\* The dependency with the lowest id first.  One whose pack is selected must
\* admit what was selected.
Round(docs, found, selected, pending) ==
    IF pending = {} THEN selected
    ELSE LET dep == Lowest(pending)
             rest == pending \ {dep}
             same == {d \in selected : d.id = dep.id}
         IN IF same = {} THEN Tried(docs, found, selected, rest, dep)
            ELSE IF same \subseteq Candidates(docs, dep) THEN found[<<selected, rest>>]
            ELSE {}

\* What comes of the search, {} when it fails, by what is selected and what is
\* still to be looked for.
Search(docs, deps) ==
    LET found[at \in (SUBSET docs) \X (SUBSET Lookups(docs, deps))] ==
            Round(docs, found, at[1], at[2])
    IN found

Solve(docs, deps) == Search(docs, deps)[<<{}, deps>>]

\* One pack of the depth-first walk of ordered, by the packs on the way to it,
\* the order so far and its id; `walked` is the walk below it.  <<0>> refuses:
\* a pack that is met on the way to itself, one that is missing, or one that
\* needs another version.
Visit(docs, walked, path, out, id) ==
    IF id \in path \/ ~\E d \in docs : d.id = id THEN <<0>>
    ELSE IF ToSet(out) \cap {0, id} # {} THEN out
    ELSE LET doc == CHOOSE d \in docs : d.id = id
             below == FoldLeft(LAMBDA o, n : walked[<<path \cup {id}, o, n>>], out,
                               SetToSortSeq({n.id : n \in doc.needs}, <))
         IN IF 0 \in ToSet(below) \/ \E n \in doc.needs : Candidates(docs, n) = {} THEN <<0>>
            ELSE Append(below, id)

\* The packs of a lock, each after what it needs.
Ordered(docs) ==
    LET ids == {d.id : d \in docs}
        walked[at \in (SUBSET ids) \X Seq(Nat) \X Nat] == Visit(docs, walked, at[1], at[2], at[3])
    IN FoldLeft(LAMBDA out, id : walked[<<{}, out, id>>], <<>>, SetToSortSeq(ids, <))

\* Resolve: one edition, and an order to compile in, or a refusal.
Resolve(docs, deps) ==
    LET found == Solve(docs, deps)
    IN IF (\A d, e \in found : d.edition = e.edition) /\ Ordered(found) # <<0>> THEN found ELSE {}

-----------------------------------------------------------------------------

\* No two documents of one release.
Immutable(docs) == \A d, e \in docs : d.id = e.id /\ d.version = e.version => d = e

SolverInit ==
    /\ installed \in {docs \in SUBSET Documents : Immutable(docs)}
    /\ asked \in Questions
    /\ lock = {}

Answer ==
    /\ lock = {}
    /\ lock' = Resolve(installed, asked)
    /\ UNCHANGED <<installed, asked>>

\* install refuses a release that is there with another content.
Install(d) ==
    /\ lock # {} /\ d \notin installed /\ Immutable(installed \cup {d})
    /\ installed' = installed \cup {d}
    /\ UNCHANGED <<asked, lock>>

SolverNext == Answer \/ \E d \in Documents : Install(d)

SolverSpec == SolverInit /\ [][SolverNext]_solverVars

-----------------------------------------------------------------------------
(* Properties.                                                             *)

\* What an answer is, without a word on how it is found: one release of each
\* pack, every dependency admitted, and no pack that nobody asked for.
Answers(docs, deps, l) ==
    /\ l \subseteq docs
    /\ \A d, e \in l : d.id = e.id => d = e
    /\ \A n \in Lookups(l, deps) : Candidates(l, n) # {}
    /\ \A d \in l : \E n \in Lookups(l \ {d}, deps) : n.id = d.id

\* Whatever was decided along a path that was given up, the lock that comes out
\* answers everything that was asked and is needed.
LockAnswers == lock # {} => Answers(installed, asked, lock)

\* The search refuses only what cannot be answered, though a dependency met
\* late constrains what was selected early; and the first pack asked for gets
\* the newest release that any answer has.
FindsNewest ==
    LET found == Solve(installed, asked)
        version(l) == (CHOOSE d \in l : d.id = Lowest(asked).id).version
    IN \A l \in SUBSET installed : Answers(installed, asked, l) =>
           found # {} /\ version(l) <= version(found)

\* A lock is reproducible: asked for exactly, it resolves to itself, whatever
\* newer releases have been installed since (AuthorizeLock and the reading of a
\* character rest on it).
Pinned ==
    lock # {} =>
        Resolve(installed, {[id |-> d.id, admits |-> {d.version}] : d \in lock}) = lock

=============================================================================
