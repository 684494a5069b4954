------------------------------- MODULE Packs -------------------------------
(***************************************************************************)
(* Rule packs (usecase/pack/service.go): drafts written at a revision,     *)
(* releases published from them, what a group's table is given to play     *)
(* by, and what a superadmin grants.  A pack's row is one document, saved  *)
(* whole by whoever names the revision it is at; shares and grants are     *)
(* rows of their own.  What a request read of one may have changed when    *)
(* it writes the other.                                                    *)
(*                                                                         *)
(* Of a draft the model keeps its version and the packs it needs.  Who     *)
(* sits at which group, and who is a superadmin, does not change here.     *)
(***************************************************************************)
EXTENDS Naturals, FiniteSets

\* Mutant...: see Membership.

CONSTANTS Authors,
          Homebrew,        \* packs people write
          Public,          \* disk packs that are everybody's
          Private,         \* disk packs a superadmin hands out
          AuthorOf,        \* who writes a pack
          Tables,          \* groups
          SitsAt,          \* who sits at a group
          Superadmins,
          Calls,           \* the requests being served at once
          Nothing,
          Versions,        \* bound: the versions a draft may be given
          Revisions        \* bound: how often a pack is saved

ASSUME PacksAssumption ==
    /\ AuthorOf \in [Homebrew -> Authors]
    /\ SitsAt \in [Tables -> SUBSET Authors]
    /\ Superadmins \subseteq Authors
    /\ Nothing \notin Authors \cup Homebrew \cup Tables
    /\ Versions # {} /\ Revisions \in Nat

VARIABLES pack,      \* rule_packs
          shares,    \* group_rule_packs: what is shared with a group, with its lock
          grants,    \* user_rule_packs
          call

packVars == <<pack, shares, grants, call>>

Disk == Public \cup Private
PackIds == Homebrew \cup Disk

\* The document of a release is what its draft was.
Draft == [version : Versions, needs : SUBSET PackIds]
Release == [id : PackIds, version : Versions, needs : SUBSET PackIds]
ReleaseOf(p, draft) == [id |-> p, version |-> draft.version, needs |-> draft.needs]

\* revision 0: no row.
Record == [revision : 0..Revisions, draft : Draft, releases : SUBSET Release, archived : BOOLEAN]

FirstDraft == [version |-> CHOOSE v \in Versions : TRUE, needs |-> {}]
Blank == [revision |-> 0, draft |-> FirstDraft, releases |-> {}, archived |-> FALSE]
Installed == {ReleaseOf(p, FirstDraft) : p \in Disk}

\* record: what the request will write; lock and known: what a share read.
Call == [step : {"idle", "save", "publish", "share", "unshare"}, by : Authors \cup {Nothing},
         id : PackIds \cup {Nothing}, revision : 0..Revisions, record : Record,
         table : Tables \cup {Nothing}, lock : SUBSET Release, known : SUBSET Release]

NoCall == [step |-> "idle", by |-> Nothing, id |-> Nothing, revision |-> 0, record |-> Blank,
           table |-> Nothing, lock |-> {}, known |-> {}]

PacksTypeOK ==
    /\ pack \in [Homebrew -> Record]
    /\ shares \in [Tables -> SUBSET [id : PackIds, by : Authors, lock : SUBSET Release]]
    /\ grants \subseteq Authors \X Private
    /\ call \in [Calls -> Call]
    /\ \A g \in Tables : \A s, t \in shares[g] : s.id = t.id => s = t

PacksInit ==
    /\ pack = [p \in Homebrew |-> Blank]
    /\ shares = [g \in Tables |-> {}]
    /\ grants = {}
    /\ call = [q \in Calls |-> NoCall]

-----------------------------------------------------------------------------
(* What somebody may use.                                                  *)

\* What the shares of a group let its members use.
AtTable(g) == UNION {s.lock : s \in shares[g]}

Retired == {r \in Release : r.id \in Homebrew /\ pack[r.id].archived /\ r \in pack[r.id].releases}

MayUse(u, p) == p \in Public \/ u \in Superadmins \/ <<u, p>> \in grants

\* Service.available: one's own, what is on the disk and open to one, and what
\* one's groups share, less whatever was archived.
Available(u) ==
    ((UNION {pack[p].releases : p \in {h \in Homebrew : AuthorOf[h] = u}})
     \cup {r \in Installed : MayUse(u, r.id)}
     \cup (UNION {AtTable(g) : g \in {t \in Tables : u \in SitsAt[t]}})) \ Retired

\* A lock is one release of each pack it holds, closed under what they need,
\* and without a circle of needs.
Closed(l) ==
    /\ \A r, s \in l : r.id = s.id => r = s
    /\ \A r \in l : r.needs \subseteq {s.id : s \in l}
    /\ \A c \in SUBSET l : c # {} => \E r \in c : r.needs \cap {s.id : s \in c} = {}

\* Engine.Resolve: a lock around the root and no larger than it must be.
\* Solver has which one.
Locks(docs, root) ==
    LET closed == {l \in SUBSET docs : root \in l /\ Closed(l)}
    IN {l \in closed : \A k \in closed : k \subseteq l => k = l}

-----------------------------------------------------------------------------
(* Writing and publishing.                                                 *)

Read(q, u, asked) ==
    /\ call[q].step = "idle"
    /\ call' = [call EXCEPT ![q] = [asked EXCEPT !.by = u]]

Hang(q) == call' = [call EXCEPT ![q] = NoCall]

MutantSaved(p, record, expected) ==
    /\ (pack[p].revision = 0) = (expected = 0) /\ pack[p].revision < Revisions
    /\ pack' = [pack EXCEPT ![p] = [record EXCEPT !.revision = pack[p].revision + 1]]

\* PackRepository.Save: the whole document, where the revision is as expected.
Saved(p, record, expected) ==
    /\ pack[p].revision = expected /\ expected < Revisions
    /\ pack' = [pack EXCEPT ![p] = [record EXCEPT !.revision = expected + 1]]

\* Create: its id was drawn at random and nobody else has it.
CreatePack(p) ==
    /\ Saved(p, Blank, 0)
    /\ UNCHANGED <<shares, grants, call>>

\* Save and Archive: the revision is the one the caller was last shown.
AskSave(q, p, revision, record) ==
    /\ 0 < revision /\ revision <= pack[p].revision
    /\ Read(q, AuthorOf[p], [NoCall EXCEPT !.step = "save", !.id = p, !.revision = revision,
                                          !.record = record])
    /\ UNCHANGED <<pack, shares, grants>>

\* Publish reads the pack, and must find the revision it was asked for.
AskPublish(q, p, revision) ==
    /\ 0 < revision /\ revision = pack[p].revision
    /\ Read(q, AuthorOf[p], [NoCall EXCEPT !.step = "publish", !.id = p, !.revision = revision,
                                          !.record = pack[p]])
    /\ UNCHANGED <<pack, shares, grants>>

\* Validate reads the draft again, and what it may be resolved against; the
\* version must be a new one of the releases read before.
CheckDraft(q) ==
    LET me == call[q]  release == ReleaseOf(me.id, pack[me.id].draft) IN
    /\ me.step = "publish"
    /\ Locks({r \in Available(me.by) : r.id # me.id} \cup {release}, release) # {}
    /\ \A old \in me.record.releases : old.version # release.version
    /\ call' = [call EXCEPT ![q].step = "save", ![q].record.archived = FALSE,
                            ![q].record.releases = @ \cup {release}]
    /\ UNCHANGED <<pack, shares, grants>>

SavePack(q) ==
    /\ call[q].step = "save"
    /\ Saved(call[q].id, call[q].record, call[q].revision)
    /\ Hang(q)
    /\ UNCHANGED <<shares, grants>>

-----------------------------------------------------------------------------
(* Sharing and granting.                                                   *)

\* Whose release it is to give to another table.
MayPassOn(u, p) ==
    \/ p \in Public
    \/ p \in Homebrew /\ AuthorOf[p] = u
    \/ p \in Private /\ u \in Superadmins

MutantAskShare(q, u, g, root) ==
    /\ u \in SitsAt[g] /\ MayPassOn(u, root.id) /\ root.id \notin Public
    /\ root \in Available(u)
    /\ \E l \in Locks(Available(u), root) :
          Read(q, u, [NoCall EXCEPT !.step = "share", !.id = root.id, !.table = g,
                                   !.lock = l, !.known = AtTable(g)])
    /\ UNCHANGED <<pack, shares, grants>>

\* Share up to its write.  What is not one's own to pass on must be at the
\* table already.
AskShare(q, u, g, root) ==
    /\ u \in SitsAt[g] /\ MayPassOn(u, root.id) /\ root.id \notin Public
    /\ root \in Available(u)
    /\ \E l \in Locks(Available(u), root) :
          /\ \A r \in l : MayPassOn(u, r.id) \/ r \in AtTable(g)
          /\ Read(q, u, [NoCall EXCEPT !.step = "share", !.id = root.id, !.table = g,
                                      !.lock = l, !.known = AtTable(g)])
    /\ UNCHANGED <<pack, shares, grants>>

Withdrawn(g, p) == {s \in shares[g] : s.id # p}

\* One share of a pack at a table: another version replaces it.
PutShare(q) ==
    /\ call[q].step = "share"
    /\ shares' = [shares EXCEPT ![call[q].table] = Withdrawn(call[q].table, call[q].id) \cup
           {[id |-> call[q].id, by |-> call[q].by, lock |-> call[q].lock]}]
    /\ Hang(q)
    /\ UNCHANGED <<pack, grants>>

\* Whoever shared it, or who runs the table.
AskUnshare(q, u, g, p) ==
    /\ u \in SitsAt[g]
    /\ \E s \in shares[g] : s.id = p
    /\ Read(q, u, [NoCall EXCEPT !.step = "unshare", !.id = p, !.table = g])
    /\ UNCHANGED <<pack, shares, grants>>

DeleteShare(q) ==
    /\ call[q].step = "unshare"
    /\ shares' = [shares EXCEPT ![call[q].table] = Withdrawn(call[q].table, call[q].id)]
    /\ Hang(q)
    /\ UNCHANGED <<pack, grants>>

\* Grant replaces all that an account has been handed, at once.
Grant(u, packs) ==
    /\ grants' = {x \in grants : x[1] # u} \cup ({u} \X packs)
    /\ UNCHANGED <<pack, shares, call>>

\* A refusal, a failure or a crash.
HangUp(q) ==
    /\ call[q].step # "idle"
    /\ Hang(q)
    /\ UNCHANGED <<pack, shares, grants>>

PacksNext ==
    \/ \E p \in Homebrew : CreatePack(p)
    \/ \E u \in Authors, packs \in SUBSET Private : Grant(u, packs)
    \/ \E q \in Calls :
          \/ \E p \in Homebrew, n \in 1..Revisions :
                \/ AskPublish(q, p, n)
                \/ AskSave(q, p, n, [pack[p] EXCEPT !.archived = TRUE])
                \/ \E v \in Versions, needs \in SUBSET (PackIds \ {p}) :
                      AskSave(q, p, n, [pack[p] EXCEPT !.draft = [version |-> v, needs |-> needs]])
          \/ \E u \in Authors, g \in Tables :
                \/ \E root \in Available(u) : AskShare(q, u, g, root)
                \/ \E p \in PackIds : AskUnshare(q, u, g, p)
          \/ CheckDraft(q) \/ SavePack(q) \/ PutShare(q) \/ DeleteShare(q) \/ HangUp(q)

PacksSpec == PacksInit /\ [][PacksNext]_packVars

-----------------------------------------------------------------------------
(* Properties.                                                             *)

\* What was published stays published and is never altered, though every save
\* writes the list of releases back as it read it; and what a publication adds
\* is the draft at the revision its author was looking at, though a save may
\* come between the reading, the validation and the write.
ReleasesKept ==
    [][\A p \in Homebrew :
        /\ pack[p].releases \subseteq pack'[p].releases
        /\ \A r, s \in pack'[p].releases : r.version = s.version => r = s
        /\ \A r \in pack'[p].releases \ pack[p].releases :
               r = ReleaseOf(p, pack[p].draft) /\ pack'[p].draft = pack[p].draft]_packVars

\* Nobody brings to a table what is not theirs to pass on: it was there when
\* they looked, however grants, shares and releases change meanwhile.
PassedOnByRight ==
    [][\A g \in Tables : \A r \in (UNION {s.lock : s \in shares'[g]}) \ AtTable(g) :
        \E q \in Calls : /\ call[q].table = g /\ call'[q] # call[q]
                         /\ MayPassOn(call[q].by, r.id) \/ r \in call[q].known]_packVars

=============================================================================
