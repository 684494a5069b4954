# A verification of easydnd in TLA+

easydnd is a Go service with a React client for playing D&D 5e: characters kept
as event logs, groups and games with a shared table, rule packs, passkey
accounts, and the AI Wizard, a chat in which a language model builds a
character while its owner watches, answers and edits. This directory holds
TLA+ modules translated from the code under `src/`, TLC configurations that
check them on small instances, and theorems about them that TLAPS proves for
instances of any size.

| File | What it is |
| --- | --- |
| `AgentStore.tla` | The table `agent_sessions` and the operations of its PostgreSQL adapter |
| `AgentWizard.tla` | Workers, turns, owner's requests, crashes and the clock, over that store |
| `WizardContract.tla` | What a chat promises a reader, with no workers, leases or copies |
| `WizardPage.tla` | The wizard's page in a tab: polls, late answers, controls, over that contract |
| `Membership.tla` | The tables of accounts, groups and members, and their statements |
| `Table.tla` | Groups, the shared table, games and deletions, as requests of several steps |
| `Tracker.tla` | The roster of a game in play: order, resources, rests, locks |
| `HandOver.tla` | Items and coins given, granted and taken |
| `Accounts.tla` | Registration, sign-in, single sign-on, linking, guests |
| `Folders.tla` | Folders, their order, the characters filed in them |
| `Packs.tla` | Drafts, releases, shares and grants of rule packs |
| `Solver.tla` | The search for the releases a character is played by |
| `Shelf.tla` | The four before, side by side, with what all their tables hold |
| `CharacterLog.tla` | What a character's log leaves open, accepts, and keeps when it is revised |
| `UserRows.tla`, `UsersContract.tla` | What an account is to its store, and what any store of accounts promises |
| `MemoryUsers.tla`, `PostgresUsers.tla` | The two stores of accounts, each against that contract |
| `TablesContract.tla`, `MemoryTables.tla` | What any store of groups, shared tables and games promises, and the ones in memory |
| `FilesContract.tla`, `MemoryFiles.tla` | What any store of folders, characters and packs promises, and the ones in memory |
| `MemoryStores.tla` | All the stores in memory, as an application without a database holds them |
| `Filter.tla` | The part of a list that is in a set |
| `MCAgentWizard`, `MCWizardLiveness`, `MCTable`, `MCMemory`, `MCStores`, `MCTracker`, `MCShelf` | The instances TLC checks |
| `MCWizardClaims.tla`, `MCAccountLoads.tla` | What the docs and comments say of the wizard and of an account's load and the code does not keep |
| `AgentWizardProofs.tla` | The wizard's inductive invariant, lemmas, and theorems |
| `WizardContractProofs.tla` | That the wizard implements `WizardContract` |
| `WizardPageProofs.tla` | What a tab shows, for chats of any length |
| `TableProofs.tla` | The table's inductive invariant and theorems, for requests that race and for one at a time |
| `TrackerProofs.tla` | The roster, hand-overs and the log |
| `ShelfProofs.tla` | Accounts, packs, folders and the solver, each and together |
| `MemoryProofs.tla` | That every store in memory implements its contract, each and together |
| `PostgresProofs.tla` | That the store of accounts in PostgreSQL implements its contract |

## 1. Inventory

Paths are under `src/internal` unless said otherwise.

**The Wizard's store** (`adapter/repository/postgres/agent.go`,
`usecase/agent/store.go`, migration `00007_agent_sessions.sql`). State: a row
per chat (status, revision, generation, finished, the character's id and
revision as last seen, turns spent, transcript, lease owner and end) and an
append-only event log. Operations: Create, Update (load, change, write under
the row's lock), Claim (`FOR UPDATE SKIP LOCKED`), Save and Append (carrying
`lease_owner = me AND generation = mine`), Delete, Sweep. Hard: a row's status
and lease are written together in four places; a turn's write races the
owner's. Correct when a row is running exactly when it is leased, at most one
turn can write a chat, and a refused write changes nothing.

**The Wizard's coordinator** (`usecase/agent`: `agent.go`, `agent_turn.go`,
`agent_lifecycle.go`, `agent_session.go`, `state.go`). State per process: the
workers, and the map `running` from a chat to the cancel function of its turn.
Workers are woken each second, claim a chat, run one turn of the model on
*their own copy* of it and save the copy back; requests of the owner's (open,
rules, message, stop, resume, finish, add files, discard) change the stored row
at any moment, then cancel the local turn. Hard: everything. Correct when an
owner's decision is never undone by a late save, when the stored transcript can
be sent by whoever takes over, when a reader sees only legal moves, and when
every chat comes to rest.

**The Wizard's tools** (`agent_tools.go` and its siblings). Each call reads or
changes a working copy of the character and may end the turn with a question
or a review. What matters to the rest: whether it writes the character (at the
revision it read) and how it leaves the turn.

**The model provider** (`adapter/agent/openai`). An HTTP client of an outside
service: any number of tool calls, or a failure.

**The Wizard page** (`src/web/src/features/characters/useAgentSession.ts`,
`api/http/v1/character/agent.go`). The page polls with the revision and event
it knows, merges answers that may arrive late, and sends controls at a
revision. Correct when what it shows never goes back, when it ends up showing
the chat as it is, and a control based on an old view is refused.

**Characters** (`usecase/character`, `domain/character`,
`adapter/repository/postgres/character.go`). A character is a log of events
with a revision; every write names the revision it was based on. From a log and
the catalogue follow the questions it leaves open (`Prompts`), and an event is
accepted when it answers them (`validate.go`); an entry replaced or removed has
everything after it replayed by the same predicate (`revise.go`). Around it are
the sheet derived from the log, limits, folders, copies, copy links and import.
Hard: concurrent commits at one revision, a replay that must drop what is not
legal any more and nothing else, the delete cascade over several stores.

**Groups** (`usecase/group`). Members with roles, and invitation links that
cannot be withdrawn. Hard: the one owner (a unique index) under transfer, leave
and removal; a rank that changes between its check and the write.

**Games, the shared table and the tracker** (`usecase/game`). Seats, shared
characters, a roster in one row with its revision, hit points and resource
pools, rests, handing over items and coins. Hard: unsharing is two steps and
seating checks sharing before it seats; an item is handed over by two commits
and a compensation; pools are read before the roster is locked.

**Accounts** (`usecase/auth`, `adapter/webauthn`, `adapter/oidc`,
`adapter/token`). Passkeys, ceremonies in sealed envelopes, single sign-on
flights, linking and unlinking, guests. The server keeps no session: what it
signed is good until it expires. Hard: two first sign-ins at once, two unlinks
at once, an envelope presented twice.

**Packs and the catalogue** (`usecase/pack`, `adapter/catalog/file`). Drafts
saved at a revision, releases, shares and grants, and a solver that picks the
versions a character is built with. Hard: a release validated against a draft
that moves, a share passed on while the grant behind it is taken back, a search
that backtracks.

**The account stores** (`adapter/repository/memory/user.go`,
`adapter/repository/postgres/user.go`, behind the port `domain/user`, whose
promises the suite `adapter/repository/repotest/user.go` states for any
adapter). State: accounts, their credentials and identities. Hard: the memory
store keeps its index of proofs by hand; a PostgreSQL method is a transaction of
several statements, which race, wait for each other and may lose the answer of
their commit. Correct when both answer as the contract allows.

**The other stores in memory** (`adapter/repository/memory`: `group.go`,
`game.go`, `folder.go`, `character.go`, `pack.go`, promised by the suites of
`adapter/repository/repotest`). The development server and the tests of
everything above run on them. State: maps under a mutex. Hard: one thing is
kept in two maps (a group and its seats, a pool and its order, a game and its
roster), and the positions of folders are counted, never closed up. Correct
when every answer is one the port's contract allows, whatever was called
before.

**The rest.** Administration deletes accounts and characters through the other
services; profile and appearance read and write single rows. `internal/app`
starts everything and stops it in order: requests first, the Wizard next, the
pool last. The command line tools and the rest of `src/web` are front ends.

How they interact: the Wizard calls the character service to create, commit,
dress and delete the character of a chat, on connections of its own, not in the
chat's transaction; games ask characters for sheets and write items back to
their logs; deleting a character, a member or a group calls the stores of the
others in turn; packs and characters meet in the catalogue. Nothing is shared
in memory between processes: everything goes through PostgreSQL.

`PROJECT.json` lists the hazards of all of these, each at its line, with the
properties that would notice it going wrong. Two have none, each with the
reason: what happens there is visible in the model and no document of the
repository, or only one the code plainly does not follow, says otherwise.

## 2. Plan

Done: every module of the table above, checked by TLC; and theorems for the
Wizard and its contract, its page, groups and the shared table, the tracker,
hand-overs and the log, accounts, folders and packs, the solver, both account
stores against their contract, and every other store in memory against its own
(section 7).

Left, in order of what it would add:

1. `KeepsContract` where a lease may be overrun, with one worker to a process:
   the argument of section 7 must then speak of the copy of an overrun turn,
   which no longer agrees with the row and can no longer be saved either;
2. the content of packs: decoding, validation and conversion;
3. the sheet as a function of the log: changes, abilities, resources, money;
   imported (observed) entries and custom options in `CharacterLog`.

## 3. The model of the Wizard

### What is a step

A step is one round trip to the database: a statement or a transaction on one
row, which PostgreSQL makes atomic. What a turn computes in memory before a
round trip belongs to the step that makes it. A transaction that does something
else while it holds the row's lock is two steps: the first message of a chat
(`Begin`, `BeginCommits`) creates a character on another connection meanwhile,
and Finish (`Finish`, `FinishCommits`) dresses it. Between the two, `Locked`
makes writers wait and the claim skip the row.

### State

| Variable | In the code |
| --- | --- |
| `row[s]` | the row of chat s; `unanswered` is the number of tool calls of its transcript without an output, `events` the length of its log in writes, `seen` the character's revision as the chat knows it |
| `lease[s]` | `lease_owner`, and whether `lease_until` is past |
| `char[s]` | the character the chat makes: stored or not, its revision, the edits its owner made |
| `proc[p]` | an API process: serving, draining after a signal, or gone |
| `running[p][s]` | `Agent.running`, with the worker in place of the cancel function |
| `worker[w]` | a worker goroutine: where its turn is, its own `AgentSession` (`copy`), how many calls of the response are left, and whether its context is done |
| `request[q]` | a request of the owner's between two of its steps |

`told` in a record counts the edits of the owner's the assistant was told of: a
history of what the edit events say, which no action reads.

### Actions

- `Look`, `ClaimTurn`, `ClaimNothing`: `Agent.worker` reads the busy chats,
  then claims. A claim whose event read fails, or whose answer is lost, is
  `ClaimTurn` followed by `LoadFails`: the row is leased and nobody runs it.
- `Load`, `LoadFails`, `CharacterGone`: the turn registers, reads the
  attachments, finds its character deleted.
- `Delta`, `DeltaRefused`, `ModelFails`, `ModelAnswers`: the response, streamed
  through `Append` or not. All chunks are one.
- `CallNotRun`, `CallFindsNoCharacter`, `CallReads`, `CallWrites`, `Push`,
  `PushRefused`, `Reread`: one tool call: pull, the tool, push (a commit, then
  a read), and the save after it. `EndTurn`: the last save.
- `Open`, `CreateStart`/`CreateKeep`, `Rules`, `Begin`/`BeginCommits`,
  `Control` (stop, resume, retry, message), `AddFiles`,
  `Finish`/`FinishCommits`, `DiscardLoads`/`DiscardCharacter`/`DiscardRow`: the
  owner's requests. Each ends in `Stop`, which cancels the turn *this* process
  runs for the chat. A refused request changes nothing and is no step.
- `OwnerEdits`, `OwnerDeletes`: the builder is open all the time.
- `LeaseLapses`, `SweepIdle`, `DeadlinePasses`: the clock. `Drain`, `Exit`,
  `Crash`: processes. A crash takes the process's workers, registrations and
  requests; committed rows and created characters stay.

Every write of a turn and every control may fail before its commit or lose its
answer after it, and a turn may run out of time, at most `MaxFaults` times in a
behaviour (crashes are not counted). A lease lapses under a live turn only
where `MayOverrun` is TRUE; then it costs a fault. `src/docs/agent.md:404` says
a turn cannot outlive its own deadline, which `MayOverrun = FALSE` takes at its
word; `WizardTakeover` does not. Should a turn outlive its lease, another
process cannot write beside it, as the fence compares the lease's holder
(`LateTurnWritesNothing`). Another worker of the *same* process can: if it
noted the busy chats before the turn was registered (`agent_turn.go:112-117`)
and is handed the chat when the lease lapses, holder and generation are the
same for both. `OneWriter` is therefore stated, checked and proved where no
lease is overrun.

### What is abstracted

The transcript is a count of unanswered calls, the log a number of writes
(several events of one write are one), the character a revision. Limits (the
number of chats and characters, sizes, the daily allowance), the check of a
request's revision and the replay of an operation already in the ledger only
refuse a request or repeat an answer; requests are allowed at any moment
instead. `touched_at` is not kept: a chat may be idle for a day between any two
steps. Reads of the provider's or the database's that fail while the model is
asked are `ModelFails`. `Drain` waits for the requests its process serves, as
`App.Run` does before `App.Close`; a shutdown whose grace period runs out is
like a crash of the requests left. A process that starts is an instance that
has done nothing yet. The memory store of `store.go` differs in one thing: it
accepts an event id that is taken.

## 4. The models of the other components

Everywhere a step is one round trip to the database. A service method is a
*request*: a record that holds what it has read and what it does next. Requests
interleave as they like, and one may end after any of its steps: a refusal, a
failure of the database and a crash of the process look the same to the rest
(`Abandon`, `Drop`, `Cut`, `GiveUp`, `Fail`, `HangUp`). Limits are counted
before a write and only ever refuse; what is refused whatever happens meanwhile
is no step at all.

**`Membership` and `Table`.** `rank[g][u]` is `group_members`, `pool[g]`
`shared_characters`, `roster[x]` the player entries of a game, `request[q]` a
method of the group, game, character or admin service between two steps. The
operators of `Membership` are the adapter's statements with the keys and the
unique index on owners; `Table` has the methods: ranks, transfer, removal,
invitation, sharing and unsharing, games, seating, and the three deletions.
`Find`, `Clear`, `Withdraw`, `Erase` are the deletion of a character;
`EndAll`, `ClearTable`, `Close` that of a group; `AskPurge` to `PurgeAccount`
that of an account, which calls the other two (`purging`) and then goes on.
Reads of what can only ever go (an account, a character, a game) are joined to
the read before them; a rank, which can come back, is read in a step of its own.

**`Tracker`.** `entries` is the roster of one game in its order. A request
reads the actor's rank, and for spending and short rests the roster and the
sheets, before the lock (`Ask...`); the change runs under `MutateEntries` on
the roster as it is by then. Masters are demoted and promoted meanwhile
(`Rerank`).

**`HandOver`.** A gift is `take`, `hand` and, if the second fails, `back`, each
a reading (`Decide`) and a commit at the revision read (`Commit`). Owners edit
and delete their characters and change their rule packs in between. `fault`
says what befell the last step, so that the properties can say what may be lost
in a crash and what may not.

**`Accounts`.** `held` is which proof (a passkey or an outside identity) leads
to which account; `sealed` and `signed` are the envelopes and sessions that
have not expired. That a proof is genuine is the libraries' business and taken
as given. `Store` and `AddIdentity` carry the unique keys. A sign-in is a chain
of round trips: the proof's account is found, the sign-in is recorded (`Touch`,
`CreateAccount`, `Add`, `FinishRegistration`), the account is read once more
where the code does (`Reload`, after `TouchIdentity` and `AddIdentity`), and
then the session is signed without another look at the database (`Issue`). What
the request carries may be disconnected, connected elsewhere or deleted before
any of these.

**`Folders`.** Two stores, one of folders and one of characters: a request
looks in one and writes to the other. Folder positions are those of the table,
`Listing` the order a reader gets. The store's reorder is a transaction of two
statements, and three steps: `ReadOrder` is the rows its SELECT sees,
`LockOrder` the rows it returns once it has waited for whoever holds one, with
the comparison (`CheckReorder`), and `PutOrder` the UPDATE and the commit.
Between the last two `LockedRows` makes a deletion and another reorder wait,
and an INSERT does not.

**`Packs`.** A pack is one document saved under its revision (`Saved`).
Publishing reads it, validates what it reads *again*, and saves. `Locks` says
which sets of releases a resolution may answer with; **`Solver`** has the
search itself, and compares it with `Answers`, a definition that says nothing
of how to search. A release that is installed later must not move a lock. The
code recurses; `Search` is a recursive function on what is selected and what is
still to be looked for, one call of it a `Round`. The loop over candidates,
newest first, that stops at the first with which the rest succeeds is `Tried`,
the newest of those with which it does. `Ordered` is the walk that puts a lock
in order (`Visit`).

**`Shelf`** puts `Accounts`, `Folders`, `Packs` and `Solver` side by side, any
steps of the four in any order.

**`WizardPage`.** One poll and one control are under way at a time, as in the
hook. The row and the events are read by two statements, an answer arrives at
any later moment, and requests are lost. The chat it reads is `WizardContract`:
since `AgentWizard` is shown to keep that contract, the page need not carry the
workers' state.

**`CharacterLog`.** `Prompts` folds a log to what it chose, the level it
reached, what it leaves open and what it holds; `Accepted` is the predicate of
an append; `Replayed` what a replay makes of one later entry; `Revisions` the
outcomes of replacing or removing an entry. A tab (`View`, `Load`, `Commit`)
writes under the revision it was shown, or, as old clients do, under the length
it thinks the log has, while others write (`WriteElsewhere`). One answer is one
pick and a question asks for one.

**`UsersContract`, `MemoryUsers`, `PostgresUsers`.** The contract has the
port's operations, each one step with one answer: done, refused, missing,
found, or failed. An answer of a write may be lost, and then the caller is told
it failed though the write happened. `MemoryUsers` holds `items` and `index`
(`byCredential` and `byIdentity`), and every method is one step, under its
mutex. `PostgresUsers` holds the tables `users` and `ways` as committed, and in
`tx` the transactions in flight, one step per statement: what a unique key, a
row lock and a foreign key make a statement wait for is its guard. Its methods
of one statement are one step. `said`, `told` and `reply` are the last answer,
which no step reads. Several mentions of one proof in a single Create, the
admin's search and the statements a cascade is made of are left out.

**`TablesContract`, `MemoryTables`, `FilesContract`, `MemoryFiles`.** A
contract holds what a caller can tell of a store: a group's owner and ranks, a
pool in its order, a game's roster, an owner's folders in their order, the
characters in the order they were made, packs, shares and grants. The stores
hold the maps of the code, and the mapping at the end of each module reads the
one from the others. Where the code keeps part of a list (a loop with a test,
`slices.DeleteFunc`), the model has `Only` of `Filter`. **`MemoryStores`** is
all of them and the accounts, as `newRepositories` of `app.go` makes them
without a database: calls of any store in any order. A call is one step with
one answer. `MutateEntries` takes whatever roster its caller makes of the old
one; `Tracker` is what the callers make. A folder's place is where the contract
is looser than its comment: see *Folders* in section 5. Ids of characters and
folders are numbers; the code writes them with six digits, so they sort as
numbers below a million.

## 5. Runs

| Run | Instance | Checks | Distinct states |
| --- | --- | --- | --- |
| `WizardControls` | 1 process, 2 workers, 1 chat, 1 request, 1 control | `TypeOK`, `LeaseIffRunning`, `OneWriter`, `FinishedStays`, `LateTurnWritesNothing`, `KeepsContract` | 5,476,460 |
| `WizardTakeover` | 2 processes of 1 worker, responses of 2 calls, 1 fault, leases may be overrun | `SendableTranscript`, `LateTurnWritesNothing` | 4,191,425 |
| `WizardLiveness` | 2 processes of 1 worker, 2 turns to a message, 1 fault; beside it the page: revisions to 4, 3 writes of events, 1 lost request | `ComesToRest`, `ReadsOn`, `CatchesUp` | 1,286,557 |
| `TableCrashes` | 2 people, 2 groups, 2 characters, 1 game, 1 request, accounts are deleted; beside it the stores in memory: 2 accounts; 2 groups, 3 people, 2 characters, 1 monster, 2 games; 4 folders, 2 characters, 4 logs, 2 packs, 1 release, 3 revisions | `OwnerKept`, `SeatsAreShared`, `NoGhosts`, `TakesNothing`, `StoresInMemory` | 1,150,425 |
| `RacesAndStores` | 3 people, 1 group, 1 character, 1 game, 2 requests; beside it 2 accounts, 1 passkey, 1 identity, 2 requests | `TypeOK`, `OneOwner`, `HandsOver`, `RankedByOwner`, `UsersInPostgres` | 1,911,663 |
| `Tracker` | 1 player, 2 monsters, 1 DM, 2 requests; beside it 2 characters, 2 requests, and a log of 4 entries, 5 revisions | `RosterSound`, `MovesOne`, `LockHolds`, `NeverDuplicates`, `NothingLost`, `Settled`, `CommitsOnWhatItSaw` | 2,576,301 |
| `Shelf` | 2 accounts, 1 guest, 1 passkey, 1 identity, 2 requests; 4 folder ids, the fourth where no character is filed; 1 homebrew and 1 private pack, 3 saves; 11 releases of 3 packs | `ShelfTypeOK`, `OneHolder`, `CreatedWhole`, `SignsInHolder`, `OneDefault`, `OrderedAsAsked`, `EmptiedFirst`, `ReleasesKept`, `PassedOnByRight`, `LockAnswers`, `FindsNewest`, `Pinned` | 2,075,048 |
| `ClaimOneTurn`, `ClaimStopped`, `ClaimTold`, `ClaimDiscard`, `ClaimLoad` | the smallest that shows it | one claim each, violated | |

**Components side by side.** `MCWizardLiveness`, `MCMemory`, `MCStores`,
`MCTracker` and `MCShelf` hold several components that share no variable. A
step of one changes nothing another reads, so their interleavings say nothing
new; each is explored with the others as they begin, and a behaviour of the run
is one of each component alone. `Shelf` and `MemoryStores` interleave theirs
without that restriction, and what is proved of them (`ShelfTyped`,
`StoresKeepContract`) is proved for every interleaving; `MCShelf` and
`MCMemory` take a part of their steps. What fairness speaks of is never enabled
in a component that rests.

### The Wizard and its page

- **WizardControls** asks what the owner's controls do to turns in flight. Two
  workers of one process are enough for a second turn beside the first; one
  control moves the generation once, and a second would meet the same guards
  with larger numbers. `FinishedStays` relates a late save's copy to the stored
  row; `LateTurnWritesNothing` says a turn whose chat moved to another
  generation changes no chat whatever it does from then on. `OneWriter` is
  asked of the two workers of one process, which the lease's holder does not
  tell apart: that a control fences the turn before another begins is all that
  keeps them from one chat, and it fails there if the generation does not move.
- **WizardTakeover** asks what processes do to each other, also where a turn
  outlives its lease. One worker in each is enough for that, as workers of
  different processes share only the store; what two of one process do to each
  other when a lease is overrun is told in section 3. The owner sends nothing,
  so that nothing but the lease fences the writer: `LateTurnWritesNothing`
  fails there if the lease's holder is not compared. Responses are of two
  calls: with one there is never a call pending after a save. The processes are
  interchangeable and used as a symmetry set; nothing in the run depends on
  which is which.
- **WizardLiveness** needs a second turn for a message (`MaxTurns = 2`) so that
  a chat goes back to queued and round again, a second process to take over,
  and one fault to lose a turn without a crash. The page needs two revisions to
  be behind, one more to be overtaken while it is, and one for its own control;
  `ReadsOn` says that what it shows never goes back whichever answer is late,
  `CatchesUp` that it ends up showing the chat whole.
- One chat is enough for the safety properties: a step of one chat reads and
  writes no other's row, and the only thing chats share is a worker, which
  holds one at a time. The theorems of §7 hold for any number.
- `KeepsContract` is the refinement: each chat of `AgentWizard`, read through
  its status, revision, generation, finished and events, is a behaviour of
  `WizardContract`. The contract says which moves a status makes, that every
  change of status but one raises the revision (a page that polls by revision
  depends on it), that only the owner moves the generation, and that the log is
  added to one write at a time. The exempt move is a turn given back by a
  process that stops, for which the code does not raise the revision
  (`agent_turn.go:212`); `src/docs/polling.md:55` says any change of status
  does.

### The table, the tracker and the shelf

- **TableCrashes** asks what is left when a request is cut short at any step,
  over two groups, as a character may be on several tables and an account in
  several groups. Of the stores in memory it has an owner, one to hand a group
  to and one who stays; two games, so that one keeps its roster while another's
  goes; the default folder and three others, so that two can be deleted and the
  next lands in the gap they leave; logs of none, one and two entries and one
  that does not validate, with three revisions to commit them at.
- **RacesAndStores** needs three people, for an owner and two others whose
  ranks change, and two requests to race. Accounts are not deleted there:
  deleting one strands its groups, and migration `00003_groups.sql` says so. Of
  the account stores it has two ids, so that a proof can be taken, and one
  proof of each kind, so that an account can hold both; the appearance is one
  of two in memory and one in PostgreSQL, where two requests are in flight
  instead. The states are compared by a VIEW that leaves out the last answer:
  no step reads it, and the two refinements are checked on steps, each of which
  is taken from every state it is enabled in.
- **Tracker** has three entries, the fewest in which a move can go wrong by
  one, and as many as the limit allows, so that a fourth is refused. Two of
  something to give (one in the backpack, one in the loot) let a gift take from
  both. The log has two races, a subrace, and a class that asks for a
  proficiency, a spell and a branch that asks again: four entries are the
  shortest log in which an entry rests on one of another kind, and removing
  either is followed by a replay; the fifth revision lets a log shrink and grow
  back to the length a tab remembers.
- **Shelf**. Two requests race in each component. Four folder ids are enough to
  delete one, make another and reorder, with a folder made between the two
  statements of a reorder; characters are filed among the first three only
  (`FourthAlone` in `MCShelf`), for a fourth repeats what a third does to them.
  A reorder may name any of the owner's folders, so that one that has grown
  stale since is among them; `OrderedAsAsked` fails if the rows are not locked.
  Three revisions of a pack to save between the two readings of a publication
  and to overwrite a stale one. The eleven releases hold chains, a newer
  release that admits less, a circle and a second edition; every set of them in
  which a release is one document is tried.
- Symmetry is used for people who own nothing in the model, for two people who
  trade places together with the characters they keep (`Trades`), for requests,
  characters in hand-overs, monsters and account ids; no constant, initial
  state or property tells them apart. No run with symmetry checks liveness.

Deadlock is not checked: a wizard whose chats rest and whose processes are gone
may stop, and so may a table whose games are over. Every action is taken in
some run.

### Fairness

`ComesToRest` says that if some process keeps serving from some time on, a chat
that is queued or running comes to wait, to be reviewed, paused, failed or
gone. It assumes weak fairness of each worker's steps, of each request once
begun, and of the clock that ends a lease, one worker, request or chat at a
time. The code justifies each: `tick` wakes the workers every second for as
long as the process runs and a turn's loop does not wait for anything else (a
model request has a timeout, which ends in `ModelFails`); a request is served
by its own goroutine; and `lease_until` is a fixed time that `now()` reaches.
Nothing is assumed about the owner, crashes, faults, drains or sweeps. The
property fails when a running row with a lapsed lease is not claimable.

`CatchesUp` assumes weak fairness of the poll loop alone: the tab is open and
shown, its loop asks again a second after an answer or a failure, and of the
requests it makes only `MaxLost` come to nothing.

### What the docs say and the code does not do

Five statements of the repository are checked and found violated; TLC prints
the steps.

- **`OneTurnPerProcess`**. The busy chats are read before the claim and the
  turn is registered after it (`agent_turn.go:114`), so a second worker can be
  given the chat the first is about to register, once a control has queued it
  again. The first writes nothing to the chat, but its pushes to the character
  are not fenced by the generation.
- **`StoppedHoldsNothing`**. A turn whose process stops while a chunk is
  streamed or attachments are read returns without saving; its chat waits for
  the lease's end.
- **`ToldBeforeWriting`**. An edit between a push's commit and the read after
  it becomes the working copy without an edit event, and the next call writes.
- **`DiscardTakesCharacter`**. A discard that loaded the chat before its first
  message removes the row and leaves the character made meanwhile.
- **`LoadedAtOneInstant`**. An account is read by three statements of a
  transaction without an isolation level (`postgres/user.go:134`), so an
  identity unlinked between them is missing from the account it led to, which
  the comment above says cannot be. A link of another proof that is committed
  meanwhile shows in the same way.

Read in the code or seen in the models, and not given a run of their own:

*The Wizard.* A chat that was finished can be queued again by `AddFiles`, which
does not ask (`agent_lifecycle.go:493`, against `src/docs/polling.md:92`), and a
page that stopped polling a finished chat does not learn of it; `Agent.stop`
runs after the change was committed and may cancel the turn that answers it; the
budget of turns is asked after a response, so that a turn taken over at its
limit spends one more; the first save comes after the first tool call, not after
the model's response (`src/docs/agent.md:412`); saves between calls do not raise
the revision (`src/docs/agent.md:337`). A whole read pairs an old row with newer
events, so a control's answer may hold fewer events than the page showed; the
next poll puts them back.

*The table.* `SeatsAreShared` and `NoGhosts` hold for one request at a time and
fail with two: a character is seated between the two steps of its unsharing, or
shared between the steps of its deletion. A group may be left without an owner
when an account's deletion races a transfer or the opening of a group. A rank
or a right that was read and lost before the write is still acted on (in the
group's methods and under the roster's lock alike). A short rest gives back
what was spent when it was read (`tracker.go:404`), so that what is spent in
between is given back too where the pool was not full.

*Hand-overs.* The lost answer of a recipient's commit gives the item to both,
which `items.go:217` says cannot happen; `NeverDuplicates` has the exception.

*Accounts.* A sign-in is recorded only for the account that holds the proof,
and its session signed a read or two later: an identity that is disconnected in
between, and connected elsewhere, still gets that session (`sso.go:200`,
`:204`, `:182`; `service.go:282`, `:286`). Two unlinks at once remove the last
way in (`sso.go:283`, `src/docs/backend.md:1841`). A guest who has a row can
link an identity to it. A registration whose envelope is presented again after
its account was deleted makes the account again under the same id.

*Folders.* A folder made between the two statements of a reorder is not among
those it compared, and stays in the listing beside them
(`postgres/folder.go:130`, `:143`): what the comparison and the positions agree
on is the rows that are locked, as the comment there says. After two deletions
a new folder is given a position before older ones (`postgres/folder.go:63`,
`src/docs/backend.md:960`). A character filed into a folder after its deletion
listed it is left naming a folder that is gone; one moved out of it meanwhile
is deleted nevertheless.

*The log.* An entry that answered a question of a selection that is then
deleted may be replayed as the selection itself, so that one entry both selects
and answers (`src/docs/dnd.md`, "one entry is one selection"). A spell edited at
today's level is judged at its place's level by the next replay and dropped by
any edit before it, even a renaming, although `src/docs/backend.md` says a
revalidation is never stricter; `Settled` excepts spells. A prerequisite is
judged by the prefix where it is met.

*The solver.* A search that finds a lock with a circle, or of two editions, is
refused without trying for another; `FindsNewest` speaks of the search before
that check.

## 6. Mutants

Every property of a passing run has a mutant in `PROJECT.json`: an operator
`Mutant...` beside the one it would replace, written as a plausible mistake: a
lease not given up, an owner or a generation or a revision not compared, an
event appended unchecked, rows read without locking them, a unique key
forgotten, an unseating left to later, a compensation left out, an index not
moved when the entry before it goes, a replay that keeps everything, a search
that does not go back. With it in place TLC finds the property violated in the
same run. Nothing else uses these operators.

## 7. Proofs

### The Wizard

The theorems are in `AgentWizardProofs.tla`. They hold for any number of
processes, workers, chats and requests and any of the bounds, from
`NoOneAssumption` (the value for "nobody" is no process and no chat) and
`BoundsAssumption` (workers are numbered from 1, bounds are naturals).

| Theorem | States |
| --- | --- |
| `Inductive` | `Spec => []IInv` |
| `TypeCorrect` | `Spec => []TypeOK` |
| `LeaseCheckHolds` | `Spec => []LeaseIffRunning`, the table's CHECK constraint never fails |
| `AlwaysSendable` | `Spec => []SendableTranscript` |
| `FinishIsFinal` | `Spec => FinishedStays` |
| `LateTurnsAreShutOut` | `Spec => LateTurnWritesNothing` |
| `WritersAlone` | `Spec => []OneWriter`, assuming `~MayOverrun` |

None of the properties is inductive alone. `SendableTranscript` needs to know
how many calls a *worker's copy* leaves unanswered at each point of a turn, for
`encode` to answer exactly those; that a count does not go below zero, a part
of `TypeOK`, needs the same. `FinishedStays` needs that a turn whose generation
is the row's has a copy that agrees on `finished`; that in turn needs every
copy's generation to be at most the row's, and no turn to be on a chat that was
never created. The steps that commit under a lock need the row as the request
found it. `IInv` is the conjunction:

- `StoreInv`: types, the lease check, sendable rows, and that an id nobody drew
  is not finished;
- `TurnsInv`: for each worker in a turn, its chat, its copy and its count of
  unanswered calls (`TurnOK`);
- `RequestsInv`: what a request between two steps knows of its chat, and that
  two of them do not hold one lock;
- `RestType`: the types of the other variables.

The proof goes in layers. Lemmas about operators (`EndedKin`, `EncodeKin`,
`ControlsFence`...) say what a record becomes; lemmas about the store
(`UpdateKeeps`, `ClaimKeeps`, `AppendKeeps`...) that a write preserves
`StoreInv`; frame lemmas (`TurnsKept`, `RequestsKept`) that turns and requests
stay in order when only one of them moves and rows change as `RowsStep` allows.
Then one lemma per action proves `Kept`: the invariant holds again, no row's
generation goes back or loses `finished` (`RowsStep`), and a late turn wrote
nothing (`LateStep`). `NextKeeps` collects them, and the theorems follow from
it. `WritersAlone` has an invariant of its own, `Sole`: every turn of
its chat's current generation holds the chat's lease, which has not lapsed, and
is the only such turn. Only a claim could break it, and a running chat is
claimed only when its lease has lapsed, which `~MayOverrun` excludes while such
a turn lives. `LateTurnsAreShutOut` does without that assumption: `LateStep` says
that a turn which changes a row holds its lease *and* is of its generation.

### The Wizard and its contract

`WizardContractProofs.tla` adds `ContractKept`: `Spec => KeepsContract`,
assuming `~MayOverrun`. Every chat of the Wizard, whatever the others do, is a
behaviour of `WizardContract`.

The difficulty is that a turn does not change the row: it saves the copy it
claimed and has changed since. The contract's revision and log move by one from
the *row*, so what the copy says must be what the row said. `CopiesInv` adds to
`IInv` and `Sole`: the copy of a turn of the current generation has the row's
revision and number of events (`Faithful`), and its status is one a turn may
leave (`SoundStatus`); a chat that is absent is blank (`AtRest`), so that an
arrival is the contract's; and a request that discards or finishes found a chat
(`Discards`). `Sole` is what makes `Faithful` inductive: a write by another turn
of the same generation would leave the first one's copy behind, and there is no
other; a write of the owner's moves the generation or the lease, after which the
turn is current no longer. This is where `~MayOverrun` is needed.

### The page

`WizardPageProofs.tla`: `ReadsOnAlways` is `PageSpec => ReadsOn`, from no
assumption, for any number of events, revisions and lost requests. `PageSpec`
is the page without fairness.

`PageInv` says: what is shown, and every answer under way, is a run of the
chat's first events, and nothing is known of a chat that it has not reached
(`Reached`). The point is what a tail may be appended to. A poll asks for
events after those shown; when it comes back the tab may show another session,
merged from a control's answer. `merge` is right if the events asked for start
no later than where those shown end. A control's answer of the same revision,
or a newer one, may hold *fewer* events than are shown, as its row and its
events are two reads. `NotBefore` says why no gap results: an answer that is
waiting to be merged is older than what is shown, and dropped, or it reaches at
least to where the poll's tail begins. That it is so when the row is read
follows from the comparison of revisions: a tail is sent only to a poll that
names the chat's revision, and one whose tab has moved on since (the case
`PollHolds` keeps apart, `poll.revision < view.revision`) names an older one
and is sent everything.

### The table

`TableProofs.tla`, for any people, groups, characters, games and number of
requests at once, from `TableAssumption` (a character has a keeper, a game a
group, and nobody is `NoOne`).

| Theorem | States |
| --- | --- |
| `TypeCorrect` | `Spec => []TypeOK`, the foreign keys among it |
| `OneOwnerAlways` | `Spec => []OneOwner` |
| `OwnerKeptAlways` | `Spec => []OwnerKept`, assuming `~Purges` |
| `HandsOverAlways` | `Spec => HandsOver` |
| `RankedByOwnerAlways` | `Spec => RankedByOwner` |
| `PublishedByKeeperAlways` | `Spec => PublishedByKeeper`, which no run checks |
| `SeatsAreSharedAlone` | `Spec => []SeatsAreShared`, assuming `OneAtATime` |
| `NoGhostsAlone` | `Spec => []NoGhosts`, assuming `OneAtATime` |
| `OwnerKeptAlone` | `Spec => []OwnerKept`, assuming `OneAtATime`, with accounts deleted |
| `TakesNothingAlone` | `Spec => TakesNothing`, assuming `OneAtATime` |

`~Purges` is needed: the cascade from `users` strands the groups an account
owns, as the comment of migration `00003_groups.sql` says, and the admin
service's check of them races other requests.

No property is inductive alone, because a statement runs long after its request
was checked. `IInv` is the conjunction of `MemberInv` (types and keys of the
members' tables, one owner, an owner kept unless purged), `TableInv` (types
and keys of the games' tables) and `RequestInv`, which says of every request
between two steps what it may be relied on to have checked (`Sound`): whoever is
about to put a character on a table is its keeper, a change of rank makes
nobody an owner, a game's request names that game's group.

The proof has one lemma per statement of `Membership` that it preserves
`MemberInv`; one case per action that requests stay `Sound`; and a lemma,
`Statements`, that every step of `Next` does one of the statements or leaves the
members alone. The action properties follow from which statement a step ran.

`OneAtATime` says that `Requests` has one element, as in the run `TableCrashes`.
It is no weakness of the proof: with two requests the four properties fail
(section 5). What the theorems say is that the *order* of the steps inside a
method is right, so that a request which is cut short before any of them leaves
nobody seated who is not shared, no character half deleted, no group without an
owner, and closes no group others sit at. `TablesAlone` says what a request
found and still relies on at each later step (`Kept`): no roster of the group
has the character when it is unshared, no table has it when it is erased.
`PurgesAlone` does the same for the deletion of an account, the longest method:
until it has dealt with a seat, the list it made (`Listed`) has every seat the
account has, at the rank it has it, and the groups it owns have no other member.

### The tracker, hand-overs and the log

`TrackerProofs.tla`, for any players, monsters, characters, entries of a log and
number of requests, from `TrackerAssumption`, `HandOverAssumption` (there are
finitely many characters and requests, or a sum over them says nothing) and
`LogAssumption`.

| Theorem | States |
| --- | --- |
| `RosterSoundAlways` | `Spec => []RosterSound` |
| `LockHoldsAlways` | `TrackerSpec => LockHolds` |
| `MovesOneAlways` | `TrackerSpec => MovesOne` |
| `NeverDuplicatesAlways` | `HandSpec => NeverDuplicates` |
| `NothingLostAlways` | `HandSpec => NothingLost` |
| `CommitsOnWhatItSawAlways` | `LogSpec => CommitsOnWhatItSaw` |
| `SettledAlways` | `LogSpec => []Settled` |

The roster's invariant `TrackerInv` is that nobody is listed twice, with what a
request asks for being of its kind. The work is in the lemmas on sequences: what
taking an entry out, inserting one, swapping two neighbours and the stable sort
by initiative do to a list in which nobody is twice. `MovesOne` follows from
where an entry lands when the index of the one after it moves as it is taken
out (`MovedGoes`).

The properties of a gift are about a sum, the items carried plus those between
a taking and a giving. The sum is proved about as the size of a set of pairs
(`Pile`), so that a change of one term is a union or a difference of sets.
`HandInv` says of each request that, while no write came between its reading
and its commit, what it will write and what it carries add up to what the sheet
has (`GiftHolds`); a commit at a revision that moved is refused.

`LogInv` is what a tab was shown against what is stored: a length never tells
more than the revision does, since every write raises the revision and a log
may grow and shrink, which is why a write without a revision is safe only while
it is fresh. `StandInv`, for `Settled`, says that every entry of the log *and
of a write on its way* stands on the entries before it (`Stand`): it is
offered, and none of its answers is illegal there. The replay of later entries
keeps it, as an entry that no longer stands is cut back to what survives or
dropped. Replays are folds. What a fold does at each prefix comes from its
definition, where `Least`, that a set of naturals has a least element (from the
library's theorem on finite subsets), does what induction would: the first
prefix at which a claim fails cannot be.

### Accounts, packs and folders

`ShelfProofs.tla`, for any ids, proofs, packs, versions, folders and requests,
from `AccountsAssumption`, `PacksAssumption` and `FoldersAssumption`; for the
solver see below.

| Theorem | States |
| --- | --- |
| `AccountsTyped`, `PacksTyped`, `FoldersTyped` | the types of each alone |
| `ShelfTyped` | `ShelfSpec => []ShelfTypeOK`, those and the solver's, side by side |
| `OneHolderAlways` | `AccountsSpec => []OneHolder` |
| `CreatedWholeAlways` | `AccountsSpec => CreatedWhole` |
| `SignsInHolderAlways` | `AccountsSpec => SignsInHolder` |
| `ReleasesKeptAlways` | `PacksSpec => ReleasesKept` |
| `PassedOnByRightAlways` | `PacksSpec => PassedOnByRight` |
| `OneDefaultAlways` | `FoldersSpec => OneDefault` |
| `EmptiedFirstAlways` | `FoldersSpec => EmptiedFirst` |
| `OrderedAsAskedAlways` | `FoldersSpec => OrderedAsAsked` |

`AccountsInv` needs `NamesDrawn`: an id named by an envelope, a session or a
request under way was drawn, so that a fresh one is nobody's. `SignsInHolder` has
two halves, which meet at the request: what a step records, the proof's row
allowed, and what a session is signed from was recorded. `PacksInv` needs
`ReadsRight`: *if* a pack is still at the revision a request read, it still is
what the request read, and what it will save carries every release there is; a
save at another revision is refused, so nothing is needed of it. The same holds
of a publication, which validates a second reading and saves the first's
revision. `FoldersInv` says that ids are drawn once, an owner has one default,
and what a deletion found in a folder and has no more to delete is gone.

`OrderedAsAsked` relates what a reorder read to what is listed after its second
statement. The invariant says of a request between the two (`Checked`) that the
folders it read and found movable are, still, those it was asked for, each
once. Whatever the others do meanwhile keeps that (`HoldsOn`): a step moves,
deletes or makes a default of no locked row, and a new id is above all that were
read (`RowsGo`). What the listing shows is proved by counting instead of
inducting on the list: position k of it is the folder with k - 1 before it
(`ListingSorts`), so one that is before another is listed before it, the default
is first, and of two folders named the one with the lower position comes first,
which is the one named first (`OrderIsPlaces`).

### The solver

`ShelfProofs.tla` again, for any finite set of releases, whatever they need and
admit, and any question, from `SolverAssumption`: ids, versions and editions are
numbers, a release needs finitely many packs, and a question asks for finitely
many and for at least one (`Lock.Validate` refuses an empty lock).

| Theorem | States |
| --- | --- |
| `LockAnswersAlways` | `SolverSpec => []LockAnswers` |
| `FindsNewestAlways` | `SolverSpec => []FindsNewest` |
| `PinnedAlways` | `SolverSpec => []Pinned` |

The library's induction theorems are of no use here, as they take an operator
for a parameter; its theorem (`WFMin`) that a well-founded order has a minimal
element in every nonempty set is not of that kind and does the same work.
`WellFoundedSet` is induction over a set instead of a predicate.
`RecursionSolves` is that a recursive function whose step is given as a
function has the values its definition says, when a step looks at smaller
arguments only. Each round of the search selects another release or has one
dependency fewer to look for (`RoundDepends`), an order without infinite
descent (`SearchEnds`), so `SearchIs` gives the search its equation and
`SearchInduction` its induction.

Then three inductions along the search. `Sound`: from a selection that answers
all that was looked for so far (`Partial`), what comes out answers everything,
as a round keeps `Partial` whichever candidate it takes. `Complete`: as long as
all that is selected is of a set of releases that answer each other and the
question (`Settled`), the search does not fail, as one of the candidates it
tries is that set's and the same holds after it (`ClosedNext`); hence it
refuses only what nothing answers, and `FirstIsNewest` follows for the first
pack it looks for. `Tight`: when what comes out contains such a set, it
contains nothing else; so asked for exactly the releases of a lock, the search
gives that lock again, whatever was installed since (`ExactlyItself`).

### The stores against their contracts

The accounts, in `MemoryProofs.tla` and `PostgresProofs.tla`, for any accounts,
proofs, marks and number of requests in flight, from `UserAssumption` (the
values for "no account" and "nobody's" are neither).

| Theorem | States |
| --- | --- |
| `IndexAgrees` | `MemorySpec => []Indexed`, the index and the accounts say the same |
| `MemoryKeepsContract` | `MemorySpec => UsersInMemory`, the store implements the contract |
| `ProofsNameAccounts` | `PostgresSpec => []Referential`, no proof names an account that is gone |
| `PostgresKeepsContract` | `PostgresSpec => UsersInPostgres`, the store implements the contract |

In memory the refinement reads who holds a proof off the *accounts*, and the
code asks the *index*: each step is the contract's because of `Indexed`, which
is inductive. In PostgreSQL a write becomes visible at its commit, which must
then still be what the contract allows, although what it rests on was found by
earlier statements. `PostgresInv` carries it there: besides types and foreign
keys, `Kept` says that what a transaction has found stays so until it ends (an
id it inserts is free, a key it inserts is free, a row it changes is still its
account's, the account a new identity names is there), and `Apart` that no two
transactions in flight have written one row or insert one account, from which
`Kept` survives the commits of others. The answers that write nothing are the
contract's at the statement that decides them.

The other stores in memory, in `MemoryProofs.tla`, for any groups, people,
characters, games, owners, packs and revisions, from `StoresAssumption`. It
says of the value for "nothing stored" what Go's `nil` gives, that it is
nothing that is stored; that a roster tells a character from a monster and
there are finitely many of both; and that a log that validates has a number of
entries.

| Theorem | States |
| --- | --- |
| `GroupsKeepContract` | `GroupsInMemory => GroupsSpec` of `TablesContract` |
| `PoolsKeepContract` | `PoolsInMemory => PoolsSpec` of `TablesContract` |
| `GamesKeepContract` | `GamesInMemory => GamesSpec` of `TablesContract` |
| `FoldersKeepContract` | `FoldersInMemory => FoldersSpec` of `FilesContract` |
| `SheetsKeepContract` | `SheetsInMemory => SheetsSpec` of `FilesContract` |
| `PacksKeepContract` | `PacksInMemory => PacksSpec` of `FilesContract` |
| `StoresKeepContract` | `StoresSpec => StoresInMemory`, these and the accounts side by side |

- *Groups.* A group in memory is two entries, one in the map of groups and one
  in the map of their seats, and the contract knows one row with an owner and
  ranks. `GroupsInv` makes the two agree (a group is open iff its map of seats
  is there, and exactly one of those seats is the owner's), so that a transfer,
  which writes two seats, is the contract's single change of owner, and no
  method can leave a group without one.
- *Pools.* A set says what is shared and a list in what order. `PoolsInv` is
  that they tell the same; the contract's list is the one read off both.
- *Games.* Games and rosters are two maps. `GamesInv` is that no roster
  outlives its game, so that a game opened again under the same id is empty,
  and that nobody sits twice. The loop (`Seating`) appends those asked for who
  do not sit yet, in order and each once (`OnceAdds`).
- *Folders.* The contract has a list and the store positions that are counted
  and never closed up. `FoldersInv` says only that ids are not ahead of the
  counter and an owner has one default folder. A listing is *the* list of an
  owner's folders in the order of position and age (`Standing`; `SameList`: two
  lists of the same things in one strict order are equal), with the default
  first. So each method is proved by showing that the contract's new list, the
  old one without a folder, with one at its end, or in the order asked for, is
  in the new order. A new folder is last unless a deletion left a gap; the
  contract's `gap` is exactly that.
- *Characters.* `SheetsInv`: no id is ahead of the counter, so none is issued
  twice. A listing in order of ids is one in the order they were made, and a
  page of it the contract's page, by counting what stands before an element
  (`AscendingCounts`).
- *Packs.* A group has a map of shares or has none yet, which the contract does
  not tell apart; `PacksInv` says no more than that, and the work is in the
  answers: a save only at the revision it saw and by the pack's author, a
  private release that stays once it was stored, grants replaced as a whole.

Lists are folded (`Only`, and `Seating`). `FoldNext`, that a fold over a list
with one more element is one more step, is the equation of a recursive
function, which is shown to exist as the solver's is; `Lists` is induction on
the length of a list, by a least counterexample. From the two follow the laws
on which the proofs rest: what `Only` keeps, that it keeps the order, what
inserting and taking out do to a sorted list.

### Only model-checked

- `ComesToRest` and `CatchesUp`: liveness under fairness is out of TLAPS's
  reach.

`OneWriter` and `KeepsContract` are proved, and checked, only where no lease is
overrun; `SendableTranscript` and `LateTurnWritesNothing` are proved for either.

## 8. Not modelled

The contents of a character sheet, of a transcript and of a rule pack:
decoding, validation and conversion of packs, derived numbers, hit points, stat
blocks, money as coins of several kinds. The operation ledger. Names, and the
requests that only write one (Rename of groups, games and folders; profile,
appearance). Cryptography, WebAuthn and OpenID: an envelope is good until it
expires, a proof is genuine. Copy links, which are signed and change nothing.
Imported entries and custom options of a log. The command line tools and the
web client outside the Wizard's page, which keep no state over several steps.
