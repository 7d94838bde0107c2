# A TLA+ development of Mintter

Mintter is a peer-to-peer document system. Every node runs a daemon
(`backend/`) with a SQLite database; desktop applications talk to their daemon,
daemons sync with each other and with the web sites of groups. This directory
models the parts of the daemon that decide which changes exist, in what order,
who gets them, and what a document looks like afterwards, and the parts of the
desktop application (`frontend/`) that keep state of their own between the user
and the daemon: the editor of a draft and how it is saved, the conversion of
its text, windows and their history, and drafts of comments.

Run a model with `tlc -config <cfg> <module>`, check proofs with
`tlapm <module>_proofs.tla`. `PROJECT.json` lists runs, mutants, the map from
definitions to source lines, hazards and theorems.

## 1. Inventory

| Component | State | Operations | What is hard |
|---|---|---|---|
| Hybrid logical clock, `hlc/hlc.go` | the greatest timestamp seen | `Now`, `Track` | wall clocks jump; 64-bit durations; drift through other nodes |
| Entities, `hyper/entity.go`, `crdt2/map.go` | applied changes, heads, vector clock, last-writer-wins map | `ApplyChange`, `CreateChange`, `ReplaceChange`, `Deps`, the loaders | any order of arrival; concurrent heads; skewed authors |
| Blob storage, `hyper/hyper.go`, `blockstore.go`, `indexing*.go`, `storage/schema.sql` | tables of blobs, index, links, drafts, deleted entities | save, save draft, replace draft, publish, delete | row ids double as the cursors that peers keep; placeholder rows; foreign keys |
| Drafts API, `api/documents/v1alpha` | none of its own | `CreateDraft`, `UpdateDraft`, `PublishDraft`, `DeleteDraft`, `MergeChanges` | reads in one transaction, writes in another; concurrent calls; crashes |
| Listing, `mttnet/list_blobs.go` | none | `ListBlobs(cursor)` | a cursor kept for months against ids that move |
| Syncing, `syncing/syncing.go` | cursor per peer | `syncPeer` | partial failure, interruption, a cursor shared with the site loop |
| Sync workers, `syncing/worker.go` | goroutine per peer, semaphore | state machine of a worker, `refreshWorkers` | start and stop races, backoff, starvation, shutdown |
| Group sites, `api/groups/v1alpha`, `cmd/mintter-site` | cursor, site record | `syncGroupSite`, `PublishBlobs` | pull and push in one round, order of pushes |
| Deletion, `api/entities/v1alpha` | `deleted_resources` | `DeleteEntity`, `UndeleteEntity` | three or four transactions, syncing meanwhile |
| Block tree, `docmodel/moves.go` | tree of blocks | moves, deletions, replacements of one author; moves replayed by timestamp | order of the changes in a request; cycles; concurrent moves (not modelled yet) |
| Groups and roles, `indexing.go` | members, roles | create, update, index | authority that depends on what is indexed (not modelled yet) |
| Identity, accounts, delegation | keys | sign, verify, trust | cryptography, assumed to work |
| Draft editor, `app/models/draft-machine.ts`, `documents.ts`, `pages/draft.tsx` | machine, its context, the query's cache, calls under way | type, autosave, restore, reset, publish, discard, leave, come back | typing during a save; calls that fail after they took effect; answers for a page that is gone |
| Block editor, `BlockContainer.ts`, `SideMenuPlugin.ts`, `blockManipulation.ts` | tree of blocks in the editor | Enter, Backspace, Tab, Shift-Tab, drag, insert, remove, undo | each key has many cases by position in the tree |
| Saving of blocks, `documents.ts` | map of the blocks the daemon has | `createBlocksMap`, `compareBlocksWithMap`, `extractDeletes` | a list of changes that is applied one by one |
| Inline content, `from-hm-block.ts`, `to-hm-block.ts` | none | `extractContent`, `toHMInlineContent` | overlapping ranges, offsets through links and embeds |
| Windows and navigation, `app-windows.ts`, `app-api.ts`, `main.ts`, `navigation*.tsx` | history of each window, stored session | push, pop, open, refocus, close, quit, restore | renderer and main process disagree while a message is under way; close means two things |
| Comments in the application, `models/comments.ts`, `app-comments.ts` | drafts and index in a store, a page with a timer | create, write, discard, submit; groups and threads | two windows, delayed calls, two writes to the store |
| Connections, discovery, files, wallet, migrations, queries, rendering | | | outside, see section 8 |

How they interact: an API handler loads an *entity* from the *storage*, makes a
change with the entity's *clock*, and saves it as a blob. *ListBlobs* shows blobs
to peers in the order of their row ids. The *workers* decide when *syncPeer*
runs against a peer; it fetches what is listed and stores it, which indexes it.
The *site* loop does the same for the site of a group and pushes back.
*DeleteEntity* works on the same tables at any time.

The desktop application is a main process (Electron) and a renderer for each
window. The main process keeps the *session* and the *comment drafts* in stores
on disk and answers calls of the windows in the order each of them sent them. A
window shows a route of its *history*; the page of a draft runs the *draft
machine* around a *block editor*. The machine turns the difference between the
editor and what it believes the daemon has into changes (*saving of blocks*, each
block through *inline content*) and sends them with `updateDraft`, so the block
tree in the daemon, the Drafts API and the entity come last in that chain.

What makes each part correct:

- clock: timestamps only grow, and nobody can drag a clock beyond the threshold;
- entity: a version names the content; heads are exact; causally later edits win;
- storage and drafts: drafts are private, published changes stay and are
  complete, and a peer that remembers a cursor misses nothing;
- replication: blobs arrive after what they depend on, whatever fails, and they
  do arrive; what was deleted stays deleted;
- workers: one worker for each trusted peer, no leaked slots, no starvation, a
  shutdown that ends;
- draft editor: what may be published is what the user sees, every change is
  computed against what the daemon really has, nothing typed stays unsaved;
- blocks and text: keys lose nothing, saves are accepted and give the daemon the
  tree and the text of the editor;
- windows: the stored session is what is on the screen, and comes back;
- comments: what is discarded stays away, drafts are found again, edits are
  saved, every reply is shown or counted.

## 2. Modules and the code

| Module | Models | Extends |
|---|---|---|
| `Timestamp` | `validateSkew`, `track`, `Now` as functions, with wrapping durations | |
| `HLC` | clocks of several devices that exchange timestamps | `Timestamp` |
| `Entity` | one entity in the memory of several devices, its map, and loads | `Timestamp` |
| `Storage` | the database of one node: a record of tables, one operator for each transaction and one for its error case | |
| `Drafts` | the Drafts API over one database, with a listing peer | `Storage` |
| `Replication` | a daemon and a remote node: both sync loops, pushes, deletion | `Storage` |
| `CausalReplicas` | abstract specification that `Replication` implements | |
| `SyncWorkers` | the syncing service and its workers | |
| `DraftEditor` | a draft's page, its machine and the buttons, over a daemon that answers | |
| `BlockTree` | trees of blocks: what is below, left of, following a block | |
| `BlockDiff` | the changes of a save, and what the daemon does with them | `BlockTree` |
| `BlockEditor` | keys, drags and menus on the tree, and saves | `BlockDiff` |
| `InlineContent` | inline content to annotated text and back | |
| `Desktop` | windows, their histories, the main process and its store | |
| `CommentThreads` | groups and threads of comments, with a reference definition | |
| `Comments` | comment drafts in windows and main process | `CommentThreads` |
| `*_proofs` | theorems about `Entity` (and `HLC`, in the same module), `SyncWorkers`, `Drafts`, `Replication`, `DraftEditor`, `BlockEditor` (with `BlockTree` and `BlockDiff`), `Desktop`, `Comments` | |
| `MC_*` | model values, symmetry, and definitions that constants get as values | |

**Timestamp, HLC.** `wall` is `time.Now()` and may jump to any value; `maxTime`
is the field of the code. `known` and `highest` are history: every timestamp a
clock has made or tracked, and the highest wall time it has shown. `Foreign` are
timestamps that no clock of the model has made. `Now` and `Track` have a twin for
their error case. Durations wrap at `DurationLimit`. The specification is
`ClockSpec`; its names do not clash with those of `Entity`, so that one module of
proofs uses both.

**Entity.** A change is a record in the log `all`, its CID is its index. `Make`
is what `CreateChange` and `ReplaceChange` share: `NextTimestamp`, `NewChange`,
`ApplyChange`; when it fails the caller drops the entity. Loads are not atomic in
the model: `Load` selects changes with their closure, `LoadStep` applies one row,
in timestamp order, with a fresh reading of the clock. Paths are model values,
values are identified with the change that wrote them, signatures always verify.

**Storage.** Tables are sets of tuples in a record `db`. Ids come from
`db.seq`, the AUTOINCREMENT counter; `Touch` gives a row a new one. The operator
pairs `CanX`/`X` are the error case and the effect of transaction X. The checks
of `indexChange` that depend on the database are in `Indexable`; those that look
only at the blob are taken to pass. The model of a blob has the CIDs whose data
must be present (`deps`), the CIDs it links to (`refs`) and the entities it links
to without a version (`mentions`).

**Drafts.** A handler that reads and then writes is two actions with its result
in `request[r]` between them; a failing transaction ends the request. `Crash`
loses the requests. `published` is a history variable.

**Replication.** `loop["peer"]` is `syncPeer`, `loop["site"]` is `syncGroupSite`
with `PublishBlobs` on the remote side. `Start` reads the list, `Fetch` is
`GetBlock` and `Put`, `FetchFails` a `Put` that fails, `SaveCursor` and `Finish`
write `syncing_cursors`, `PushStart` and `Push` are the push, and `Stop` is every
way in which a round ends early. A round keeps the blobs it still wants (`want`)
with the cursor each was listed under, and takes the one with the lowest cursor
next (`AtHand`), which is the order of the list; `at` and `last` are the index and
the cursor of the loop. `DeleteBegin`, `DeleteEmpty`, `DeleteUnindex`
and `DeleteRecord` are the transactions of `DeleteEntity`, `DeleteInterrupted` a
crash between them. The remote node only stores: what it deletes is its own
local matter, and the same module seen from the other side.

**SyncWorkers.** `state[w]` is the goroutine of a worker: where it is, whether
`attempts` is still -1, whether the deadline of its backoff is ahead, whether it
holds the semaphore, whether it was stopped. States of the code's state machine
between which nothing blocks are one action.

**DraftEditor.** A document is a version of its blocks and a version of its title;
an update carries the base it was computed against, and applied to anything else
it gives `Mixed` blocks. `machine` and `context` are the state and the context of
`draftMachine`, `indicator` the state of `saveIndicator`, which decides whether
the publish button is open. `call[p]` is the `updateDraft` call of page p, which
outlives the page; `AnswerUpdate` is the daemon, which may fail before or after
it applied the update. `repair` is `restoreDraft` or `resetDraft` with its three
or two calls. `cache` and `fetch` are the query EDITOR_DRAFT of react-query.
`clean` is history: this page loaded what the daemon had and no call of an
earlier page was under way. The properties are about clean pages; section 4 says
how a page comes to be another one.

**BlockTree, BlockDiff, BlockEditor.** A document has a function from a block to
the sequence of its children (`kids`), one to its text as a sequence of words, and
the set of headings. An edit is one transaction of ProseMirror
(`Edit`), which also puts the old document on the undo stack; ProseMirror's own
commands (`sinkListItem`, `liftListItem`, deletions that leave no empty group)
are marked external. `handleBackspace` and `handleEnter` are the first command
of the code's chain that applies. `Save` computes the changes from the map of the
last answer and runs them through the daemon's `move`, `delete` and `replace`,
whose refusals end the request. The recursions of the code are loops here, over as
many rounds as there are block ids: `Below` is the recursion of
`compareBlocksWithMap` over the children, in the order of its visits (in round k
the k-th block listed is followed by its children), `isAncestor` the walk from
parent to parent. A deletion names what it takes: `Cut` leaves nothing of the
blocks that are gone. `Behind` is the insertion after a left sibling, in the
daemon's `move` and in a drop.

**InlineContent.** A text is a sequence of characters. `Save` is `extractContent` with
its running `styleStarts`, `Load` is `toHMInlineContent`, which cuts the text at
the borders of the annotations.

**Desktop.** `nav[w]` is the history that the renderer of window w keeps, `sent`
its messages that the main process has not handled, `windowsState` the stored
session.
`dispatch` is the reducer and the message. `closeHandler` is the 'close' event,
which `CloseWindow`, `CloseAppWindow`, `CloseBack` and quitting share. `Start` is
`openInitialWindows`, with the windows that `createAppWindow` refocuses instead
(`Skipped`).

**Comments.** Calls of a window are a queue; handling a call and its answer are
one step, but the two writes to the store of a creation or a removal are two
(`half`), and `Crash` can come between them. A page that was left keeps its timer
(`timers`), a window that was closed does not. The published comments are a set:
new ones have an id that no comment has (a CID), and a comment that is received may
reply to one that is not there, but never to one that replies to it. A group or a
thread is what its `while` loop comes by (`Rounds`, with as many rounds as there are
comments; that the loops have come to an end by then is part of what is checked and
proved).

Definitions marked *Mistake* or *Mutant* are plausible errors that stand before the
definition they could replace. They are used by no specification.

## 3. Runs that pass

| Run | Bounds | Shows |
|---|---|---|
| `clock` | 2 clocks, wall time 1..3, threshold 2 | `NowIsGreatest`, `BoundedDrift` |
| `entity` | 2 devices, 3 changes, wall time 1..2, threshold 2 | `SameVersionSameState`, `HeadsAreMaximal`, `LaterEditWins`, `DepsReachTheRest`, `LoadFailsOnlyForSkew` |
| `drafts` | 1 document, 2 concurrent requests, 4 changes | `CursorMissesNothing`, `DraftsStayPrivate`, `PublicIsClosed`, `ListedInOrder` |
| `replication` | a document of 2 changes and a group, both loops, one deletion | consistent tables (`TypeOK`); `Causal`, the refinement of `CausalReplicas` |
| `replication_site` | 4 blobs, 2 made on each side, one drafted, site loop | `CursorCovers`, `EventuallyPushed` |
| `replication_pull` | 3 remote blobs, peer loop, one deletion | `EventuallyPulled` |
| `workers` | 2 peers, 1 slot, one worker of a peer at a time | `MapMatchesGoroutines`, `SlotsAreHeld`, `TrustedAreSynced`, `ShutdownCompletes` |
| `draft_editor` | 2 edits of the blocks and undos, 1 of the title, 2 pages | `PublishableIsSaved`, `UpdatesFitTheDraft`, `EditsAreSaved`, `RestoreIsExact` |
| `block_editor` | 3 documents of 4 blocks (flat, a heading with a section, nested) to start from, 2 edits with saves anywhere, 6 blocks | the editor holds a tree (`TypeOK`); `SavesAreAccepted`, `NestingIsSaved`, `OneEditIsSavedInOrder`, `KeysKeepTheText` |
| `inline_content` | every content of up to 3 inlines over 2 styles, links and embeds | `ContentSurvives`, `LoadedIsSaved` |
| `desktop` | 2 windows, 2 routes, histories of 2, 2 messages under way | `StoreFollowsWindows`, `ClosedStaysClosed`, `NeverWithoutWindow`, `RestartRestores` |
| `comments` | 2 windows, 1 draft, 1 edit, 1 call of a window at a time, 4 comments | `DiscardedStaysGone`, `DraftsAreListed`, `RepliesAreShown`, `DiscardEndsThePage`, `QuietEditsAreSaved` |

Every state machine has a type invariant, `TypeOK`. It is checked by a run where
it says more than types (foreign keys, trees); elsewhere it is a part of what is
proved (section 5), or of what a reader needs.

Why the bounds are enough for the cases that matter: three changes give two
concurrent heads and a merge, or a chain with a replaced change; a threshold of 2
with two wall times gives accepted and refused skew on either side; four draft
changes give a publication, a draft on top, its replacement and one change from
elsewhere; `SaveEvery = 2` (50 in the code) makes rounds save the cursor inside
the loop and at its end; one slot for two peers makes the workers compete.
Two edits and one title give a change before, during and after a save, a save
that follows a save without a pause, and an undo back to what is stored; the
second page is the one that can meet calls of the first. Two edits between saves
give a block that is created and then moved, or emptied and then joined. Two
windows are needed for refocusing and for a discard that meets a write, and four
comments for a chain that becomes a fork below the first comment of a group.

The theorems of section 5 do away with the bounds for the safety of the clock, the
entity, the drafts, replication, the workers, the draft editor, the trees of blocks
and their saves, the windows, and the comments with their drafts; workers of one peer that overlap, which the bounds
of `workers` leave out, are covered by them.

`CHECK_DEADLOCK FALSE` is set for `Drafts`, `DraftEditor`, `BlockEditor` and
`Desktop`, whose bounds on what a user does end every behaviour, and for the peer
loop alone, which rests when there is nothing to fetch.

## 4. Observations

Modelling showed the following; the models do what the code does, and the
properties are stated around it. Most need a rare interleaving; none is a
statement about how often it happens.

*Daemon.*

- `UpdateDraft` deletes the publication that its draft has become between its two
  transactions (`hyper.go:411`), and a draft with a new CID takes its row id;
- `PublishDraft` deletes a draft that was filled after it was read as empty
  (`documents.go:496`);
- with a peer that is also the site of a group, the peer loop moves the shared
  cursor past a blob it could not store, and the site loop never asks for it
  (`syncing.go:438`); `CursorCovers` is checked for the site loop alone;
- a blob of a deleted entity can be synced back between its deletion and the
  record of it (`entities.go:470`), although `schema.sql:161` wants it checked;
- drafts of documents that a group links to are pushed to the site (`db.go:172`);
- a timestamp 292 years ahead overflows the `time.Duration` in `validateSkew`, is
  accepted, and the next `Now` falls below it (`hlc.go:120`);
- `ApplyChange` moves the vector clock of the actor before checks that can still
  refuse the change (`entity.go:213`); the loaders drop such an entity;
- `Deps` keeps a dependency that another one reaches through two or more edges
  (`entity.go:311`), although its comment says the result is minimal;
- `MergeChanges` gives its public merge a second, higher id, behind a change that
  may already build on it (`documents.go:997`), which is why `ListedInOrder`
  excepts merges;
- `refreshWorkers` would call a nil `stop` for a worker whose goroutine has not
  run since the last refresh (`syncing.go:204`), the state "panic" of `SyncWorkers`.

*Draft editor.*

- the answer of a save sets the title to the saved one: a title typed meanwhile
  goes back (`draft-machine.ts:325`); clearing the title is never saved;
- what was typed in the last 500 ms is not saved when the page is left: the
  clean-up has the machine's state of the first render (`documents.ts:942`);
- typing without a pause of 500 ms puts the save off as long as it lasts;
- `queryDraft` turns errors into `null`, so the machine's error state and its
  retry are not reached, and nothing sends SAVE.ON.EXIT;
- a page that opens while a call of an earlier one is under way, or from the
  query's cache, may start from a document the daemon does not have: it is not
  `clean`, and its first save can mix two versions;
- restoring or resetting a draft that was never published deletes it and then
  fails, because there is no document to make a draft of (`documents.ts:776`,
  `834`); restoring does not bring back the title; it is offered once.

*Blocks and text.*

- after several moves between two saves, or one drag of several blocks, the daemon
  can end with another order: [a,b,c,d] made into [c,d,a,b] is stored as
  [c,b,d,a], because the moves are chosen by comparing old and new left siblings
  (`documents.ts:1239`); the next save repairs it. `OneEditIsSavedInOrder` is
  about one edit, `NestingIsSaved` about any number;
- a block with children and following siblings cannot be lifted: the command
  throws, and nothing happens;
- Backspace removes a previous block whose text is empty, also one that shows an
  image (`BlockContainer.ts:1067`);
- the style of a text in front of a link is saved as going on over the link
  (`from-hm-block.ts:31`), hence `LinksCarryStyles` in `ContentSurvives`.

*Windows.*

- `backplace` replaces the last entry of the history, not the current one
  (`navigation.tsx:80`);
- of two windows on the same single route only one is restored; the entry of the
  other stays in the store, and can make later windows open twice;
- an update installs after it has closed the windows and before 'before-quit', so
  the session is lost with it;
- a window that is closed within 200 ms of a resize has a timer that asks a
  destroyed window for its bounds (`app-windows.ts:252`, not modelled).

*Comments.*

- the answer of an earlier write clears the timer of later typing and shows the
  draft as saved (`comments.ts:248`): that edit is only saved with the next one;
- a draft that is opened again while its query is cached is not loaded into the
  editor, and typing then overwrites the stored text;
- a second window on a draft writes back what it loaded 500 ms later;
- a draft can be submitted twice, and stays in the store when it was published.

## 5. What is proved

All proofs are for every value of the constants that the modules' `ASSUME`s allow:
any numbers of devices, changes, peers, edits, blocks, pages, windows and routes. Those
about timestamps have one more assumption, `NoOverflow`: the timestamps in
question are less than 2^63 nanoseconds apart. Without it they fail, see section 4.

*Clock* (`Entity_proofs`). `ClockSafety`: the type invariant, `BoundedDrift` and
`MaxIsLatest` hold always. `BoundedDrift` is not inductive: that a new timestamp
is at most wall time plus threshold says nothing once the wall clock has jumped
back, so the drift is measured against the highest wall time shown and the
inductive invariant `HLCInv` adds `wall <= highest`. `NowIsGreatestHolds` follows
from `MaxIsLatest`: what exceeds `maxTime` exceeds everything known.

*Entity* (`Entity_proofs`). The inductive invariant `EntityInv` has the types and

- `GraphOK`: ancestors are closed, reached through dependencies, and strictly
  older than their descendants;
- for every device `ClosedOK` (applied changes are closed under ancestors),
  `HeadsOK` (heads are the maximal ones, and everything is below a head),
  `StateOK` (the map holds the writes of the applied changes and nothing else)
  and `ClockOK` (the clock is not behind them);
- `LoadOK`: what remains of a load can still be applied in timestamp order.

One lemma per action shows that it is kept. From it follow `EntityTypes`;
`VersionNamesContent` (the applied set is what is below the heads, the map is
determined by the applied set); `HeadsAreTheMaximalChanges`; `CausalityWins`
(timestamps grow along dependencies, and the map is ordered by timestamp); and
`LoadsFailOnlyForSkew` (by `LoadOK` only the comparison with the wall clock can
fail). `PreviousVersionIsComplete` is `DepsReachTheRest`: `Deps`, the version before
the heads, still reaches everything applied but the heads, although with several heads
it drops what another dependency directly builds on. An induction over paths would show
it; the proof takes the newest change that reaches a given one, or the oldest above a
head (`NewestOf`, `OldestOf`: timestamps are bounded), and derives a contradiction
from its neighbour in the graph. `EntityInv` is needed
because heads alone do not determine content unless
ancestors are closed, and closure is kept only because the loaders' timestamp
order is compatible with the graph.

*Workers* (`SyncWorkers_proofs`). `OneWorkerPerPeer` and `NoSlotLeaks`, for any
finite set of peers and any numbers of slots and of overlapping workers. The
inductive invariant `WorkersInv` has the types, both properties, and `UnusedOK`
(a goroutine that has ended leaves nothing behind), without which a worker could
be started in the middle of the state of the last one. `RefreshKeeps` is the
argument for `refreshWorkers`: a worker that is started was not running and its
peer had none in the map. For a worker's own steps, three lemmas say what a step
must keep for the map (`StepKeepsMap`) and for the count of the slots
(`StepKeepsSlots`, `ReleaseKeepsSlots`), and `StepKeeps` goes through the actions.

*Drafts API* (`Drafts_proofs`). `CursorMissesNothingTheorem`,
`DraftsStayPrivateTheorem`, `PublicIsClosedTheorem` and `ListedInOrderTheorem`, for
any numbers of documents, changes and concurrent calls. A first group of lemmas
says what each transaction of `Storage` does to the tables. The inductive invariant
`DraftsInv` has the three parts that a handler can disturb between its two
transactions:

- `StoreInv`, about the tables: a row has data and an id that was given out, no
  change depends on a draft, and what a stored change depends on is stored, linked
  to it (this is what makes the foreign key refuse a deletion) and, merges excepted,
  under a smaller id. The last is stated for drafts too: a draft that replaces
  another takes over its id;
- `PeerInv`, about the peer: its cursor was given out, and nothing public is hidden
  below it;
- `RequestOK`, about what a handler has read: the changes it will build on were
  public, and once public no change becomes a draft again. That the draft to be
  replaced is still a draft is not part of it, and is not needed.

`Step` is what a transaction may do: what is public afterwards was public under the
same id, or is newer than every id given out before. One lemma for each transaction
shows that it is such a step, and `StepKeeps` that any such step keeps the
invariant. The proofs assume that CIDs number the changes in the order in which
they are made (`DraftsConstants`).

*Replication* (`Replication_proofs`). For any blobs and entities, any interleaving of
the loops, the handlers and the user, and an interruption anywhere:

- `ReplicationTypes`: the foreign keys of both databases;
- `NodesAreCausalReplicas`: the two nodes implement `CausalReplicas`, so a blob is
  only made or copied, never stored before its dependencies, and an entity goes as
  a whole;
- `SiteCursorCovers`: nothing the site lists at or below the cursor is missing,
  where the peer loop does not run against the same node. With it the property
  fails (section 4), hence the hypothesis `"peer" \notin Loops`.

A first group of lemmas says what each transaction of `Storage` does to the tables,
placeholder rows and their ids included (`EnsureBlobs` numbers a finite set of new
rows, hence the assumption that a blob has finitely many links). The inductive
invariant `ReplicationInv` adds to the types

- `Keys`, the foreign keys in the form in which a transaction keeps them;
- `RemoteOK`: rows with data have different ids, without which two blobs could share
  a cursor;
- `FetchRound`: the cursors in a round were given out by the remote node;
- `DeletionOK`: data that the index does not show belongs to an entity whose deletion
  has begun and is past the point where its blobs are emptied. This is what the
  refinement turns on: `BlobsEmptyByEID` empties what the index shows, and that is
  the whole entity only because the index is complete when it runs. It holds because
  an entity is deleted at most once, the bound `Deletable`; an interrupted deletion
  that is repeated after the entity was synced back is outside the theorem.

Each action has a lemma that it keeps the invariant, is a step or a stutter of the
replicas (`DataStep`), and takes nothing from the remote node (`Grows`). For the
cursor, `SiteInv` adds what a round under way must satisfy (`Covers`): what the
remote node has is wanted by the round, or is here, or was deleted here, or lies above
everything the round will reach. `CursorCovers` alone is not inductive, since the
cursor is written from the round's `last`.

*Draft editor* (`DraftEditor_proofs`). `PublishableIsSavedTheorem`,
`UpdatesFitTheDraftTheorem` and `RestoreIsExactTheorem`. None of the three is
inductive: whether the button is open depends on the indicator, which lags behind
the machine. `DraftInv` adds `CallsOK` (which call belongs to which state of the
machine), `IndicatorOK` (what the indicator shows while the machine is not idle),
`Alone` (nothing but a clean page's own save or repair changes the draft), `Shows`
(the context is the draft, and at rest the editor is the context), `Saves` (a save
goes from the draft to what the editor showed, and shows still unless
`hasChangedWhileSaving`) and `Restores` (until its update, a restored draft is the
publication it was made of).

*Blocks and their saves* (`BlockEditor_proofs`). `EditorTypes`: whatever keys, drags,
insertions, removals, undos and saves follow one another, the blocks of the editor
and those of the daemon are trees in which every block has one place and is reached
from the root. `SavesAreAcceptedTheorem`: the daemon refuses none of the changes of
a save, although it applies them one after the other to a tree that is partly the
old one and partly the new one, and however many edits lie between two saves.
`NestingIsSavedTheorem`: the save then leaves every block of the editor under its
parent, with its content, and no other block. `OneEditIsSavedInOrderTheorem`: when
one edit lies between the saves, every list of children is also in the editor's
order. The assumptions are
`BlocksAssumption` (a natural number of block ids) and `EditorAssumption` (a draft
is opened with a document whose blocks have the first ids; the order in which ids
are handed out stands for their being new).

`TypeOK` says that a tree is what `Below` lists, and `Below` is a loop: no argument
about a step can start from that. The invariant of the proof, `EditorInv`, tells trees
by sets (`GoodKids`): no block has two places, nothing hangs on a block without a
place, and in every set of blocks there is one whose parent is not in the set, so
there are no circles. The argument has four parts.

- `Below` lists such a tree: all of its blocks, each once, a parent before its
  children and a left sibling before a right one (`GoodIsTree`; `TreeIsGood`
  is the converse, for the initial documents). The first round that would go wrong
  takes the place of an induction over the rounds.
- Every command of the editor is one of a few changes of such a tree (a leaf is
  added, children are handed to another block, a block is moved under another, lifted
  out of its parent, dissolved into its children, or taken out with all below it), and
  each of these keeps it a tree.
- A save is a loop in the order of `Below`. `Progress` is its invariant: the blocks
  that are done have the parent and the content that they have in the editor, the
  deleted ones have no place, and the others have the parents that they had.
  The parent and the left sibling of the next block are done, so the daemon knows
  them and finds the one among the children of the other; what is above the next
  block is done, so it is not above its own parent and there is no circle. A block
  that is not moved has the same parent in both trees, which is all that
  `NestingIsSaved` needs.
- The order needs more, because a block that has the parent and the left sibling it
  had is not sent, wherever the moves of the others leave it; after several edits
  the order can come out wrong (section 4). `EditorInv` therefore says what one edit
  leaves, `OneEdit`: the blocks with the same parent and the same left sibling
  (`Unmoved`) are in the order that they have in the daemon. Every key, insertion
  and removal keeps the order of all blocks (`Kept`) and a drag that of all but one
  (`KeptBut`); both imply `OneEdit` (`KeptIsOrderly`). Given that, the
  blocks that are done and the unmoved ones stay in order through the loop (`InOrder`
  in `Progress`): a move puts a block right behind its left sibling, and the left
  sibling decides which siblings a block is ahead of (`LeftDecides`). At the end
  all blocks are done, and two lists of the same blocks in the same order are equal
  (`SameOrder`).

*Windows* (`Desktop_proofs`). `StoreFollowsWindowsTheorem`,
`ClosedStaysClosedTheorem`, `NeverWithoutWindowTheorem`, and for the step of a
start `RestartRestoresTheorem`. `StoreFollowsWindows` already says what the store
will be once the messages under way are handled; the inductive invariant
`DesktopInv` adds that an open window has an entry to update (`OpenIsStored`:
`updateWindowState` ignores a message otherwise) and that what the last quit or
crash took is what is stored (`LeftIsStored`).

*Comments* (`Comments_proofs`). `DiscardedStaysGoneTheorem` and
`DraftsAreListedTheorem`, for any windows and drafts. Both are about two writes to
a store between which the main process can die. The inductive invariant
`CommentsInv` adds `WindowsOK` (what the calls of a window look like), `StoreOK`
(a draft was known before it was listed or removed) and `HalfOK` (an operation
that is half done: a draft that is being created is listed and was never removed;
one that is being removed already counts as removed, so it is out of the store). Without `HalfOK` the second
write of a creation could bring back a draft that was removed.

`RepliesAreShownTheorem`, for any comments in any order: the groups below a comment
show or count everything under it exactly once, and a thread is the path up. Its
inductive invariant is `GoodComments`: finitely many comments, one per id, and in
every set of comments one that replies outside of it. The last is what keeps the
loops from turning round; it holds because an id is a hash of what it is replied to,
so comments that reply to each other in a circle cannot exist. The proof compares
the loops with `Under`, the least set closed under replies. Where one would argue by
induction over the rounds it takes the first round that goes wrong (`LeastIndex`);
that the loops end within as many rounds as there are comments is a pigeonhole
argument: more rounds would come by one comment twice (`NoLongPath`, `NoLongChain`).

The arithmetic of `Timestamp` (without overflow, wrapped durations compare like
differences) is a group of lemmas at the start of `Entity_proofs`.

## 6. What is only model-checked

- `InlineContent`, an algorithm on sequences of characters: what its folds compute
  for every input would be an induction over data;
- `KeysKeepTheText`, which compares the text of two trees in reading order, a fold
  over `Below`, before and after each key;
- liveness under fairness, which is out of the prover's reach.

## 7. Fairness

`Replication`: rounds are started by timers that are always reset (WF of
`Start`); rounds end (WF of `Stop`), that of a peer by its timeout, that of a
site, which has no deadline of its own (`syncGroupSite`), because a lost connection
ends its calls: an assumption about the transport; a step that is
tried in round after round is not cut short every time (SF of `Fetch`, `Refused`,
`SaveCursor`, `Finish`, `PushStart`, `Push`). The last is an assumption about the
network and its timeouts: the two nodes are not apart for ever.
`EventuallyPulled` is about the peer loop: the site loop ends its round at the
first blob that the storage refuses, and a blob of a deleted entity is refused in
every round. `EventuallyPushed` is checked where every blob that is linked to is
also there; a link to a missing blob stops the push at that blob.

`SyncWorkers`: timers fire, calls return, goroutines are scheduled (WF). `select`
chooses among ready cases at random and a channel serves blocked senders in
turn (SF of `Exit` and `Acquire`). A peer that is dialled again and again is
reached some day (SF of `DialOk`).

`DraftEditor`: timers fire and calls to the daemon, which is on the same machine,
are answered, well or badly (WF of `AutosaveTimeout`, `AnswerUpdate`, `SaveDone`,
`SaveFailed`). WF of the timeout assumes that the user pauses for 500 ms at last.
The user owes nothing.

`Comments`: timers fire and the main process handles the calls of each window (WF).

## 8. What is not modelled, and why

Cryptography, encodings and libp2p are assumed to work. Migrations and the SQL of
read-only queries are out of reach of small models. The wallet, the relay and the
monitor are apart from the document system. Most of the front end is rendering:
pages and dialogs that show what a query returned, themes, the web site, and
clients generated from the protocol files. Of its 89,000 lines the modules here
translate some two thousand, the ones that keep state or compute; the rest has
nothing to check with a model, so most of its lines are not in the map.
Favourites, recents and settings are single writes to a store. Inside the modelled parts: comments
in the daemon and their deletion, RebaseChanges, list chunks in the map, checks
of `indexChange` that
only look at the blob, who may push to a site, `SyncAll`; media, lists, marks and
selections in the block editor; the media dialog and the update of a group or a
profile in publishing; positions and focus of windows.

## 9. Plan

1. Done: `Timestamp`, `HLC`, `Entity`, `SyncWorkers`, `Storage` with `Drafts`,
   `Replication` with `CausalReplicas`, `DraftEditor`, `Desktop`, and `Comments`
   with `CommentThreads`, and `BlockEditor` with `BlockTree` and `BlockDiff`, with
   proofs; `InlineContent`.
2. Moves of several authors: the log of `docmodel/moves.go`, replayed by
   timestamp, against a reference definition of the tree.
3. `Groups`: `CreateGroup`, `UpdateGroup`, the roles in `indexChange`, and what a
   site accepts; a member's rights depend on the order of indexing.
4. `Replication`: failures of the site loop (refused blobs, rows without data),
   comments in `DeleteEntity`, `SyncAll` next to the workers.
5. `BlockEditor`: lists and media, with `UpdateGroup` and `setGroupTypes`.
6. `Startup`: the futures of `daemon.go` and account registration.
7. Proofs: what the peer loop's cursor does cover when every blob can be stored;
   `KeysKeepTheText`, from the lists of `Below` before and after a key.
