# Halogen in TLA+

Halogen is a self-hosted podcast application. A Rust server keeps each account's
library (podcasts, episodes, playlists, playback) in a database, polls feeds and
keeps copies of episodes. Web, Android and iOS clients work offline on a cache of
the library and a journal of the operations they owe the server; the web client
also stores audio on the device and plays it. This directory models the parts
whose correctness depends on the order of steps taken by different actors.

## The system

| Component | State it keeps | Operations | Talks to | What makes it correct |
|---|---|---|---|---|
| Change feed (`crates/queries/src/sync.rs`, migration `m20260908_000200`) | `sync_change`, `sync_epoch` | append in triggers, read after a cursor, prune, new epoch on export | every handler, every client | a client that follows the feed hears of every change it has not seen |
| Library handlers (`crates/handlers`) | library tables | store, update, delete with dependents | change feed, web server | rows and events are written together; deletes take their dependents |
| Sync engine (`crates/sync`, `sync-policy`, `sync-enrich`) | none of its own | drain, pull a delta, pull a snapshot | journal, cache, server | nothing lost, nothing shown done that is not, caches follow the library |
| Cache database (`crates/queries/src/cache`) | `outbox`, `outbox_import_receipts`, cached rows, `sync_metadata` | import, coalesce, commit, confirm, wipe, reset | sync engine | one transaction per commit, journal survives the cache |
| Mobile interface (`crates/mobile-ffi`) | one gate per queue | import, drain, pull, confirm, clear | hosts, sync engine | one holder at a time |
| Web sync worker (`webui/sync-engine`, `store`) | IndexedDB shared by tabs, a pool per tab | commands, drain under a Web Lock, pull, page caches, repair of rejections | server, UI | no tab undoes what another has seen or owes |
| Device downloads (`sync-engine/download.rs`, `media/web.rs`) | staged chunks, audio, badges | chunked and streamed download, resume, commit, removal | server downloads, player | stored audio is one whole copy; a badge does not stay at downloading |
| Player (`webui/player`, `player-backend`, `provider-player`) | the episode shown, the element, retries, watcher | requests, tick, errors, ends, saves | device downloads, worker | what is heard is what is shown; saved positions are true; spinners end |
| Playlist positions (`handlers/playlist`, `sync-engine/reorder.rs`) | a position per member; the client's list | add, remove, move, sort, automatic adds | library, UI | the client's list is what the server will have |
| Server downloads (`crates/download`, download routes, `rss/manager.rs`) | episode rows, media files | download, remove, retain, recover | poller, requests | every episode is settled, copies within the cap |
| Poller and poll jobs (`crates/polling`) | running flag, job rows | start, stop, tick, run, finish, prune | feeds, downloads | jobs end, with a true account of what happened |
| Feed ingestion (`crates/rss`) | podcasts, episodes | fetch, match, insert, heal | library, playlists | an item is one episode, and none is missed |
| Host outboxes (Android, iOS), artwork, accounts, logging, routing, configuration, database transfer, discovery, views, tools | | | | see *Not modelled* |

What is hard here: a pull is many requests long and the library moves between
them; a request may be carried out although its sender saw it fail; the feed is
pruned and the database may be replaced while a device is away; tabs share one
store and one journal without a common worker; handlers read, await and then
write; calls that fetch, remove or trim the same episode interleave at every
database and file operation; an audio element reports late, and about an episode
the user has left. `PROJECT.json` lists each hazard at its line, with the
properties that are about it.

## Modules

- **Library** is the server's rows and the feed. A row is what the protocol can
  tell apart: the write that produced it and, for a playlist, its members. An
  episode row stands for the episode with playback, listen state and chapters.
  `Put`, `Purge` and the handlers' operators change rows and append the events of
  the triggers in one step, as one database transaction does. `ReadChanges`,
  `MustReset`, `Since` and `PageEnds` are `read_changes`: a read may also prune and
  raise the floor. `Export` and `Replace` are the scrubbed copy of the database and
  a server restarted on it with a new epoch. `Background` is everything other
  devices and the poller may do.
- **SyncQueue** extends Library with the native devices. `journal`, `serial`,
  `receipts`, `cache`, `cursor` are the tables of the cache database; `pc`, `next`,
  `todo`, `got`, `del`, `listing`, `tries` are the local variables of the call that
  holds the gate, lost when it ends. A drain is `Send`, `Serve` (the handler, on the
  server), `Settle`, ..., `EndDrain`; a pull is `StartPull`, then `Fetch` row by row
  and `CommitDelta`, or `ListPage` page by page, `Check`, `Rehead` and
  `CommitSnapshot`. Hosts `Import`, `ConfirmCached`, `ClearAll` and
  `ResetStaleCache` between calls. `Abort` is a transport failure or the death of
  the process; with `LateRequests` the request of an aborted call may still reach
  the server (`ServeLate`).
- **WebTabs** is the web client: `rows`, `cursor`, `journal` are IndexedDB,
  `pool`, `unsubscribed` and a worker record per tab are a tab's memory. A worker
  runs one `Command`, or on its `Tick` a drain (`Drain` takes the Web Lock, `Push`
  sends, `Settle` answers, `Repair`/`Fix` re-read what a refused operation touched,
  which is nothing for a subscription: `Suspect`; a tab may pass over a drain, as
  `head_retry` has it, or put off its repairs for their half minute)
  and a pull (`Pull`, `Commit`). `FetchPage`, `MergePage`, `WritePage` are a
  detached page request and the two writes of its answer; `Reload` starts a tab
  afresh from the store. It implements **Outbox**, the abstract promise: operations
  are numbered, owed, answered oldest first or replaced by newer ones.
- **ServerDownloads** is one podcast's episodes and the calls that work on them.
  `status`, `attempts`, `started` and `shelf` (paths in order of `downloaded_at`)
  are columns of the episode, `files` is the media directory. Each call goes
  through the steps of its function: `Request`, `Claim`, `Transfer`, `Record` or
  `SetFailed`, then `Retain`; `ReadPath`, `Unlink`, `Reset` for every removal. The
  poller's pass is `ResetStuck`, `MarkBroken`, `Select`, `Retry`, `EndTick`. `Age`
  is the cutoff passing a download's start, `Restart` a new process and its
  boot-time reclaim.
- **FeedSync** is one run's work on one podcast: the request with the validators
  read when the run began (`Answer`, `Unchanged`), the stamp (also a 304's, which may
  store the validators that came with it: `StampUnchanged`), the load of the
  episodes and `Ingest`, item by item, by guid or URL (`Matches`) with `Stale` for
  what heals. **PollJobs** extends it with the runs: the loop (`Start`, `Tick`,
  `Stop`, `Exit`), requests (`Poll`, `SpawnPollJob`), permits (`Take`, `Report`), the
  writer that stores outcomes behind the sync (`Record`), and the end of a job
  (`EndDrain`, `FinishJob`, `Newest`, `DeleteRest` as separate statements).
- **ClientDownloads** is one episode's audio in the browser: `meta` and chunks staged
  in IndexedDB, `audio`, the episode's Web Lock, one record per detached task and a
  badge per tab. A chunked task reads the staged length, opens a writer, asks for a
  window of ranges and writes what `Arrive`s in order; a streamed one asks once. A
  commit gathers, stores and clears in separate transactions. `Serve` and `Lose` are
  the server's copy changing, `Remove`, `Redownload`, `Resume`, `Reload` the tabs.
- **Player** is the controller as one record: `now` (what the screen shows), the
  element, the queue of its events, pending source reads (`loads`), retries that
  sleep (`naps`), the watcher and the worker's commands. Every handler runs to its
  end on one thread, so it is an operator from player to player; `User`, `Element`,
  `Device`, `Watch`, `Work`, `Tick`, `Begin`, `Resolve` and `Wake` interleave.
- **PlaylistOrder** is one playlist: `position` on the server, handlers that read
  (`ReadAdd`, `ReadMove`, `ReadSort`) and later write (`WriteAdd`, `Rewrite`) what
  they computed, or are refused an episode, which a bulk request answers with 200
  (`PassOver`), the client's `list`, changed at once by `Locally`, and its queue,
  replayed by `Send` and `Answer`. `Publish` is the automatic add of a feed's new
  episodes, `Vanish` the deletion of an episode, `Pull`, `Repair` and `Cache` the three
  ways in which the server's list replaces the client's.
- **MC...** modules give constants their values for TLC. **Library_proofs**,
  **SyncQueue_proofs**, **WebTabs_proofs**, **ServerDownloads_proofs**,
  **PollJobs_proofs**, **ClientDownloads_proofs**, **Player_proofs** and
  **PlaylistOrder_proofs** hold the theorems.

Variables named *history* in the modules record the past for the properties; no
guard reads them. Operators marked *Mutant* are variants of the definition below
them with a plausible bug; no specification uses them.

### How the modules meet

Library is part of SyncQueue, FeedSync of PollJobs. Elsewhere the neighbour is an
environment that may do whatever the neighbour's module allows: WebTabs' `Remote`
and PlaylistOrder's `Foreign` are other clients of the library; ClientDownloads'
`Serve` and `Lose` are ServerDownloads; Player's `Land` and `Miss` are how a task of
ClientDownloads ends; PollJobs' tick runs the recovery pass that ServerDownloads
details; PlaylistOrder has one worker, because the journal shared by tabs is WebTabs'.

### Abstractions

- The two requests that resolve an episode and its playback are one step, and so
  are the paginator's count and rows: both come from one answer.
- Transport failure, process death and a host that cancels are one action
  (`Abort`), since all leave exactly what was committed.
- Not every kind of operation is modelled: five in SyncQueue, four in WebTabs, four
  in PlaylistOrder, one for each way the code treats them.
- A batch of imports is imported one operation at a time; it is one transaction in
  the code, so the model allows more.
- In WebTabs what a pull does between reading its cursor and committing is one step
  (SyncQueue has the detail), and Web Locks are supported: the fallback without
  them is a single tab's.
- 500 events or rows per page, 3 tries at a snapshot, the attempts of an operation or
  a download, the parallel chunks and the jobs kept are `PageLimit`, `ListSize`,
  `MaxTries`, `Budget`, `MaxAttempts`, `Window`, `MaxJobs`.
- In ServerDownloads, 403 and 404 are one refusal; the retries inside one call are
  part of `Transfer`, which writes to a file of its own and renames it; a database
  write may fail where it ends a call; an automatic download is a request.
- In ClientDownloads audio is counted in pieces, one to a chunk, and copies of
  different versions differ in size: copies of equal size are beyond what the client
  can tell apart. A request fails only after all its retries.
- In PollJobs an edition's number stands for its validators; parsing, redirects and
  the date cutoff are inside the fetch.
- In Player, rate, duration, buffering, the play context and the silent primer are
  left out; a DOM event reaches the queue in the step that causes it; a download
  lands after the commands that were waiting when it began have been worked off.
- In PlaylistOrder "added" sorts give any order, since times of addition are not kept.

## What TLC checks

| Run | Instance | Properties |
|---|---|---|
| `pull` | two episodes that come and go, 2 background events, pages of one event and one row | `NoSilentStaleness`: wherever the cache differs from the server the feed still announces it, also after offset pages have shifted under the reader; `SnapshotExact`: a snapshot is installed only if it is the library of one moment |
| `push` | 3 operations, the database replaced once, requests that outlive their senders, 1 failure, a budget of 1 | `NoLostOperation`, `HonestReceipts`, types |
| `live` | 2 operations, 1 background event, a budget of 2, fair scheduling | `LocalFirst`: cached rows move only while nothing is owed; `InOrder`; `Settles`: every operation leaves the queue; `Converges`: caches become equal to a quiet library |
| `tabs` | 2 tabs, an episode or a podcast, 2 operations, 2 troubles, or 1 and another client's write | `StoreFresh`, `TombstonesHold`, `NoLostOperation`, `QueuedShown`, the refinement `OneOutbox`, types |
| `downloads_heal` | 2 episodes, 2 calls, a batch of 1, a budget of 2, keep 1, downloads that outlast the watchdog, removals, 2 requests, 1 failure | `SoleWriter`, `BudgetSpent`, `CapHolds`, `Settles`, types |
| `downloads_rest` | 1 episode, keep 0, 4 requests | violates `CopiesAtRest` |
| `polls` | a feed that grows, two jobs over one feed, or one job over two; 1 trouble; one permit, one job kept | `NothingSkipped`, `OneRowPerGuid`, `TotalsMatch`, `FinishedIsFinal`, types |
| `arrive` | the same without manual polls, fair scheduling | `JobsEnd`, `Arrives` |
| `client` | 2 tabs, 2 tasks, both modes, a window of 2, a copy of 3 pieces replaced by one of 2, 3 commands, 2 troubles | `WholeAudio`, `NotWedged`, `DownloadingEnds`, types |
| `torn` | the same | violates `NeverTorn` |
| `playlist` | members 2 and 1, episode 3, one to come; 2 operations of eight, 1 foreign request or change, 1 lost answer, episode passed over or late page | `Replays`: what the server has, with the queue replayed, is what the client shows; `Numbered`: no two positions are equal; `Reconciles`: the client ends with the server's order |
| `player` | 2 episodes of which the server has one and the device the other or the same, all four preferences, 1 or 2 requests, 1 trouble, 2 stall ticks, 1 local retry | `ShownIsHeard`, `LatestWins`, `OneVerdict`, `HonestCursor`, `Starts`, types |

Why the bounds are enough. Each is the least at which the actors of the hazard meet:
two tabs, two calls, two runs or two tasks over one thing; pages, batches and
windows smaller than what they must hold, so that every boundary occurs; a budget
that runs out; one failure placed anywhere. One device is enough in SyncQueue:
devices share only the library, and `Background` already lets the library do
whatever another device could make it do. The library's first contents are arbitrary.
`tabs` and `polls` start in one of a few scenarios, stated in their MC module, which
spend the bounds where they matter. `playlist` also passes with three operations or
with two troubles; these take longer than a run should. `CHECK_DEADLOCK FALSE`
stands where the system may rest for good: feeds that grow no more, a client
whose user has asked for all that the bound allows.

Exceptions. Some properties except what the code knowingly leaves undone, each by a
history variable that says when it has happened: `WholeAudio` a writer opened after
its bytes were removed, `NotWedged` a new copy no longer than the staged one,
`NothingSkipped` and `Arrives` a sync cut short and validators that a 304's stamp wrote over
another run's, `OneRowPerGuid` two runs at once in
one podcast, `QueuedShown` a tab's reload or its removal of the row, `Numbered`
positions computed from overtaken reads, `Replays` a list one of whose episodes the
server has not taken, that others changed, or that was sorted by what the client does
not know, `Reconciles` an operation acknowledged without all of its effect or an old page
cached, `StoreFresh` a page or repair that crossed a pull (a queued or rejected
subscription excuses nothing: it writes no row), `ShownIsHeard` an earlier attempt's error
or a resumption by the system after the end. Two speak of a podcast's feed itself: `NothingSkipped` and
`Arrives` of feeds no two items of which can match the same episode (`Confusable`),
`OneRowPerGuid` of feeds that do not repeat a guid (`Repeating`). What lies behind
the exceptions is listed below.

Fairness.
- SyncQueue: weak fairness of each device's drain and pull. Hosts call both on a
  timer and after every change, and the gate passes on when a call ends. `Converges`
  also relies on the bounds that make the library fall quiet: against a server that
  never rests a snapshot may be given up for ever.
- ServerDownloads: weak fairness of each call's steps (spawned tasks are scheduled,
  transfers end; a stalled body is ended by the watchdog or a restart), of the
  recovery pass (the poller's tick) and of time.
- PollJobs: weak fairness of a run's work, the tick, the interval and of starting
  the loop, which `main` does; strong fairness of a feed's answer, since a request
  may time out any number of times but not always.
- ClientDownloads: weak fairness of each task and of the worker's reading of results.
- Player: weak fairness of the tick, which the provider repeats while it is mounted,
  and of a retry's sleep; nothing is assumed of the element, the worker or the user.
- PlaylistOrder: weak fairness of handlers, drain, pull and repair.

### Where the code departs from its comments

Two runs find a violation, reported under `findings`.

- `downloads_rest`: a removal reads the path, unlinks and resets without looking
  again. Crossing another removal and a new download, it unlinks the new file;
  the row ends as Downloaded with nothing under way, and streaming answers 404.
- `torn`: a task counts the staged bytes, a removal takes them away, and the writer
  it then opens starts afresh at chunk 0. The task asks only for the rest, finds its
  count equal to the total, and commits audio without its beginning.

Seen while modelling, and not the subject of a run:

- *Server downloads.* The claim compares only the status: after a removal a second
  call may fetch beside the first. A count read before a claim is written after it,
  so two attempts may count as one. The recovery batch retries an episode that was
  refused after the batch was selected. A process that dies between the unlink and
  the reset of the row (`download/src/lib.rs:720`) leaves Downloaded without a file.
- *Device downloads.* When the server's new copy is no longer than the bytes staged
  of the old one, every resume is answered 416 before the sizes are compared
  (`download.rs:433`, although the comment at 559 has the check discard stale
  bytes). A success that arrives after a removal shows Downloaded without bytes until
  the tab reloads; a removal does not stop a task.
- *Jobs.* Pruning may delete a job that was created after it had selected the newest,
  and that is running. A job running when the process died stays Running until pruned.
- *Feeds.* Validators are stored before the items: a sync cut short skips its items
  until the feed changes. A 304's stamp stores the validators of its answer
  (`manager.rs:381`, `516`) whatever was stored since: an old run that has fetched edition
  1 stalls, 2 is published and ingested by another run, whose next poll is answered 304;
  the old run stamps 1 and heals the rows back to it, and the 304 is stamped last. Every
  poll is then answered 304 over the rows of 1, until the next edition. Two runs in one podcast may insert an item twice, and so does
  one run of a document that repeats a guid, since the episodes are loaded once before
  its items. An item that matches another item's row, by guid or by URL, heals that row
  to itself and gets none of its own; the other heals it back at the next change.
- *Tabs.* Subscribing to any podcast lifts the tombstones of all (`worker.rs:391`, as
  165 documents), so a page read before an unsubscription shows that podcast again
  while the unsubscription is still queued.
- *Playlists.* Adding and removing in bulk pass over an episode that was deleted, whose
  podcast the user has left, or whose lookup or write fails, and answer 200
  (`playlists/episodes/bulk/handler.rs:20`, `48`, `70`): the operation leaves the queue, there
  is neither event nor repair, and the two lists differ until something else changes the
  playlist. The single remove is meant not to ask for a subscription, so that a leftover
  can be cleaned up (`membership/handler.rs:24`); the client only ever sends the bulk one
  (`apply.rs:106`), which does ask. A page cached after the queue has emptied may be old for as long. Positions
  tie when a handler writes what it computed from rows that others changed; the next
  rewriting heals them.
- *Player.* A retry (`controller.rs:301`) and the hand-over of a finished download
  (`playback.rs:57`) overtake a newer request whose source is being read; `stop` does
  not cancel such a read. A queued error of an earlier attempt is taken for the next
  one's, and an error reported again during a slow read spends the next retry. A retry
  waiting beside a newer read freezes the tick. Pausing and resuming while Loading
  disables the stall guard. A pause pressed as the element ends still advances. Playing
  in another context does not save the position of the episode that was playing. Paused by
  the system, sought to its end, shown as Ended and sought back, an episode that the system
  then resumes is heard under Ended: the tick does not poll in that state
  (`controller.rs:619`), and nothing reads the event.

## What is proved

For every value of the constants (tlapm; the assumptions are those the modules
declare on their constants):

| Theorem | Module | Says |
|---|---|---|
| `TypesCorrect` | SyncQueue_proofs | `TypeOK` |
| `NothingLost` | SyncQueue_proofs | `NoLostOperation` |
| `DeliveredMeansDone` | SyncQueue_proofs | `HonestReceipts` |
| `RefusedWorkStays` | SyncQueue_proofs | `RejectedKept`: a rejected entry leaves only with a wipe |
| `OwedWorkIsShown` | SyncQueue_proofs | `LocalFirst` |
| `TakenInOrder` | SyncQueue_proofs | `InOrder`, assuming `LateRequests = FALSE` |
| `CachesNeverStaleInSilence` | SyncQueue_proofs | `NoSilentStaleness` |
| `SnapshotsAreExact` | SyncQueue_proofs | `SnapshotExact` |
| `TabsTyped` | WebTabs_proofs | `TypeOK` |
| `CursorNeverBack` | WebTabs_proofs | `CursorAdvances`: tabs that pull at once do not take the cursor back |
| `TabsLoseNothing`, `TabsInOrder` | WebTabs_proofs | `NoLostOperation`; a row takes its operations in the order they were queued |
| `TombstonesNeverLift` | WebTabs_proofs | `TombstonesHold` |
| `TabsAreOneOutbox` | WebTabs_proofs | WebTabs implements Outbox |
| `StoreStaysFresh` | WebTabs_proofs | `StoreFresh` |
| `QueuedStaysShown` | WebTabs_proofs | `QueuedShown` |
| `FetchesAlone` | ServerDownloads_proofs | `SoleWriter` |
| `NeverGivenUpEarly` | ServerDownloads_proofs | `BudgetSpent` |
| `DownloadTypes`, `CapIsHeld` | ServerDownloads_proofs | `TypeOK`; `CapHolds` |
| `PollTypes` | PollJobs_proofs | `TypeOK` |
| `NothingIsSkipped` | PollJobs_proofs | `NothingSkipped` |
| `GuidsStayUnique` | PollJobs_proofs | `OneRowPerGuid` |
| `TotalsAddUp`, `FinishedStaysFinal` | PollJobs_proofs | `TotalsMatch`; `FinishedIsFinal` |
| `DeviceTypes` | ClientDownloads_proofs | `TypeOK` |
| `AudioIsWhole` | ClientDownloads_proofs | `WholeAudio` |
| `NeverWedged` | ClientDownloads_proofs | `NotWedged` |
| `PlayerTypes` | Player_proofs | `TypeOK` |
| `HeardIsShown` | Player_proofs | `ShownIsHeard` |
| `LatestIsPlayed` | Player_proofs | `LatestWins` |
| `VerdictStands` | Player_proofs | `OneVerdict` |
| `CursorIsHonest` | Player_proofs | `HonestCursor` |
| `PositionsAreDistinct`, `QueueReplays` | PlaylistOrder_proofs | `Numbered`; `Replays` |

*Native clients.* Library_proofs shows that rows have the shape deletes rely on,
that the events of the feed are above the floor and at most the head, and that
every step of the library is one of three: it moves forward, announcing every row
it changes; it drops events and raises the floor over them; or it starts a new epoch.
SyncQueue_proofs adds types and that a request under way belongs to a pending entry.
It states what a pull knows in each phase, on the condition that the
server can still answer from the cursor it will commit: while resolving a delta,
each row is announced after that cursor, or among the events left, or already
fetched or found deleted as it is; while listing, each row is announced after the
cursor, or fetched as it is on a page passed, or on a page to come; when a check
finds no event after the cursor, what was fetched is the library.
`NoSilentStaleness` is not inductive without this: it says nothing about a pull
under way. The journal needs that an answer in flight is true of the
library's history (`Answered`) and, for order, that ids grow and only the first
pending entry is sent.

*Tabs.* `TypeInv` joins types with bounds (no id or position above the last one, in
the store or in any worker's memory) and with the lock: it has one holder, and only
the holder sends or answers. `OrderInv` strengthens `NoLostOperation` with what
order rests on: a pending operation is in the holder's work or newer than all of it
(`Covered`), and the server has nothing newer of a row than what is still to be sent
(`Low`). Tombstones need that
no worker, page or repair carries a row that its tab has buried. The refinement maps
`owed` to the pending entries that have neither landed nor been superseded, so that
an entry sent twice, or saved again after a newer one replaced it, is a stutter;
each step of a tab is then `Queue`, `Answer` or a stutter.

`KnownInv` says that whatever the lock's holder has to send the journal still owes,
so nobody commits a pull meanwhile. On it stand two more. `FreshInv`: what a worker, a
page or a repair carries is as good as the store's rows if no pull was committed since
it was read, and an operation the server took while it was owed is a change to come
to whatever row it had written ahead (`Suspect`).
`ShownInv`: the newest queued operation of a row is what the tab that queued it
shows, and also what it is about to write; a page keeps the pool's value of an owed
row, pulls commit and repairs read only when nothing is queued, and an operation
that is answered was the row's oldest.

*Server downloads.* The first invariant says that a fetch whose row nothing has reset has
its row in Downloading and is alone with it, and that the counts in rows and in
calls' hands are never ahead of the fetches made. Removals and the watchdog are the
steps that break the first, which is why `SoleWriter` speaks of fetches nobody reset.
The cap needs a second, `CapInv`: every downloaded episode is on the shelf, once; and
unless some call is still to make its pass, the considered copies that no call has
in its list to remove are within the cap (`Trimmed`). `CapHolds` speaks of rest and
says nothing while lists overlap. A pass establishes `Trimmed` whatever others do: what
it leaves off its list are the newest `Keep` places of the shelf. The shelf's filters
are a recursive function (`Only`), proved by induction on the places of a list.

*Polls and feeds.* `FeedInv` states what an ingesting task knows while it stands at an
item, in a podcast whose syncs have not crossed: every row was loaded or has the guid
of an item passed, and a loaded row is as it was unless one passed has healed it
(`KnowsRows`); every item passed has its episode as the feed has it (`HoldsPassed`);
and a podcast nobody reads holds what its validators stand for (`Settled`). A 304's
stamp keeps this when it leaves the validators as they are. That
items cannot be confused is needed where one item's healing could undo another's. For
jobs: a run's job is its own and stays Running while the run may write to it
(`StillRunning`), a feed is in one place of work, channel and outcomes
(`ReportedOnce`), and the totals are the sum of the outcomes, short of the one the
writer has still to add (`TotalsFollow`). The sum is a recursive function too: it
grows by a result's tally, by well-founded induction on its length.

*Device downloads.* The invariant ties the staged record, the count of the lock's
holder and its writer together (`Fits`, `Holds`, `Linked`), and says that pieces are
laid where they belong (`Laid`, `Stored`, `Sound`) until a writer is opened for bytes
that are gone. Sizes tell copies apart, so chunks that add up to a copy's size and
were laid in order are that copy. For `NotWedged`, the requests in flight cover the
window while no error has been seen: a task that stops has met one. The declared
assumption includes that the server makes at least one copy: of none nothing is typed.

*Player.* Every handler is an operator from player to player, so there is one lemma for
what each keeps, and an action's follows from those of the handlers it calls. The
invariant has what the controller keeps about itself (`Kept`), what an element can be
(`Sane`), and two parts that carry `ShownIsHeard`. `Told`: audio that is heard was
announced after the last queued pause, and no fresh error is queued beside an element
that plays or that the system will resume. `Agrees`: what each state on the screen says of
the element. `ShownIsHeard` is not inductive without `Told`, since the tick believes the
queue: that the events it reads leave the screen in agreement with an element they do not
touch is an induction over their number (`Folded`).

The action properties need two invariants more. `Wants`: a source read that is not out
of date is for the episode asked for last. `Placed`: what plays is not done with, and the
places the screen and the element are at, or are to begin from, are in `reached`. A
handler's lemma then says to whom the screen and the element turn (`Follows`) and what it
sends: saves of the element's episode at a place reached (`Saves`), commands about
downloads, and the end of an episode one mark that only the latter follow (`Heeds`). Within
a tick that is a second induction over the events read (`Kin`), since a pause among them
saves.

*Playlists.* `OrderInv` adds to `Numbered` what a handler about to write has read
(`Fresh`): unless others have written since, its order has every member once, and the
position it appends at is above all. A lost request's handler keeps what it read under
another name. Members are finitely many, so an injective list of as many places lists
them all, and there is a highest and a lowest position. An insertion, a move and a
renumbering each have a lemma of their own.

`Replays` is not inductive: between a handler's read and its answer the first operation
is partly done. `ReplayInv` says, while `strayed` is false, that positions are distinct and
that the rows' only order leads to the client's list through lists of which each is the
next operation's work on the one before (`Led`); and of the client's request that what it
has dealt with is in the playlist or out of it (`Through`), that what it is about to write
is what the operation makes of the rows (`About`), and that an answered operation would
change nothing any more (`Holds`). So a step that does part of the first operation leaves
`Led` true because the operation, done again, changes only the rest: `FirstAdded`,
`FirstLeaves`, `TargetAgain` and `SortsAlike` say so of the four kinds, and after the answer
the first list is dropped. That rows with distinct positions have one order (`ListedOnce`)
and that a set is sorted in one way (`SortedOnce`) both rest on `OneOrder`; what a
batch adds and what a queue replays are recursive functions, unique by `InductiveSet`, the
induction on naturals for a set, which the provers can use. The proof needs that the first
members are all different (the unique index on episode and playlist), that a move and a
positioned add name one episode, and that `End` is behind every index.

What the attempts to prove found in the model, since corrected: in Player, an earlier
`ShownIsHeard` that was false beyond TLC's bounds (the last observation above); two CASEs of
ClientDownloads whose arms overlapped; in PollJobs, feeds whose items cannot be told
apart; and in WebTabs an earlier `QueuedShown` that TLC's bounds could not refute and that a
removal, or a podcast whose tombstone had been lifted, did. It speaks now of episodes
and of the tab that queued the operation, if it has not reloaded or removed the row.

Only model-checked: all liveness (`Settles`, `Converges`, `JobsEnd`, `Arrives`,
`DownloadingEnds`, `Reconciles`, `Starts`), which is beyond the provers. Every safety
invariant and every action property that a passing run checks is also proved.

## Not modelled

- Host outboxes (Kotlin and Swift): other languages' stores, in front of the journal;
  SyncQueue has them as the environment that imports, again after a crash, and confirms.
- Artwork: a cache of images behind per-key locks that nothing else reads.
- Accounts, tokens, guards: stateless checks; a refusal is an answer `Serve` may give.
- Live logging, discovery: no state that another component reads.
- HTTP routing, wire types, configuration: each request is the atomic handler it
  reaches, unless a module splits it; limits are constants.
- Migrations and database transfer: run once before anything else; swapping in an
  exported database is Library's `Replace`.
- Views, platform code, tools and tests.
- The purge card of native builds (`clear_cached_content`, `purge.rs:310`), which
  empties the cache database without the gate of SyncQueue's hosts: theirs is
  `clear_all`, which takes it (`ClearAll`), and the reset when a store is opened
  (`ResetStaleCache`).
- Within modelled components: the order of playlists themselves, sorts by title or
  duration and descending ones, configuration rows, chapters, a zero poll interval,
  the disk limit, native media stores and players, media keys.

Most of the repository's lines are views, wire types and data conversions, which
keep no state between steps; the map covers the code whose order of steps matters.
