# Axon in TLA+

Axon is a self-hosted Matrix agent: it keeps accounts signed in to their homeservers, stores
their history in PostgreSQL, indexes it, and serves it to clients over HTTP and WebSocket. This
directory specifies the parts of it in which the order of steps decides the outcome: what several
tasks, requests, statements and crashes may do to each other. The specifications are checked with
TLC on small instances, and the invariants that matter most are proved with TLAPS for every value
of the constants.

Every definition is written from the source under `src/`; `PROJECT.json` maps each one to the lines
it stands for, lists the runs with a mutant for every property, the hazards with the line where each
bites, and the theorems.

## The system

| Component | State it keeps | Operations | What is hard | Module |
|---|---|---|---|---|
| Homeserver load gate (`axon-sync/homeserver_gate.rs`) | limit, permits, held slots, breaker, FIFO queue, epoch | acquire, finish, drop, long poll, report | cancellation at every await, lost wake-ups, half-open probe | `HomeserverGate` |
| Room backfill (`axon-sync/backfill.rs`, `axon-store/backfill.rs`) | a cursor per room: token, count, failures, backoff, park | sweep, page, save, fail, clear | crash between rows and cursor, stale sweep, rejected token | `RoomBackfill` |
| Departed-room purge (`axon-store/backfill.rs`, `accounts.rs`) | intents with a row watermark | queue, retry, delete in batches, preserve | rejoin during the purge, interrupted batches | `RoomBackfill` |
| Timeline ingestion (`axon-sync/engine.rs`, `axon-store/events.rs`) | events, room state, outbox rows | live and backfilled writes | check-then-write, errors that are only logged | `RoomBackfill`, `SearchIndex` |
| Search indexing (`axon-search/writer.rs`, `axon-store/search.rs`) | outbox, cursor, Tantivy commit, seed marker | seed, drain, flush, reindex | commit order, crash between commit and cursor | `SearchIndex` |
| Re-decryption (`axon-sync/redecrypt.rs`) | rows without content, key stream | drain, sweeps, second look | a key that arrives between decryption and write | `Redecrypt` |
| Room details (`axon-sync/acquisition.rs`, `axon-store/room_detail_acquisition.rs`) | cache rows, bounded queue, cooldowns | read, enqueue, fetch, record | leave and rejoin while a request is out | `RoomDetails` |
| Member counts and names (`axon-sync/member_counts.rs`, `room_sweep.rs`) | hints, retry queue, sweep cursor, summary rows | hint, step, sweep, leave trigger | lagging channel, full queue, late write | `MemberCounts` |
| Room state projection (`axon-store/state.rs`, `axon-sync/state_redaction.rs`, `supplementary_state.rs`) | `room_state`, summary, redaction log | handle, poll, repair | two connections and a repair write one tuple | `StateProjection` |
| Unread counts (`axon-sync/engine.rs`, `axon-store/unread.rs`, `upstream_reconcile.rs`) | counts, verdicts on absent rooms, caches | seed, sweep, update, probe, receipt | fallback counts, a probe racing a success | `UnreadCounts` |
| Pending invites (`axon-sync/engine.rs`, `axon-store/invites.rs`) | `room_invites`, watcher cache, dead rooms | seed, sweep, capture, accept, reject | rejects beside captures, rooms that are purged | `Invites` |
| Account lifecycle (`axon-sync/lifecycle.rs`, `manager.rs`) | row, session, store directory and backup, slot, locks, tasks | login, logout, delete, recover, boot | crash between steps, tasks that will not die, lazy connects | `AccountLifecycle` |
| Matrix OAuth sign-in (`axon-sync/matrix_oauth_acquire.rs`) | flows, breadcrumb, staged store | create, replace, drive, finalise, reconcile | crash around the commit point, replacement | `OAuthAcquire` |
| QR login grants (`axon-sync/matrix_oauth_grant.rs`) | flows, account owners, identity lock | reserve, create, drive, cancel | verbs that wait for the lock a grant holds | `LoginGrant` |
| Device verification (`axon-sync/verification.rs`) | registry, drivers, subscribed rooms | start, drive, confirm, cancel, tear down | dual start, driver outliving its client | `Verification`, `VerificationRooms` |
| Client credentials (`axon-store/tokens.rs`, `oauth_*.rs`) | bearer tokens, identities, refresh tokens | rotate, detect reuse, unbind, revoke, sweep | concurrent redemption at READ COMMITTED | `Credentials` |
| Push router (`axon-sync/push/router.rs`, `decision.rs`) | room memory, scheduler, control flags | observe, enqueue, pump, finish, forget | bounded sends, removal beside queued observations | `PushRouter` |
| Push delivery (`axon-store/push.rs`, `axon-sync/push/deliver.rs`) | registrations, snapshot, bearer | register, revoke, reap, reload, send | stale snapshot, a late answer | `PushDelivery` |
| Live fan-out (`axon-sync/room_details.rs`, `axon-api/ws.rs`) | coalescer, channel, sockets | mark, flush, subscribe, receive, revalidate | lost wake-ups, lag, stalled sockets | `LiveFanout` |
| Drafts (`clients/tui/src/app/drafts.rs`, `axon-store/device_state.rs`) | buffers, rows, views in flight | type, flush, PUT, read, receive | reads that race frames and PUTs | `DraftSync` |
| Media cache (`axon-media/cache.rs`) | files, LRU index, flight slots, tombstones | get, store, evict, purge, rebuild | dropped requests whose file calls still run | `MediaCache` |
| Staged uploads (`axon-server/uploads.rs`, `axon-store/media_uploads.rs`) | files and rows | stage, claim, send, settle, sweep, boot | file and row out of step after a crash | `StagedUploads`, `UploadOffers` |
| Backup and recovery, discovery and gateway, HTTP handlers, configuration, the SDK, most of the clients | mostly the SDK's, or none | | | not modelled |

How they interact. The supervised task of an account runs the sync loop; its handlers write events,
room state, counts and invites through the store. An event's write appends to the search outbox in
its own transaction and pokes the indexing actor. Background work takes its permits from the gate
before it calls the homeserver. A recorded leave queues a purge, which a worker carries out, and
clears the counts by a trigger. Changed details are marked at the coalescer, published on the
broadcast channel and written to the sockets. Changed counts are observed by the push router, which
starts sends that read the registrations again. The verbs of an identity exclude each other by a
lock that sign-in, grants and verification share; a deletion ends the task, purges media, uploads and
history, deletes the row and flushes the index.

Each module states which of its neighbours it takes as one step, and marks what is outside the
repository (the homeserver, the SDK, push providers, PostgreSQL's isolation, tokio's fairness) as
external in `PROJECT.json`.

## Modules

A critical section of a mutex, a statement of the database and a stretch of code between two awaits
are one action each. Whatever an action's code calls that changes state is in the action. Requests of
the HTTP API are futures: where the handler awaits the work, a step that drops the request is
part of the model, and the code's `spawn`ed tasks are not dropped with it.

### HomeserverGate

The gate's `State` is guarded by one mutex, so each critical section of the code is one action.
`limit`, `active`, `held`, `fast`, `breaker`, `until`, `reopenings` and `queue` are its fields. An
`Instant` is the number of ticks until it. The code compares the decrease epoch for equality only,
so `fresh` (the requests of the current epoch) replaces the counter. `prober` marks the permit that
carries the probe. `pc` and `timer` are the tasks: a waiting task looks at the gate again when its
timer is 0, which `Wake` (`notify_waiters`) sets. The wake-up follows the unlock at once in the code
and is part of the same action here. Permits taken by the same task one after another are the task's
return to `idle`.

### RoomBackfill

A room's timeline is the positions `1..top`, oldest first. A resume token is the position down to
which pages have been fetched. `cursor` is the `room_backfill` row, `snap` the rows as the sweep
loaded them, `page` the request and the events of its answer still to persist. `row` holds, for each
event, whether it is stored and its age against the purge watermarks (the `id <= through` comparison:
newer than every intent, covered by the stored one, covered by the one the worker is purging). `sdk`
is the SDK's own membership, which changes before the member event's handler (`handler`) stores it
(`member`); `intent` and `worker` are the purge. The membership check of an ingested event and its
write are two actions, as they are two awaits in the code.

A live event is stored by the handler before anything else in the model looks at it. Gaps that come
from a sync response's `limited` timeline are outside the model. Which store operations may fail is
the constant `StoreErrors`.

### SearchIndex

`outbox` is the set of committed `search_outbox` rows and `tx` the transactions that have taken a
number from its sequence and not committed: PostgreSQL sequences are not transactional, so rows may
become visible in another order. `stored` is the text each event resolves to, `index` the last
Tantivy commit and `pending` the same with the writer's uncommitted operations. `actor` is the
indexing task with the locals of `seed`, `drain_all` and `apply_batch`; every await is a step
boundary. `flush` is the call at the end of an account's deletion, `marker` the file that tells the
next process not to seed. `late` is a history variable: the documents last changed by a row that
became visible below what the actor had read. Queries, documents Tantivy rejects and the last drain
of an orderly shutdown are left out.

### Redecrypt

`row` says whether an event has no row, content, or a row without content and who wrote it; `keys` is
the SDK's session store, `stream` the arrivals the drain has not taken, `marked` the column by which
the startup sweep skips rows it has tried. Each task (`worker`) reads a batch of rows, decrypts
against the keys of that moment, and writes with the guard of its statement, one step each; live
ingestion looks a second time after its write. `Lag`, `Restart` and failing statements are actions.

### RoomDetails

`rows` are the cached answers with the membership epoch they were asked in, `queue`, `running`,
`sending` and `cooldown` the acquisition queue, `job` what the worker knows. A read of a panel is
three steps (snapshot, ask, observe), after which the panel may show a refresh as running. `told` and
`stale` are what clients know. The triggers of the migration are part of the action that fires them.

### MemberCounts

Every value the SDK takes has a number of its own. `hints` is the broadcast channel with its capacity,
`pending` the retry queue with its attempts, `sweep` the cursor behind both, `work` the room at work
with the half it is in. The write is one statement with two moments, its snapshot and its update;
`fenced` is the leave trigger's watermark. `owed` is a history variable: changes that nobody announced.

### StateProjection

One room and the tuples of its state types. The two connections (`synced`, `polled`) deliver events
through `inbox`es to handlers (`job`) whose upsert compares timestamps and the redaction log; `work`
is the redaction repair. The statement that refreshes the summary is split into its snapshot and its
write, also in the transaction that inserts the room's first event. `Ts` gives each event its
sender's timestamp.

### UnreadCounts

`room` is the SDK's view: a count, and whether it was counted from a receipt that is in its chunk of
the timeline or from a fallback (`Phantom`). The chunk may lose the receipt's event at any time, with or without a
receipt that waits to be matched. `row` is the table, `last` and `gone` the watcher's
caches, `watch` where the watcher is (seed, startup sweep, updates, re-sweep, probes, prune) and `cap`
the capture of a room with its reads and its write apart. `send` are read receipts, whose answers
flag, clear and confirm rooms in `suspects` and `goneRows`.

### Invites

`hs`, `mem` and `disk` are the homeserver's membership, what `get_room` answers and what the SDK's
store holds. `row` is the table, `told` what clients were told, `dead` the disowned rooms, `cap` the
capture of a room in progress, `call` the accepts and rejects. A statement and the frame that tells of
it are two steps, so that frames cross the commits they tell of; `crossed` marks the rooms whose last
two frames went out in the other order, or whose last frame never did. An invite's generation is
invisible to the program and tells one invite to a room from the next.

### AccountLifecycle

One identity. `row`, `sess` and `verified` are the account row; `store` and `prev` the SDK store
directory and its staging backup, each holding a device's store; `slot` the client manager's slot
with `slotLock`; `cur`, `gens` and `owner` the identity's lock objects, which a deletion prunes from
the map while others still hold the old one; `reg` and `task` the registry and the supervised tasks
with their workers and their watcher; `req` the verbs at the step they are at; `send` the sends that
connect lazily. Login, logout, delete, recover, the supervisor's restart, dropped requests, failing
statements, drain timeouts, crashes and the boot are actions. Errors of the filesystem that the code
ignores (the removal of the backup after a login) leave the directory as it was (`Ignored`).

### OAuthAcquire

A flow is its request, view and lease, and its driver. `acct` is the user's row, breadcrumb, staged
and permanent store, slot and lock. Creation checks, waits for a replaced flow, reserves and starts
the driver; the driver runs to the token, claims, commits and adopts; every error path of the cleanup
before and after the commit point is modelled, and the boot's reconciliation. The other verbs are
single steps here, since `AccountLifecycle` has their interleavings. A token counts as revoked when the
revocation was attempted: `best_effort_revoke` may fail or time out.

### LoginGrant

The identity's lock is a fair mutex: a sequence whose head holds it. `owner` is the registry's map of
accounts to flows. The SDK's protocol is four phases; secrets leave in the last, after the driver has
looked at the row again. `verb` and `super` are the calls and the supervisor that cancel a grant
before they wait for the lock.

### Verification and VerificationRooms

`sdk` is the request and up to two SAS objects, since both sides may start one and the peer's replaces
ours. `drv` is the driver task, `reg` its entry in the registry, `call` the confirms and cancels,
`super` the run whose end sweeps, joins and aborts drivers. `VerificationRooms` has the rooms the loop
subscribes for verification: the loop's two reads are apart, and handlers register a flow, clear the
candidate and wake the loop in between. `handled`, the memory of events that were taken, lapses after
its time to live and at a restart; `lapses` counts that for each event.

### Credentials

`tokens` and `refresh` are the tables in insertion order, `req` the calls at the statement they are
at. A transaction's writes are seen when it commits; a statement that met a locked row waits and
looks at the row again, as READ COMMITTED does. `credLock` and `bootLock` are the advisory locks. A refresh row expires; the sweep deletes
revoked and expired rows alike, and `lapsed` keeps the mark of the latter. Identities stand for those whose provider is usable.

### PushRouter and PushDelivery

`chan` is the bounded channel of observations, `mem` the memory of each room, `inFlight`, `waiting`
and `order` the scheduler, `todo` the locals of the router's turn, `control` the flags set by other
tasks. An alert is the number of the observation that brought its message. `PushDelivery` has the
table, the snapshot and its reload, and one spawned send: liveness read, bearer, provider's answer,
delete. `clock` dates rows and answers alike.

### LiveFanout

`hand`, `pend`, `fresh`, `wake`, `flusher` and `closed` are the coalescer with its `Notify`, `backlog`
and `lagged` the broadcast receiver of each client, `sock`, `out` and `stuck` its socket task, `token`
its credential. `dirty` is the rooms a client's screen has wrong: frames carry no value.

### DraftSync

A device's `buffer`, `drafts`, `pending` change and `puts`, the server's `rows` with their stamps, the
frames on their way (`inbox`), and the read of the merged view (`fetch`, `since`). Every PUT is a task of
its own, its statement and its frame two steps; `told` is the stamp of the last frame of a room. The
selection moves with a change of rooms, which syncs the draft, and with a refresh of the lists, which
does not (`MoveSelection`). A socket that drops
loses what it carries; `seen` is the first-connect flag that decides whether a connection reads.

### MediaCache

`disk` and `dirs` are the files, `lru` and `total` the index, `flight` the slot of each key, `caller`
the requests. A dropped request releases its locks at once, but a call of `tokio::fs` it awaited still
runs: `detached` holds those, and `Land` runs one. `purge` is `purge_account`, `purged` its
tombstones, `scan` the boot's rebuild, `gc` its orphan collection.

### StagedUploads and UploadOffers

`row` and `file` are the two places an upload is in, `stage` and `send` the requests, `unlinks` the
removals under way, `quota` the advisory lock of generated previews, `boot` the reconciliation.
`UploadOffers` is what a caller is promised: an upload is offered at most once, taken by one request
at a time, goes out with everything its request took, and is never offered again after it went out,
except by a restart, which cannot know, and after a send that ran into the gateway's time limit, which
is reported as failed although the event may be out. `sent` counts the former events, `doubted` the
latter. `StagedUploads` implements it under the mapping `Offers` at
the end of the module.

## Runs

Gate, backfill, search and the refinement have MC modules of their own. The other components share
nothing in the states they are checked in, so one MC module checks several of them: a behaviour picks
a *scene* in its first state and is a behaviour of one instance of one component from then on. A
scene is an `INSTANCE` with constants chosen for one hazard; variables of the same name are declared
once, and those the scene's component does not have are 0. A property of a scene is the component's
own, guarded by the scene; a liveness property is the component's convergence or answer stated for
the scene (`scene = "x" => <>[]P` or `[]<>P`). The fairness is the component's, per scene; conditions
of strong fairness, of which a behaviour needs those of its own scene only, are merged into one each.

| Run | Module, configuration | Shows |
|---|---|---|
| `gate_safety` | `MCHomeserverGate` | three background callers, two long polls, an interactive one, limit 2: permits, queue, probe and load are accounted for under cancellation; no wake-up is lost |
| `backfill_safety` | `MCRoomBackfill` | one room of three events and a live one, pages of two, caps 0 and 2, failures and store errors: no hole above a cursor, backoff honest, progress never undone |
| `purge` | `MCRoomBackfill`, `MCRoomPurge.cfg` | leaves, purges in batches of one, failures and rejoins, rooms with and without a depth cap: the old stay is deleted and nothing of the new one; once failures stop, joined rooms are paged to their start or their cap and left ones purged |
| `search_safety` | `MCSearchIndex` | two events in two accounts, four outbox rows, every failure and crash: nothing is forgotten but what commits out of order; a flushed account stays gone |
| `uploads_refinement` | `MCStagedUploads`, `MCUploadsRefine.cfg` | every step of the staging, with every fault, is a step of `UploadOffers` or none; one sender per upload, its file as long as it is offered or claimed, one delivery besides those a time limit reported as failed (`UploadsAreKept`) |
| `rooms_safety`, `rooms_liveness` | `MCRooms`, `MCRoomsLive` | room details, member counts, room state, unread counts, invites, re-decryption |
| `accounts_safety`, `accounts_liveness` | `MCAccounts` | account verbs, OAuth sign-in, grants, verification, its rooms, credentials |
| `delivery_safety`, `delivery_liveness` | `MCDelivery`, `MCDeliveryLive` | push router and delivery, live fan-out, drafts, media cache, staged uploads; the liveness of the gate and of the search actor |
| `search_commit_order` | `MCSearchIndex`, `MCSearchCommitOrder.cfg` | a disagreement: an outbox row that commits late is never indexed (below) |

The properties of the three shared modules are conjunctions; each part is defined, with its own
comment, under its name in the MC module and in the component's module:

| Property | Parts |
|---|---|
| `DetailsAreCurrent` | `RowsOfThisMembership`, `AbsenceYields`, `PanelIsAnswered` (room details) |
| `CountsAreCurrent` | `NoOldMembership`, `NothingForgotten` (member counts), `ChangeIsAnnounced` (counts and state) |
| `RedactionsReach` | `PrunedIsRedacted`, `RepairIsHinted` (room state) |
| `UnreadIsBacked` | `HeldIsNotWritten`, `JoinedRowsKept`, `PinnedStaysZero`, `GoneIsBacked` (unread counts) |
| `RowsAreRetried` | `LiveIsDecrypted`, `MarkedWasTried` (re-decryption) |
| `NothingIsUndone` | what a step may never do: `NoAmplification`, `RedactedStays`, `RowMovesForward`, `PurgedIsFound`, `NoWrongDrop`, `ContentStays` |
| `RoomsConverge` | `JobEnds`, `CountsConverge`, `StateConverges`, `UnreadConverges`, `Drains`, `DeadIsDropped`, `InboxConverges`, `PendingIsListed`, `KeyDecrypts` |
| `AccountIsWhole` | `OneAtATime`, `NoClientBehindTheGate`, `ActiveIsSupervised`, `StoreIsQuiescent`, `GoneIsClean`, `SessionHasStore`, `VerifiedIsOfThisDevice`, `DeactivatedIsUnverified`, `VerbsGoOn`, `DeletionResumes` |
| `SignInIsSettled` | `CommittedIsKept`, `CancelledIsNotAdopted`, `OneFlowPerUser`, `VerifiedIsEarned`, `ApprovalIsKept`, `SessionIsSettled`, `CachedIsActive`, `ReservationIsOwned` |
| `GrantsAreOwned` | `LiveIsOwner`, `OwnerIsServed`, `RegistryIsBounded` |
| `VerificationIsSound`, `RequestsAreHandledOnce` | `DoneIsVerified`, `DrivesCurrent`, `EntryHasDriver`, `DriverHasClient`; `HandledIsTaken`, `MintOnce` |
| `CredentialsAreSafe` | `OneBootstrap`, `OwnerCanSignIn`, `RotatedOnce`, `UnboundIsClean`, `RegisteredIsBacked`, `RotationIsCaught` |
| `EffectsAreCurrent` | `OutcomeIsFinal`, `SecretsAreGuarded`, `MacNeedsActive` (action properties of verification and grants) |
| `WorkEnds` | `ReservationEnds`, `CommitIsAdopted`, `VerbEnds`, `FlowEnds`, `WantedIsSubscribed` |
| `SendsAreScheduled` | `OneSendPerKey`, `NoneStranded`, `BadgeFollows`, `SentOnce`, `CountsFollow` (push router) |
| `RegistrationsAreCurrent` | `RevokedOwnsNothing`, `EndedIsNotSent`, `MintsAreEarned`, `RefusedIsDropped` (push delivery) |
| `ScreensAreSignalled`, `DraftsAreKept` | `StaleIsSignalled`, `PendingIsWatched`; `SiblingsConverge`, `TypedStays` |
| `FilesAreAccounted` | `SingleFlight`, `SlotsAreUsed`, `CountedIsOnDisk`, `PurgedIsNotCounted`, `TotalIsExact`, `CapHolds`, `PurgedStaysGone`, `OrphansAreSwept` (media cache), `SendingIsOwned`, `QuotaHolds`, `NoStrays` (uploads) |
| `DeliveredInOrder` | `InOrder`, `AnswersAreCurrent` (action properties of push) |
| `DeliveryCatchesUp` | `WaitingStarts`, `EndedRowsGo`, `SnapshotFollows`, `PendingIsPublished`, `RevokedIsClosed`, `Answered`, `DeletionEnds`, `StraysArePruned`, `ExpiredGoes`, `QueuedIsServed`, `Recovers`, `Settles`, `FlushReturns` |

What a passing run shows of a property is for the scenes named in its definition. The comment over
each scene says what it holds; the comment over each property says what would be wrong without it.

### Bounds

Every bound is a constant. Counters that only end behaviours (`Max...`) are small; they are chosen so
that the mutant of every property needs no more than half of them.

- Gate: no bound on time or epochs. Three background tasks give a head, one behind it and one with a
  permit; a limit of 2 is halved twice before the breaker opens. `ReopenCap` saturates the reopenings
  where the cooldown is at its maximum (`ReopenCapAssumption`).
- Backfill: pages of 2 of a history of 3 give a full page, a partial one and an end. `ParkAfter = 3`
  gives two retries before a room is parked. `CountCap` saturates a counter that is compared with a
  cap only. Rooms share nothing but the sweep, which the model pages one room at a time. The purge run
has a history of 1 and a live event, pages of one or two events, caps 0 and 1, and parks a room after one
failure: a page is cut by a leave between two events, and a capped room carries failures.
- Search: two documents are the least for a batch applied in part, two accounts for a deletion beside
  another account's writes, `MaxSeq = 4` for a full batch, a late row and one more.
- Rooms: one room and a second where a queue, a sweep or a probe has to choose; channel and queue
  capacities of 1 or 2, so that they overflow; three state events where an order of three matters; a crash
in the re-decryption of rows that were tried once (scene `twice`).
- Accounts: two requests of one identity (exclusion), or one with every fault; two flows for
  replacement and for the registry's cap; three refresh tokens for a rotation of a rotation; three devices
where a login follows an interrupted one (`gone`); one refresh row beside the bootstraps, so that each
of its doors is open (`guard`); registrations beside rotations, expiry and sweep (`replay`); one restart
of the loop that mints requests (`minting`).
- Delivery: two sends and one permit (a queue), two sessions for a device that moves, three objects
  in a cache of three bytes (eviction of one and of two), three previews and a quota of one; two PUTs of a
device in flight, two or three edits and two moves of the selection for drafts.

### Fairness

- Gate: requests end (every call has a timeout), a task whose timer is 0 is polled, time passes, and
  the supplementary transport polls in a loop. Without that loop nothing needs to try an open breaker.
- Backfill: the task and the purge worker are loops on tickers, requests and statements end. The
  properties are conditional on an end of failures (`<>[][Calm]_vars`).
- Search: the actor keeps running (weak fairness); its `select!` picks at random among what is ready,
  so a waiting flush is taken in the end (strong fairness of `TakeFlush`).
- Room details, member counts, state, re-decryption: workers, handlers, polls and timers are loops
  that keep running (weak fairness); the homeserver's changes are bounded and nothing is assumed of
  them. Unread counts and invites: the watchers' steps are weakly fair, and their interval tick is
  strongly fair, because `tokio::select!` picks among ready branches at random.
- OAuth sign-in: requests, drivers and the boot go on (weak); a deadline that stays near and a lock
  that is released again and again are met in the end (strong: tokio's mutex is FIFO, which a set of
  waiters does not show). Grants have the FIFO queue itself; the cancellation branch and the deadline
  of a `select!` are strongly fair. Verification: drivers, joins, sweeps and the SDK's expiry of
  requests go on (weak). Verification rooms: the loop, its polls and the handlers (weak).
- Account verbs: their progress is checked as freedom from deadlock (`VerbsGoOn`, with `ENABLED`),
  since how long an SDK call takes is nobody's promise.
- Push: the router's turn, sends, reaper and reload tick (weak). Fan-out: flusher, deliveries and the
  delay timer (weak), receiving and revalidation (strong: branches of one `select!`).
- Media cache: requests and purges are strongly fair (they wait for permits and locks that others
  take in turn), collection, resumption of deletions and rebuild weakly. Uploads: sends, unlinks,
  sweep and boot (weak). Drafts: no liveness is checked; `SiblingsConverge` is an invariant of
  quiescent states.

### Disagreements found

What the code does and what a doc or comment of it says differ in these places. The first has a run
that fails; where another names a property, it is defined in the module and TLC refutes it under the
condition given.

Search and history:

- **Commit order of the outbox** (`search_commit_order`, `NoneLost`). Sequence numbers are taken inside
  transactions that hold a lock per room only (`axon-search/writer.rs:233`). A row that becomes visible
  after a later one was drained lies below the cursor and is pruned unread. The crate says that no
  successful write goes unindexed. The corresponding window of the seed is documented and allowed.
- **A flush during a seed** (`FlushGone`). Between two batches the seed takes a message to see whether
  the channel is closed and drops it (`writer.rs:351`); a flush dropped this way returns at once.
  `FlushedIsGone`, which holds, is about flushes whose drain succeeded.
- **A rejoined room with a hole** (`RejoinRefills`). Events of a page are skipped while the SDK says the
  room is left, but the page's cursor is saved (`axon-sync/backfill.rs:640`), and
  `preserve_room_after_purge` keeps it for a rejoined room. The store says it is backfilled afresh.
- **Store errors in a page** (`NoGap` with `"persist"` in `StoreErrors`). `persist_event_core` logs the
  error and the cursor moves on, where the store says progress is saved after a page is persisted.
- **Re-decryption.** The backfill path has no second look (`BackfilledIsDecrypted`,
  `engine.rs:837`); the startup sweep skips tried rows also when their key was stored just before a
  restart (`LiveIsDecrypted` without `AlwaysAll` and with two restarts,
  `axon-store/events.rs:741`).

Rooms:

- **Member counts.** A half whose two seconds pass after its commit, or a clearing by the leave trigger,
  changes a row nobody announces (`ChangeIsAnnounced`, `member_counts.rs:105`).
- **Room details.** A cancelled worker leaves panels it was seen by untold (`PanelIsAnswered` with
  `MaxStops > 0`, `acquisition.rs:681`); the membership is checked once before pacing and gate
  (`RequestsAreEligible`, `acquisition.rs:704`).
- **Room state.** Equal timestamps overwrite also with an older event (`RowMovesForward` with equal
  `Ts`, `state.rs:322`); a sender's clock that is behind keeps the replaced event (`Converges` with
  decreasing `Ts`); no hint for types only the second connection requests (`RepairIsHinted`,
  `state_redaction.rs:141`); a failed summary refresh hides a change (`ChangeIsAnnounced` with
  `Faults`); summary refreshes with crossing snapshots miss a tuple or show a redacted one
  (`SummaryAgrees`, `SummaryIsRedacted`, `state.rs:391`).
- **Unread counts.** The hold on an increase asks about a receipt that waits to be matched only, and after
  the counts were read: when the receipt's event leaves the chunk with nothing pending, or the chunk is
  reloaded during the question, the SDK's fallback count is stored (`engine.rs:1552`, `3083`). What holds
  is `HeldIsNotWritten`. An upsert whose answer is lost leaves the cache wrong
  (`Converges`, `engine.rs:3157`); a failed first read of the verdicts un-pins a zero (`PinnedStaysZero`,
  `engine.rs:3611`); a promotion applies an old verdict to a new suspicion (`GoneIsBacked`,
  `upstream_reconcile.rs:75`); inconclusive probes starve the rest (`Drains`, `engine.rs:3434`).
- **Invites.** A capture in progress brings a rejected invite back (`RejectedIsGone`, `engine.rs:3927`);
  frames are sent after their statements by tasks that know nothing of each other, and not at all when
  the request of a leave is dropped between the two, so an inbox can stay wrong until it is loaded again
  (`InboxConverges` and `DeadIsDropped` without `crossed`, `engine.rs:3927`, `routes/membership.rs:79`);
  a room served again stays dead (`PendingIsListed` with `Returns`, `manager.rs:172`); the delete after
  a leave names the room only (`NoWrongDrop` with a second invite, `routes/membership.rs:79`).

Accounts:

- **Lifecycle.** A dropped verb loses the handle of the task it was draining, and an aborted supervisor
  detaches its workers (`StoreIsQuiescent`, `lifecycle.rs:1835` and `1861`); a crash or an error between
  the insert of a row and its deactivation leaves it active without a session or a task
  (`ActiveHasSession`, `ActiveIsSupervised`, `lifecycle.rs:1069`); `verified` survives a crash inside a
  logout (`VerifiedIsOfThisDevice`, `lifecycle.rs:1406`); a login after an interrupted one discards the
  store of the session that is still persisted, where the comment says that repeated crashes converge
  rather than lose data, and a backup whose removal failed, called harmless, outranks the newer store at
  the next attempt (`SessionHasStore` without `row = "active"`, `client.rs:286`, `724` and `752`); the lock's map entry is never pruned by a
  delete (`RetiredIsPruned`, `lifecycle.rs:1807`).
- **OAuth sign-in.** A failed activation leaves a live client on a deactivated row for a logout to
  revoke (`CommittedIsKept`, `lifecycle.rs:1229`); a dropped request leaves its breadcrumb until the
  next boot (`ReservationIsOwned`, `matrix_oauth_acquire.rs:768`); a cancelled QR login drops the SDK's
  future with its token request out (`SessionIsSettled`, `:1456`); the second comparison with the cap
  refuses a request that has already replaced a flow (`RefusedReplacesNothing`, `:749`). Revocation is
  best effort (`:1621`): `SessionIsSettled` says that it is attempted.
- **Grants.** A reservation between the two statements of the cancellation is waited for
  (`WaitsForCancelled`, `matrix_oauth_grant.rs:413`); a dropped request keeps the account's owner entry
  (`OwnerIsServed` with `MaxDrops > 0`, `:498`).
- **Verification.** A start registers a driver no sweep sees, and a confirm's own outcome hides its
  driver from the teardown (`DriverHasClient`, `verification.rs:2014` and `625`); the removal after an
  abort may erase an outcome (`RemovesPending`, `:667`); a replaced SAS whose done is seen first is
  waited for (`FlowEnds`, `:1663`); the loop's two reads miss a handler half-way (`WantedStays`,
  `engine.rs:1848`); handled events are forgotten after 600 seconds and by a
  restart, so that a redelivery mints a second request (`MintOnce` without `lapses`,
  `verification.rs:474` and `504`); a timed-out join is not counted (`PollIsCapped`, `engine.rs:1818`).
- **Credentials.** A cut misses the successor of a successor (`CutEndsRenewal`, `tokens.rs:528`); a token
  minted beside an unbind survives it (`UnbindEndsMinted`, `routes/management.rs:323`); the sweep deletes
  the expired refresh row of a session whose push registration stays until its next send or the boot, as
  ADR 0113 records (`RegisteredIsBacked` without `"expired"` and `"lapsed"`, `oauth_refresh_tokens.rs:282`).

Delivery:

- **Push.** Observations already in the channel are applied for a removed account (`RemovedIsQuiet`,
  `push/router.rs:567`); a 410 deletes a registration written after its send read the row
  (`ReRegisteredStays`, `push/deliver.rs:107`).
- **Fan-out.** A lagged receiver goes on without a signal (`StaleIsSignalled` with a `Capacity` below
  the number of frames, `ws.rs:718`).
- **Drafts.** Every PUT is spawned (`drafts.rs:221`) and its frame is published after its statement, so two
  of them store or tell in the other order; a client ignores the stamp of a frame and keeps the older
  text until its next read (`SiblingsConverge` without `ToldNewest`, `device_state.rs:185`). A selection
  that moves with a refresh of the lists does not sync the draft, which loses the change that waits or
  puts it under the new room, against the comment at `drafts.rs:352` (`app/rooms.rs:153`,
  `app/spaces.rs:520`). A PUT in flight protects nothing (`:278`); the compose room is protected from
  every read (`:280`); a late first connection reads nothing (`SiblingsConverge` with `LateSocket`,
  `bootstrap.rs:178`).
- **Media cache.** A request dropped between index and unlink leaves files nobody counts (`CapHolds` with
  `"cancel"`, `cache.rs:640`); a directory call on the blocking pool outlives the lock
  (`PurgedStaysGone` with `"cancel"`, `:630`); the rebuild merges what it listed before a purge
  (`PurgedIsNotCounted` with `FromBoot`, `:778`).
- **Uploads.** A send that runs into the gateway's time limit is answered with 504, outcome unknown, do not
  resend (`messages.rs:157`), and its upload is put back on offer although the event may be out
  (`SentOnce` over `sent` and `doubted` together, `gateway.rs:135`, `uploads.rs:198`). A dropped send leaves its row in `sending` until a boot (`SendingIsOwned` with `MaxDrops >
  0`, `routes/messages.rs:198`); the deletion of an account leaves its staged files (`NoStrays` with
  `AccountLeaves`, `lifecycle.rs:1759`); a staging request dropped while its insert commits leaves a row
  without a file, whose id no client was given (`StagedHasFile` without `stage[u] = "done"`,
  `uploads.rs:256`).

## Proofs

Six modules hold hierarchical proofs, one step per action, from the named assumptions on the constants
and the conditions named below: `HomeserverGateProofs`, `RoomBackfillProofs`, `SearchIndexProofs`,
`StoreProofs` (staged uploads, the media cache, the credentials), `RoomProofs` (re-decryption, room
state, unread counts) and `DeliveryProofs` (the push router, push delivery, live fan-out). The
components of one proof module share no state.
Two more, `MCDeliveryProofs` and `MCRoomsProofs`, prove what the runs check of the scenes from the
invariants of the components. Each inductive invariant was also checked with TLC on an instance of its
component.

**Gate.** `Inv1` (types, the queue holds exactly the waiting tasks, each once, and `active` is the
number of permits) is inductive by itself. `Inv2` adds that the breaker is probing exactly while one
request in flight carries the probe, and that the limit is zero exactly while it is not closed.
`Inv3` bounds the load: requests of the current epoch fit in the limit, because a decrease empties
that set and a grant requires room; requests of earlier epochs were admitted under earlier limits, so
all of them together stay below the maximum and the probe. It needs that a probe is the only fresh
request while the breaker is not closed.

No wake-up is lost (`WakeupsCorrect`): a caller the gate would admit is about to look. `NoLostWakeup`
is not inductive. `Inv4` says what a sleeper's timer is worth: holds expire in the order they were
pushed (`HoldsInOrder`); the head of the queue sleeps no longer than the earliest hold before a full
gate, and no longer than the cooldown before an open breaker (`HeadSleeps`); a long poll sleeps only
before a breaker that is not closed (`PollsSleep`). Every other change that could admit a sleeper goes
through `Wake`.

**Backfill.** `NoStaleBackoff` is inductive with the types. `RejoinKept` needs that rows of the
current stay are newer than every watermark (`StayIsNew`), which rests on `InTimeline`: a new event's
row is absent, so it takes a new id. `NoGap` is not inductive: the token the sweep loaded, the one
the request carries and the one its answer brought must be as true as the cursor saved from them
(`ClaimsHeld`). It is proved for a configuration without purges and without errors on the write of
an event; with either, TLC has a counterexample.

`ProgressKept` is a set of action properties: only a rejected token or a purge makes a room page its
history again, a stale sweep does not shorten a backoff, and a second rejection waits. The invariant
`SweepFollows` relates the rows the sweep loaded, possibly long ago, to the rows of now: while the
sweep has a room still to visit, the stored cursor has only been ticked or purged, and a page in
flight is one of that copy.

`PurgeComplete` says that once a leave is recorded and its purge is over, at most the one write that
had passed its membership check is left of the room. `WatermarksStand` says where the two watermarks
of a room can be in each phase of the worker; `OneLateWrite` that a second uncovered row cannot come
about, since a page writes one event at a time and checks before each; `LeftIsLeaving` that a room the
SDK has left has no join still to be recorded. A batch shorter than its limit is the last one
(`ShortBatch`). The theorem assumes that the record of a membership does not fail or get lost in a
crash (`"member" \notin StoreErrors`, as in the `purge` run): a leave that was not recorded queues no
purge.

**Search.** `NothingForgotten` is about the last commit and the durable cursor. Its strengthening
says what the writer's uncommitted state is worth in each phase: behind the corpus scan documents are
settled with the seed's high-water mark (`ScanOK`), between batches with the cursor (`RestOK`), and
within a batch with its last row or still due (`BatchOK`), where settled means right, named by a
visible row above, or passed while in flight. A batch that is given up falls back to the old cursor
(`GiveUp`), which is why the cursor must follow the commit.

`FlushedIsGone` adds three invariants. `DeletedIsEmpty`: an account that is being deleted has no write
under way, and no event when its flush is asked for. `FlushHasRead`: a drain for a flush that found
less than a full batch has read every row that derives a document of the account. `FlushedStaysGone`:
from then on no visible row above the cursor (or the seed's watermark) derives one, and neither the
commit nor the writer holds one, except for a row that committed below one already read.

**Uploads.** `UploadsAreKept` says nothing about how a request stands to the rows it has claimed, so it
is not inductive. `IInv` adds it: a request has claimed the first of the uploads it wants, in order and
each once (`Local`); what it holds is not on offer, so no second request can claim it (`HeldIsClaimed`,
`OneHolder`); a file is final before its row is inserted and its removal waits for the row and for the
request that reads it (`FilesWait`, `HeldHasFile`); an upload that went out in the life of this process
is not on offer, and the request that may still hold it knows that it was sent (`SentIsSpent`,
`OkIsSent`), unless the send timed out, which counts in `doubted`; and the boot runs without requests (`BootIsAlone`).

`OffersCorrect` proves the refinement. The holder of an upload is the request whose claims contain it,
which is unique by `OneHolder`, so each lemma of the second half computes what a step does to
`OfferState` and `OfferHolder` and names the step of `UploadOffers` it is: a claim is `Take`, a release
`GiveBack`, a send that timed out `Doubt`, a completed claim `Spend`, a failing one or a dropped request `Lose`, and
what only the files, the lock or the counters see is a stutter.

**Media cache.** `FlightInv`: the callers of a slot of the flight map are counted in it, and one of them
at most is inside, so an object is downloaded once at a time and no slot stays behind
(`FlightCorrect`, without a condition). `PurgeInv`: from the moment a purge holds the lock of its account
no request stores under it, so that what each of its steps removes stays removed. `PurgedCorrect` assumes
`Faults = {}`: a call of the filesystem that fails, or one that outlives its dropped request, can leave
the directory or bring it back. `OrphanInv`: nothing that could write under an account without a row
survives a boot; `OrphansCorrect` assumes only that calls of the filesystem succeed (`"io" \notin
Faults`), dropped requests included.

**Live fan-out.** `PendingIsWatched` is not inductive: when the flusher goes to wait, nothing may be
pending without a permit of the `Notify` or a producer that is about to notify, and after the map is
closed nothing may be marked any more (`ClosedIsEmpty`, with the places a producer can stand in,
`Hands`). `StaleIsSignalled` follows a change on its way: written but not marked, pending, taken by a
producer at a full map or by the flusher, in the backlog, on the wire, being read; every step moves it
to the next place or reaches the client. `SignalledCorrect` assumes that the broadcast channel never
overwrites a frame of a connected client (`[]NoLag`): the code logs a lag and skips the lost frames, so
what a lagging client misses is not signalled again until the next change or connection.
`QuietCorrect` proves the assumption where it is true: an account that changes no more often than the
channel has room for (`MaxChanges <= Backlog` and no other traffic) overwrites no frame. The scene
`fanning` is such an account.

**Push router.** A key (a device and a room, or the badge of a device) is in flight, and exactly one
thing owns it: a send, the report of one that has ended, or the finished key in the hands of the router
(`OwnInv`). With it the sends fit in the permits and no two share a key (`SendsCorrect`). `LineInv` says
where a waiting job can stand between two steps of the scheduler: behind its own key, queued once, or
on its way through `finished` and `pump` (`SchedulerCorrect`). The order of sends (`OrderCorrect`) needs
both, since a job is newer than whatever its key was last posted for only as long as a started key does
not wait as well (`Handed`), and that jobs are stamped in the order of the observations (`OrderInv`).
`KnownInv` ties what the router remembers to the observations it has applied; from it follow that
messages are alerted once (`WakesCorrect`) and that the counts catch up (`CountsCorrect`).
`BadgeCorrect` follows a fall of the total to the push that reads it. What `retain` leaves of the queue
is proved by induction over the length of the queue, in the form of a least counterexample
(lemma `Least`, from the well-foundedness of the naturals), which needs no operator parameter.
The theorems hold for any rooms, devices, permits, capacities and bounds that satisfy `PushAssumption`.

**Push delivery.** `PushInv` dates everything: a registration by its insertion and its last write
(`RowsDated`), and what the snapshot and a send carry by when it was read (`SnapDated`, `SendsOK`). So an
answer of a provider about an older registration cannot match a newer row (`AnswersCorrect`), and a send
that has looked at the sessions does not go to one that had ended (`RegistrationsCorrect`). The lock of
the token cache has one holder (`OneMint`), and a bearer is minted only after one lapsed (`Earned`).

**Re-decryption.** `RedecryptInv` has the types, the event a task has in hand (`InHand`), and that a
startup sweep records what it tries before it marks it (`TriedIsSwept`); only the sweep of the operator
is cut short (`Uncut`). `LiveIsDecrypted` is a statement about rest; `LiveInv` says who will come to the
row until then: the arrival is announced and not yet read, the drain or the live handler has the event
in hand or before it, or a startup sweep of all rows has yet to load it (`Awaited`). `LiveCorrect`
assumes `Reliable`: the stream starts before the first key and does not lag, statements succeed, and
after a restart the sweep looks at every row and finds every room. Where one of these fails the row waits
for the next sweep or for the operator's retry.

**Room state.** `ProjectionInv` says that whatever is pruned, in a tuple, a cache, a response, the hands
of a handler or the plan of the repair, is an event the homeserver applies a redaction to
(`OnlyRedacted`), that the inbox of a connection is never ahead of the server and a redaction never
ahead of its target (`Inboxes`, `NotedIsPast`). `PrunedCorrect` and `StaysCorrect` follow. `ForwardCorrect`
assumes that timestamps follow the order of the events: the guard of `upsert_room_state` compares
`origin_server_ts`, which a sender chooses, so without it the claim is false. `HintInv` says who still
sees a stale tuple: a hint is queued, the redaction is still to be handled, the writer has yet to look at
the cache, or the repair has the tuple before it. `HintedCorrect` assumes `Hinted`: the SDK caches every
type and the hint channel is not full; otherwise the periodic sweep is what repairs the tuple.

**Unread counts.** `UnreadInv`: the reconcile table has one row of a room, suspect or gone (`OneRow`); the
SDK counts from what it holds (`Counting`); a sweep that prunes has a full list of rooms (`Kept`); and an
answer that a room is served is true or was overtaken by a purge (`Answered`). It carries
`RowsKeptCorrect` and `FoundCorrect` without a condition. `HeldInv` adds to
`HeldIsNotWritten` that a capture belongs to the pass that started it, so that the cache it was compared
with has not been seeded anew when it is written. `HeldCorrect` has no condition. `PinInv`: what a sweep has pinned is in the set of the watcher, so that every capture of it
is zero; `PinnedCorrect` assumes that the first read of the verdicts succeeds (`SeedFails = FALSE`).
`BackInv`: a room that answered is served, neither suspect nor gone, and no failure of it is under way.
That is what `BackedCorrect` needs `OneReceipt` for (one sender, no failure in a room that is served):
of two receipts in flight the one that failed may be noted after the one that succeeded, flag the room
again, and let the verdict of a probe from before the success through.

**Credentials.** The proofs rest on one lemma per action that says what its call knows afterwards, and
on three groups of steps: those that move a call and leave the tables alone (`Moving`), those that write
(`Writing`), and those no call makes (`Apart`). `BootInv`: a bootstrap past its check has the bootstrap
lock and no bootstrap credential exists yet. `RowInv`: the lock of a refresh row has one holder, the row
a rotation holds is still active, and a row that was rotated is spent for good; so no second successor
names it (`RotationCorrect`).

`OwnerCanSignIn` is not inductive: between its count and its commit a removal relies on a survivor.
`LockInv` says that a removal past its start has the credential lock, and that the identity an unbind
works on is bound. `GuardInv` adds that what a removal has counted is still there (`Counted`): steps
without the lock only add credentials or expire tokens that are no survivors (`Grows`), and a commit is
alone with the lock (`CommitsAlone`). The theorem assumes `"unguarded" \notin Calls`, that is, the
removals of the management API without `allow_lockout`; the operator's commands are allowed to remove
the last credential, and the cut after a reuse, which is not guarded either, is covered since it takes
no token.

`CleanInv`, for `UnboundIsClean`, follows what belongs to an identity. An access token names its
identity while that is bound and is revoked after (`Roots`); tokens, refresh rows and calls in flight
belong to sessions of their identity (`Sessions`, `RowSessions`, `CallsClean`); the registered sessions
are those of permanent tokens and of bound identities (`RegsHeld`); an unbind that has collected what is
to go has all of it, because the inserts that would add to it wait (`Taken`), and it never holds an
identity a rotation shares (`ShareFree`). A revocation must not bring a deleted row back as a revoked
one, hence `Hits`. `RegisteredIsBacked` is inductive with the types: each removal takes the
registrations of the sessions it ends along, a rotation leaves a successor of the same session, and a row
that expires or is swept after it keeps its mark.

**Scenes.** The groups of properties that the runs check of `MCDelivery` and `MCRooms` are conjunctions
over scenes, each an instance of a component with a few values. `MCDeliveryProofs` and `MCRoomsProofs`
instantiate the proof modules with the same values. A step of the composition is a step of the scene it
shows, and a step of the scene's instance is a step of the proofs' instance since both expand the same
definitions; so the component's inductive invariant is kept by the composition while the scene lasts,
and a scene does not change. The assumptions on constants follow from those the composition states.
This gives `SendsAreScheduled`, `RegistrationsAreCurrent`, `ScreensAreSignalled`, `DeliveredInOrder`,
`RowsAreRetried`, `RedactionsReach` and `UnreadIsBacked` as theorems, for runs of any length.

Only model-checked:

- the liveness properties, `VerbsGoOn` and `HistorySettles`: fairness and `ENABLED` are out of the
  prover's reach;
- in `MCRooms`, `DetailsAreCurrent`, `CountsAreCurrent` and what is said of invites: `RoomDetails`,
  `MemberCounts` and `Invites` have no proofs. `NothingIsUndone` joins action properties of these with
  some that are proved for their components (`ContentCorrect`, `StaysCorrect`, `ForwardCorrect`,
  `FoundCorrect`);
- in `MCAccounts`, all groups. Of `CredentialsAreSafe` the five parts above are proved for `Credentials`;
  `RotationIsCaught` is not, so the group is left to TLC. Account lifecycle, OAuth sign-in, grants,
  verification and device requests have no proofs;
- in `MCDelivery`, `DraftsAreKept`, and `FilesAreAccounted`, whose `TotalIsExact` is a sum over a set:
  adding up needs induction over data. Its other parts are `FlightCorrect`, `PurgedCorrect` and
  `OrphansCorrect`;
- the type invariants of the compositions, whose components are mostly typed by their own theorems.

`DoublingAssumption` and the last part of `ReopenCapAssumption` state arithmetic the prover does not
know; TLC evaluates them.

## Not modelled

- Encrypted backup and recovery: the SDK's cryptography does the work; Axon passes keys through.
- Discovery and gateway: request building and response mapping, one call each, without state.
- HTTP handlers and routing: stateless, except for the verbs, which are in their components.
- Configuration and process setup: read once at start.
- The vendored SDK: its behaviour is taken from how Axon calls it and marked external.
- The clients: rendering, key bindings and local views; only the drafts protocol is in `DraftSync`.
- In the modelled components: queries and formatting, metrics, logging, and the parts named in the
  `note` of each component in `PROJECT.json`.

## Plan

Every component whose order of steps decides its outcome has a module and properties that are
checked. What is left is proof. In this order:

1. `Credentials`: `RotationIsCaught`, which needs to follow a session through its rotations, and with it
   the scene `CredentialsAreSafe`.
2. `RoomDetails`, `MemberCounts` and `Invites`, and with them the rest of `MCRooms`.
3. `AccountLifecycle`, `OAuthAcquire`, `LoginGrant`, `Verification` and `VerificationRooms`, for the
   groups of `MCAccounts`.
4. `DraftSync`.
