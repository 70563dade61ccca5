----------------------------- MODULE MCDelivery -----------------------------
(***************************************************************************)
(* What reaches the clients and what they send: PushRouter, PushDelivery,  *)
(* LiveFanout, DraftSync, MediaCache and StagedUploads. They share no      *)
(* state here. A behaviour is of one scene, an instance of one of the      *)
(* components: a variable that two of them have is declared once, and the  *)
(* variables a component does not have are 0 in its scenes. The scenes     *)
(* here are those of the safety properties; MCDeliveryLive adds those of   *)
(* the liveness properties, also of HomeserverGate and SearchIndex, whose  *)
(* invariants have runs of their own: their variables are declared here.   *)
(***************************************************************************)
EXTENDS Naturals, Sequences, TLC

CONSTANTS
  Scenes,  \* the scenes of a run
  r1, r2, a1, NoRoom, ap, fc, t1, t2, x1, x2, x3, s1, s2, z1, A, B, k1, k2, k3, c1, d1, d2,
  None, NoDraft, b1, b2, p1, i1

VARIABLES
  scene,  \* the scene this behaviour is of
  clock, count, gone, chan, lost, mem, inFlight, waiting, order, todo, control, sends,
  posted, owed, shown, woken, session, rows, died, snap, changed, errors, task, bearer,
  minted, refused, lapses, refusals, hand, taken, pend, closed, fresh, wake, flusher,
  flushing, late, cancelled, sock, backlog, lagged, out, reading, dirty, stuck, token,
  changes, connects, faults, drafts, buffer, selected, compose, pending, puts, inbox, link,
  seen, booted, fetch, since, told, edits, moves, drops, dirs, disk, lru, total, flight, caller,
  detached, purged, purge, scan, gc, orphans, crashes, row, expired, file, stage, quota,
  send, unlinks, sent, doubted, account, boot, limit, active, held, fast, breaker, until, reopenings,
  queue, prober, pc, timer, stored, tx, seq, outbox, cursor, index, marker, actor, flush

-----------------------------------------------------------------------------
\* The router of push notifications.

\* Observations of a room for a device of each provider, and a permit for one send.
Routing == INSTANCE PushRouter WITH
  Rooms <- {r1}, Accounts <- {a1}, Account <- [r \in {r1} |-> a1], Apns <- {ap},
  Fcm <- {fc}, Permits <- 1, Capacity <- 2, MaxCount <- 1, MaxHighlight <- 1, MaxObs <- 3

\* What `retain` leaves of a queue is the filter of the library, on short queues.
ASSUME RetainIsFilter ==
  \A n \in 0..4 : \A q \in [1..n -> 1..2] : \A keep \in SUBSET (1..2) :
    Routing!retain(q, keep) = SelectSeq(q, LAMBDA x : x \in keep)

\* A fourth observation, for a device with a badge.
Badging == INSTANCE PushRouter WITH
  Rooms <- {r1}, Accounts <- {a1}, Account <- [r \in {r1} |-> a1], Apns <- {ap}, Fcm <- {},
  Permits <- 1, Capacity <- 2, MaxCount <- 1, MaxHighlight <- 1, MaxObs <- 4

\* Observations of a room for one device, and permits for two sends.
Ordering == INSTANCE PushRouter WITH
  Rooms <- {r1}, Accounts <- {a1}, Account <- [r \in {r1} |-> a1], Apns <- {}, Fcm <- {fc},
  Permits <- 2, Capacity <- 2, MaxCount <- 1, MaxHighlight <- 1, MaxObs <- 4

-----------------------------------------------------------------------------
\* The sends of push notifications and the registrations of devices.

\* Two sends to a device that moves between two sessions.
Sending == INSTANCE PushDelivery WITH
  Apns <- {ap}, Fcm <- {}, Sessions <- {s1, s2}, Tasks <- {t1, t2}, MaxClock <- 2,
  MaxBearer <- 0, MaxErrors <- 1

\* One send, whose answer comes after the device has registered again.
Answering == INSTANCE PushDelivery WITH
  Apns <- {ap}, Fcm <- {}, Sessions <- {s1, s2}, Tasks <- {z1}, MaxClock <- 3,
  MaxBearer <- 0, MaxErrors <- 1

\* Two sends that share the FCM access token.
Bearing == INSTANCE PushDelivery WITH
  Apns <- {}, Fcm <- {fc}, Sessions <- {z1}, Tasks <- {t1, t2}, MaxClock <- 1,
  MaxBearer <- 3, MaxErrors <- 1

-----------------------------------------------------------------------------
\* Live updates of the room list over the web sockets.

\* Changes of two rooms, a batch of two and a socket that breaks or stalls.
Fanning == INSTANCE LiveFanout WITH
  Rooms <- {r1, r2}, Clients <- {c1}, MaxPending <- 2, Capacity <- 3, Busy <- FALSE,
  MaxChanges <- 2, MaxConnects <- 2, MaxFaults <- 1

-----------------------------------------------------------------------------
\* Drafts of the composer, and their copies at the clients.

\* A device types in two rooms, its PUTs overlap, and a sibling connects, reads and loses
\* its connection.
Drafting == INSTANCE DraftSync WITH
  Devices <- {d1, d2}, Rooms <- {r1, r2}, Home <- r1, Typists <- {d1}, Movers <- {d1},
  Started <- {d1}, LateSocket <- FALSE, MaxInFlight <- 2, MaxEdits <- 2, MaxMoves <- 2,
  MaxDrops <- 1, MaxFaults <- 0

\* Two devices type in two rooms, with a selection that moves and a failed request.
Typing == INSTANCE DraftSync WITH
  Devices <- {d1, d2}, Rooms <- {r1, r2}, Home <- r1, Typists <- {d1, d2}, Movers <- {d1},
  Started <- {d1, d2}, LateSocket <- FALSE, MaxInFlight <- 2, MaxEdits <- 3, MaxMoves <- 2,
  MaxDrops <- 0, MaxFaults <- 1

-----------------------------------------------------------------------------
\* The media cache: the second of the three objects is twice as large as the others, and
\* the third is of another account.

\* Three requests for one object, with cancellations and failures.
Flying == INSTANCE MediaCache WITH
  Accounts <- {A}, Keys <- {k1}, AccountOf <- [k \in {k1} |-> IF k = k3 THEN B ELSE A],
  Size <- [k \in {k1} |-> IF k = k2 THEN 2 ELSE 1], MaxBytes <- 1, Downloads <- 1,
  Callers <- {x1, x2, x3}, Faults <- {"cancel", "io"}, MaxCrashes <- 0, Deletable <- {A},
  FromBoot <- FALSE

\* Two accounts, one of which is deleted.
Indexing == INSTANCE MediaCache WITH
  Accounts <- {A, B}, Keys <- {k2, k3},
  AccountOf <- [k \in {k2, k3} |-> IF k = k3 THEN B ELSE A],
  Size <- [k \in {k2, k3} |-> IF k = k2 THEN 2 ELSE 1], MaxBytes <- 2, Downloads <- 1,
  Callers <- {t1, t2}, Faults <- {"cancel"}, MaxCrashes <- 0, Deletable <- {A},
  FromBoot <- FALSE

\* Three objects in a cache of three bytes, from a boot with files on the disk.
Capping == INSTANCE MediaCache WITH
  Accounts <- {A, B}, Keys <- {k1, k2, k3},
  AccountOf <- [k \in {k1, k2, k3} |-> IF k = k3 THEN B ELSE A],
  Size <- [k \in {k1, k2, k3} |-> IF k = k2 THEN 2 ELSE 1], MaxBytes <- 3, Downloads <- 2,
  Callers <- {t1, t2}, Faults <- {}, MaxCrashes <- 0, Deletable <- {}, FromBoot <- TRUE

\* A purge against requests, from a boot with files on the disk.
Purging == INSTANCE MediaCache WITH
  Accounts <- {A, B}, Keys <- {k1, k3},
  AccountOf <- [k \in {k1, k3} |-> IF k = k3 THEN B ELSE A],
  Size <- [k \in {k1, k3} |-> IF k = k2 THEN 2 ELSE 1], MaxBytes <- 1, Downloads <- 2,
  Callers <- {t1, t2}, Faults <- {}, MaxCrashes <- 0, Deletable <- {A}, FromBoot <- TRUE

\* A deletion and two crashes.
Orphaning == INSTANCE MediaCache WITH
  Accounts <- {A}, Keys <- {k1}, AccountOf <- [k \in {k1} |-> IF k = k3 THEN B ELSE A],
  Size <- [k \in {k1} |-> IF k = k2 THEN 2 ELSE 1], MaxBytes <- 1, Downloads <- 1,
  Callers <- {c1}, Faults <- {"cancel"}, MaxCrashes <- 2, Deletable <- {A},
  FromBoot <- FALSE

-----------------------------------------------------------------------------
\* Staged uploads. Their refinement of UploadOffers has a run of its own.

\* Two uploads, two sends, a crash and the deletion of the account.
Staging == INSTANCE StagedUploads WITH
  Uploads <- {s1, s2}, Previews <- {}, Senders <- {t1, t2}, MaxPreviews <- 1,
  MaxWriters <- 2, MaxFaults <- 0, MaxDrops <- 0, MaxCrashes <- 1, MaxSends <- 3,
  AccountLeaves <- TRUE

\* Three generated previews and a quota of one.
Quota == INSTANCE StagedUploads WITH
  Uploads <- {x1, x2, x3}, Previews <- {x1, x2, x3}, Senders <- {z1}, MaxPreviews <- 1,
  MaxWriters <- 3, MaxFaults <- 1, MaxDrops <- 1, MaxCrashes <- 0, MaxSends <- 1,
  AccountLeaves <- FALSE

\* A crash and no other fault.
Straying == INSTANCE StagedUploads WITH
  Uploads <- {s1, s2}, Previews <- {}, Senders <- {t1, t2}, MaxPreviews <- 1,
  MaxWriters <- 2, MaxFaults <- 0, MaxDrops <- 0, MaxCrashes <- 1, MaxSends <- 2,
  AccountLeaves <- FALSE

-----------------------------------------------------------------------------
\* The constants of every instance are what its module assumes.
ASSUME EveryInstance ==
  /\ Routing!PushAssumption
  /\ Badging!PushAssumption
  /\ Ordering!PushAssumption
  /\ Sending!DeliveryAssumption
  /\ Answering!DeliveryAssumption
  /\ Bearing!DeliveryAssumption
  /\ Fanning!LiveFanoutBounds
  /\ Drafting!DraftSyncBounds
  /\ Typing!DraftSyncBounds
  /\ Flying!MediaCacheAssumption
  /\ Indexing!MediaCacheAssumption
  /\ Capping!MediaCacheAssumption
  /\ Purging!MediaCacheAssumption
  /\ Orphaning!MediaCacheAssumption
  /\ Staging!StagedUploadsBounds
  /\ Quota!StagedUploadsBounds
  /\ Straying!StagedUploadsBounds

\* These are interchangeable in the runs that check no liveness property.
Symmetry == Permutations({t1, t2}) \cup Permutations({s1, s2})

\* What each component leaves alone.
pushRouterElse == <<scene, session, rows, died, snap, changed, errors, task, bearer, minted,
                    refused, lapses, refusals, hand, taken, pend, closed, fresh, wake,
                    flusher, flushing, late, cancelled, sock, backlog, lagged, out, reading,
                    dirty, stuck, token, changes, connects, faults, drafts, buffer,
                    selected, compose, pending, puts, inbox, link, seen, booted, fetch,
                    since, told, edits, moves, drops, dirs, disk, lru, total, flight, caller,
                    detached, purged, purge, scan, gc, orphans, crashes, row, expired, file,
                    stage, quota, send, unlinks, sent, doubted, account, boot, limit, active, held,
                    fast, breaker, until, reopenings, queue, prober, pc, timer, stored, tx,
                    seq, outbox, cursor, index, marker, actor, flush>>
pushDeliveryElse == <<scene, count, chan, lost, mem, inFlight, waiting, order, todo,
                      control, sends, posted, owed, shown, woken, hand, taken, pend, closed,
                      fresh, wake, flusher, flushing, late, cancelled, sock, backlog,
                      lagged, out, reading, dirty, stuck, token, changes, connects, faults,
                      drafts, buffer, selected, compose, pending, puts, inbox, link, seen,
                      booted, fetch, since, told, edits, moves, drops, dirs, disk, lru, total,
                      flight, caller, detached, purged, purge, scan, gc, orphans, crashes,
                      row, expired, file, stage, quota, send, unlinks, sent, doubted, account, boot,
                      limit, active, held, fast, breaker, until, reopenings, queue, prober,
                      pc, timer, stored, tx, seq, outbox, cursor, index, marker, actor,
                      flush>>
liveFanoutElse == <<scene, clock, count, gone, chan, lost, mem, inFlight, waiting, order,
                    todo, control, sends, posted, owed, shown, woken, session, rows, died,
                    snap, changed, errors, task, bearer, minted, refused, lapses, refusals,
                    drafts, buffer, selected, compose, pending, puts, inbox, link, seen,
                    booted, fetch, since, told, edits, moves, drops, dirs, disk, lru, total,
                    flight, caller, detached, purged, purge, scan, gc, orphans, crashes,
                    row, expired, file, stage, quota, send, unlinks, sent, doubted, account, boot,
                    limit, active, held, fast, breaker, until, reopenings, queue, prober,
                    pc, timer, stored, tx, seq, outbox, cursor, index, marker, actor, flush>>
draftSyncElse == <<scene, count, gone, chan, lost, mem, inFlight, waiting, order, todo,
                   control, sends, posted, owed, shown, woken, session, died, snap, changed,
                   errors, task, bearer, minted, refused, lapses, refusals, hand, taken,
                   pend, closed, fresh, wake, flusher, flushing, late, cancelled, sock,
                   backlog, lagged, out, reading, dirty, stuck, token, changes, connects,
                   dirs, disk, lru, total, flight, caller, detached, purged, purge, scan,
                   gc, orphans, crashes, row, expired, file, stage, quota, send, unlinks,
                   sent, doubted, account, boot, limit, active, held, fast, breaker, until,
                   reopenings, queue, prober, pc, timer, stored, tx, seq, outbox, cursor,
                   index, marker, actor, flush>>
mediaCacheElse == <<scene, clock, count, gone, chan, lost, mem, inFlight, waiting, order,
                    todo, control, sends, posted, owed, shown, woken, session, died, snap,
                    changed, errors, task, bearer, minted, refused, lapses, refusals, hand,
                    taken, pend, closed, fresh, wake, flusher, flushing, late, cancelled,
                    sock, backlog, lagged, out, reading, dirty, stuck, token, changes,
                    connects, faults, drafts, buffer, selected, compose, pending, puts,
                    inbox, link, seen, booted, fetch, since, told, edits, moves, drops, row,
                    expired, file, stage, quota, send, unlinks, sent, doubted, account, boot, limit,
                    active, held, fast, breaker, until, reopenings, queue, prober, pc,
                    timer, stored, tx, seq, outbox, cursor, index, marker, actor, flush>>
stagedUploadsElse == <<scene, clock, count, gone, chan, lost, mem, inFlight, waiting, order,
                       todo, control, posted, owed, shown, woken, session, rows, died, snap,
                       changed, errors, task, bearer, minted, refused, lapses, refusals,
                       hand, taken, pend, closed, fresh, wake, flusher, flushing, late,
                       cancelled, sock, backlog, lagged, out, reading, dirty, stuck, token,
                       changes, connects, drafts, buffer, selected, compose, pending, puts,
                       inbox, link, booted, fetch, since, told, edits, moves, dirs, disk, lru,
                       total, flight, caller, detached, purged, purge, scan, gc, orphans,
                       limit, active, held, fast, breaker, until, reopenings, queue, prober,
                       pc, timer, stored, tx, seq, outbox, cursor, index, marker, actor,
                       flush>>

PushRouterAlone ==
  /\ session = 0 /\ rows = 0 /\ died = 0 /\ snap = 0 /\ changed = 0 /\ errors = 0
  /\ task = 0 /\ bearer = 0 /\ minted = 0 /\ refused = 0 /\ lapses = 0 /\ refusals = 0
  /\ hand = 0 /\ taken = 0 /\ pend = 0 /\ closed = 0 /\ fresh = 0 /\ wake = 0 /\ flusher = 0
  /\ flushing = 0 /\ late = 0 /\ cancelled = 0 /\ sock = 0 /\ backlog = 0 /\ lagged = 0
  /\ out = 0 /\ reading = 0 /\ dirty = 0 /\ stuck = 0 /\ token = 0 /\ changes = 0
  /\ connects = 0 /\ faults = 0 /\ drafts = 0 /\ buffer = 0 /\ selected = 0 /\ compose = 0
  /\ pending = 0 /\ puts = 0 /\ inbox = 0 /\ link = 0 /\ seen = 0 /\ booted = 0 /\ fetch = 0
  /\ since = 0 /\ told = 0 /\ edits = 0 /\ moves = 0 /\ drops = 0 /\ dirs = 0 /\ disk = 0 /\ lru = 0
  /\ total = 0 /\ flight = 0 /\ caller = 0 /\ detached = 0 /\ purged = 0 /\ purge = 0
  /\ scan = 0 /\ gc = 0 /\ orphans = 0 /\ crashes = 0 /\ row = 0 /\ expired = 0 /\ file = 0
  /\ stage = 0 /\ quota = 0 /\ send = 0 /\ unlinks = 0 /\ sent = 0 /\ doubted = 0 /\ account = 0
  /\ boot = 0 /\ limit = 0 /\ active = 0 /\ held = 0 /\ fast = 0 /\ breaker = 0 /\ until = 0
  /\ reopenings = 0 /\ queue = 0 /\ prober = 0 /\ pc = 0 /\ timer = 0 /\ stored = 0
  /\ tx = 0 /\ seq = 0 /\ outbox = 0 /\ cursor = 0 /\ index = 0 /\ marker = 0 /\ actor = 0
  /\ flush = 0
PushDeliveryAlone ==
  /\ count = 0 /\ chan = 0 /\ lost = 0 /\ mem = 0 /\ inFlight = 0 /\ waiting = 0
  /\ order = 0 /\ todo = 0 /\ control = 0 /\ sends = 0 /\ posted = 0 /\ owed = 0
  /\ shown = 0 /\ woken = 0 /\ hand = 0 /\ taken = 0 /\ pend = 0 /\ closed = 0 /\ fresh = 0
  /\ wake = 0 /\ flusher = 0 /\ flushing = 0 /\ late = 0 /\ cancelled = 0 /\ sock = 0
  /\ backlog = 0 /\ lagged = 0 /\ out = 0 /\ reading = 0 /\ dirty = 0 /\ stuck = 0
  /\ token = 0 /\ changes = 0 /\ connects = 0 /\ faults = 0 /\ drafts = 0 /\ buffer = 0
  /\ selected = 0 /\ compose = 0 /\ pending = 0 /\ puts = 0 /\ inbox = 0 /\ link = 0
  /\ seen = 0 /\ booted = 0 /\ fetch = 0 /\ since = 0 /\ told = 0 /\ edits = 0 /\ moves = 0 /\ drops = 0
  /\ dirs = 0 /\ disk = 0 /\ lru = 0 /\ total = 0 /\ flight = 0 /\ caller = 0
  /\ detached = 0 /\ purged = 0 /\ purge = 0 /\ scan = 0 /\ gc = 0 /\ orphans = 0
  /\ crashes = 0 /\ row = 0 /\ expired = 0 /\ file = 0 /\ stage = 0 /\ quota = 0 /\ send = 0
  /\ unlinks = 0 /\ sent = 0 /\ doubted = 0 /\ account = 0 /\ boot = 0 /\ limit = 0 /\ active = 0
  /\ held = 0 /\ fast = 0 /\ breaker = 0 /\ until = 0 /\ reopenings = 0 /\ queue = 0
  /\ prober = 0 /\ pc = 0 /\ timer = 0 /\ stored = 0 /\ tx = 0 /\ seq = 0 /\ outbox = 0
  /\ cursor = 0 /\ index = 0 /\ marker = 0 /\ actor = 0 /\ flush = 0
LiveFanoutAlone ==
  /\ clock = 0 /\ count = 0 /\ gone = 0 /\ chan = 0 /\ lost = 0 /\ mem = 0 /\ inFlight = 0
  /\ waiting = 0 /\ order = 0 /\ todo = 0 /\ control = 0 /\ sends = 0 /\ posted = 0
  /\ owed = 0 /\ shown = 0 /\ woken = 0 /\ session = 0 /\ rows = 0 /\ died = 0 /\ snap = 0
  /\ changed = 0 /\ errors = 0 /\ task = 0 /\ bearer = 0 /\ minted = 0 /\ refused = 0
  /\ lapses = 0 /\ refusals = 0 /\ drafts = 0 /\ buffer = 0 /\ selected = 0 /\ compose = 0
  /\ pending = 0 /\ puts = 0 /\ inbox = 0 /\ link = 0 /\ seen = 0 /\ booted = 0 /\ fetch = 0
  /\ since = 0 /\ told = 0 /\ edits = 0 /\ moves = 0 /\ drops = 0 /\ dirs = 0 /\ disk = 0 /\ lru = 0
  /\ total = 0 /\ flight = 0 /\ caller = 0 /\ detached = 0 /\ purged = 0 /\ purge = 0
  /\ scan = 0 /\ gc = 0 /\ orphans = 0 /\ crashes = 0 /\ row = 0 /\ expired = 0 /\ file = 0
  /\ stage = 0 /\ quota = 0 /\ send = 0 /\ unlinks = 0 /\ sent = 0 /\ doubted = 0 /\ account = 0
  /\ boot = 0 /\ limit = 0 /\ active = 0 /\ held = 0 /\ fast = 0 /\ breaker = 0 /\ until = 0
  /\ reopenings = 0 /\ queue = 0 /\ prober = 0 /\ pc = 0 /\ timer = 0 /\ stored = 0
  /\ tx = 0 /\ seq = 0 /\ outbox = 0 /\ cursor = 0 /\ index = 0 /\ marker = 0 /\ actor = 0
  /\ flush = 0
DraftSyncAlone ==
  /\ count = 0 /\ gone = 0 /\ chan = 0 /\ lost = 0 /\ mem = 0 /\ inFlight = 0 /\ waiting = 0
  /\ order = 0 /\ todo = 0 /\ control = 0 /\ sends = 0 /\ posted = 0 /\ owed = 0
  /\ shown = 0 /\ woken = 0 /\ session = 0 /\ died = 0 /\ snap = 0 /\ changed = 0
  /\ errors = 0 /\ task = 0 /\ bearer = 0 /\ minted = 0 /\ refused = 0 /\ lapses = 0
  /\ refusals = 0 /\ hand = 0 /\ taken = 0 /\ pend = 0 /\ closed = 0 /\ fresh = 0
  /\ wake = 0 /\ flusher = 0 /\ flushing = 0 /\ late = 0 /\ cancelled = 0 /\ sock = 0
  /\ backlog = 0 /\ lagged = 0 /\ out = 0 /\ reading = 0 /\ dirty = 0 /\ stuck = 0
  /\ token = 0 /\ changes = 0 /\ connects = 0 /\ dirs = 0 /\ disk = 0 /\ lru = 0
  /\ total = 0 /\ flight = 0 /\ caller = 0 /\ detached = 0 /\ purged = 0 /\ purge = 0
  /\ scan = 0 /\ gc = 0 /\ orphans = 0 /\ crashes = 0 /\ row = 0 /\ expired = 0 /\ file = 0
  /\ stage = 0 /\ quota = 0 /\ send = 0 /\ unlinks = 0 /\ sent = 0 /\ doubted = 0 /\ account = 0
  /\ boot = 0 /\ limit = 0 /\ active = 0 /\ held = 0 /\ fast = 0 /\ breaker = 0 /\ until = 0
  /\ reopenings = 0 /\ queue = 0 /\ prober = 0 /\ pc = 0 /\ timer = 0 /\ stored = 0
  /\ tx = 0 /\ seq = 0 /\ outbox = 0 /\ cursor = 0 /\ index = 0 /\ marker = 0 /\ actor = 0
  /\ flush = 0
MediaCacheAlone ==
  /\ clock = 0 /\ count = 0 /\ gone = 0 /\ chan = 0 /\ lost = 0 /\ mem = 0 /\ inFlight = 0
  /\ waiting = 0 /\ order = 0 /\ todo = 0 /\ control = 0 /\ sends = 0 /\ posted = 0
  /\ owed = 0 /\ shown = 0 /\ woken = 0 /\ session = 0 /\ died = 0 /\ snap = 0
  /\ changed = 0 /\ errors = 0 /\ task = 0 /\ bearer = 0 /\ minted = 0 /\ refused = 0
  /\ lapses = 0 /\ refusals = 0 /\ hand = 0 /\ taken = 0 /\ pend = 0 /\ closed = 0
  /\ fresh = 0 /\ wake = 0 /\ flusher = 0 /\ flushing = 0 /\ late = 0 /\ cancelled = 0
  /\ sock = 0 /\ backlog = 0 /\ lagged = 0 /\ out = 0 /\ reading = 0 /\ dirty = 0
  /\ stuck = 0 /\ token = 0 /\ changes = 0 /\ connects = 0 /\ faults = 0 /\ drafts = 0
  /\ buffer = 0 /\ selected = 0 /\ compose = 0 /\ pending = 0 /\ puts = 0 /\ inbox = 0
  /\ link = 0 /\ seen = 0 /\ booted = 0 /\ fetch = 0 /\ since = 0 /\ told = 0 /\ edits = 0 /\ moves = 0
  /\ drops = 0 /\ row = 0 /\ expired = 0 /\ file = 0 /\ stage = 0 /\ quota = 0 /\ send = 0
  /\ unlinks = 0 /\ sent = 0 /\ doubted = 0 /\ account = 0 /\ boot = 0 /\ limit = 0 /\ active = 0
  /\ held = 0 /\ fast = 0 /\ breaker = 0 /\ until = 0 /\ reopenings = 0 /\ queue = 0
  /\ prober = 0 /\ pc = 0 /\ timer = 0 /\ stored = 0 /\ tx = 0 /\ seq = 0 /\ outbox = 0
  /\ cursor = 0 /\ index = 0 /\ marker = 0 /\ actor = 0 /\ flush = 0
StagedUploadsAlone ==
  /\ clock = 0 /\ count = 0 /\ gone = 0 /\ chan = 0 /\ lost = 0 /\ mem = 0 /\ inFlight = 0
  /\ waiting = 0 /\ order = 0 /\ todo = 0 /\ control = 0 /\ posted = 0 /\ owed = 0
  /\ shown = 0 /\ woken = 0 /\ session = 0 /\ rows = 0 /\ died = 0 /\ snap = 0
  /\ changed = 0 /\ errors = 0 /\ task = 0 /\ bearer = 0 /\ minted = 0 /\ refused = 0
  /\ lapses = 0 /\ refusals = 0 /\ hand = 0 /\ taken = 0 /\ pend = 0 /\ closed = 0
  /\ fresh = 0 /\ wake = 0 /\ flusher = 0 /\ flushing = 0 /\ late = 0 /\ cancelled = 0
  /\ sock = 0 /\ backlog = 0 /\ lagged = 0 /\ out = 0 /\ reading = 0 /\ dirty = 0
  /\ stuck = 0 /\ token = 0 /\ changes = 0 /\ connects = 0 /\ drafts = 0 /\ buffer = 0
  /\ selected = 0 /\ compose = 0 /\ pending = 0 /\ puts = 0 /\ inbox = 0 /\ link = 0
  /\ booted = 0 /\ fetch = 0 /\ since = 0 /\ told = 0 /\ edits = 0 /\ moves = 0 /\ dirs = 0 /\ disk = 0
  /\ lru = 0 /\ total = 0 /\ flight = 0 /\ caller = 0 /\ detached = 0 /\ purged = 0
  /\ purge = 0 /\ scan = 0 /\ gc = 0 /\ orphans = 0 /\ limit = 0 /\ active = 0 /\ held = 0
  /\ fast = 0 /\ breaker = 0 /\ until = 0 /\ reopenings = 0 /\ queue = 0 /\ prober = 0
  /\ pc = 0 /\ timer = 0 /\ stored = 0 /\ tx = 0 /\ seq = 0 /\ outbox = 0 /\ cursor = 0
  /\ index = 0 /\ marker = 0 /\ actor = 0 /\ flush = 0

vars == <<scene, clock, count, gone, chan, lost, mem, inFlight, waiting, order, todo, control,
          sends, posted, owed, shown, woken, session, rows, died, snap, changed, errors,
          task, bearer, minted, refused, lapses, refusals, hand, taken, pend, closed, fresh,
          wake, flusher, flushing, late, cancelled, sock, backlog, lagged, out, reading,
          dirty, stuck, token, changes, connects, faults, drafts, buffer, selected, compose,
          pending, puts, inbox, link, seen, booted, fetch, since, told, edits, moves, drops, dirs,
          disk, lru, total, flight, caller, detached, purged, purge, scan, gc, orphans,
          crashes, row, expired, file, stage, quota, send, unlinks, sent, doubted, account, boot,
          limit, active, held, fast, breaker, until, reopenings, queue, prober, pc, timer,
          stored, tx, seq, outbox, cursor, index, marker, actor, flush>>

Init ==
  /\ scene \in Scenes
  /\ \/ scene = "routing" /\ Routing!Init /\ PushRouterAlone
     \/ scene = "badging" /\ Badging!Init /\ PushRouterAlone
     \/ scene = "ordering" /\ Ordering!Init /\ PushRouterAlone
     \/ scene = "sending" /\ Sending!Init /\ PushDeliveryAlone
     \/ scene = "answering" /\ Answering!Init /\ PushDeliveryAlone
     \/ scene = "bearing" /\ Bearing!Init /\ PushDeliveryAlone
     \/ scene = "fanning" /\ Fanning!Init /\ LiveFanoutAlone
     \/ scene = "drafting" /\ Drafting!Init /\ DraftSyncAlone
     \/ scene = "typing" /\ Typing!Init /\ DraftSyncAlone
     \/ scene = "flight" /\ Flying!Init /\ MediaCacheAlone
     \/ scene = "index" /\ Indexing!Init /\ MediaCacheAlone
     \/ scene = "cap" /\ Capping!Init /\ MediaCacheAlone
     \/ scene = "purge" /\ Purging!Init /\ MediaCacheAlone
     \/ scene = "orphans" /\ Orphaning!Init /\ MediaCacheAlone
     \/ scene = "staging" /\ Staging!Init /\ StagedUploadsAlone
     \/ scene = "quota" /\ Quota!Init /\ StagedUploadsAlone
     \/ scene = "strays" /\ Straying!Init /\ StagedUploadsAlone

Next ==
  \/ scene = "routing" /\ Routing!Next /\ UNCHANGED pushRouterElse
  \/ scene = "badging" /\ Badging!Next /\ UNCHANGED pushRouterElse
  \/ scene = "ordering" /\ Ordering!Next /\ UNCHANGED pushRouterElse
  \/ scene = "sending" /\ Sending!Next /\ UNCHANGED pushDeliveryElse
  \/ scene = "answering" /\ Answering!Next /\ UNCHANGED pushDeliveryElse
  \/ scene = "bearing" /\ Bearing!Next /\ UNCHANGED pushDeliveryElse
  \/ scene = "fanning" /\ Fanning!Next /\ UNCHANGED liveFanoutElse
  \/ scene = "drafting" /\ Drafting!Next /\ UNCHANGED draftSyncElse
  \/ scene = "typing" /\ Typing!Next /\ UNCHANGED draftSyncElse
  \/ scene = "flight" /\ Flying!Next /\ UNCHANGED mediaCacheElse
  \/ scene = "index" /\ Indexing!Next /\ UNCHANGED mediaCacheElse
  \/ scene = "cap" /\ Capping!Next /\ UNCHANGED mediaCacheElse
  \/ scene = "purge" /\ Purging!Next /\ UNCHANGED mediaCacheElse
  \/ scene = "orphans" /\ Orphaning!Next /\ UNCHANGED mediaCacheElse
  \/ scene = "staging" /\ Staging!Next /\ UNCHANGED stagedUploadsElse
  \/ scene = "quota" /\ Quota!Next /\ UNCHANGED stagedUploadsElse
  \/ scene = "strays" /\ Straying!Next /\ UNCHANGED stagedUploadsElse

Spec == Init /\ [][Next]_vars

-----------------------------------------------------------------------------
(* Properties, each of the scenes it is checked in. *)

\* The variables of every component keep their types.
TypesOK ==
  /\ scene = "routing" => Routing!TypeOK
  /\ scene = "sending" => Sending!TypeOK
  /\ scene = "fanning" => Fanning!TypeOK
  /\ scene = "drafting" => Drafting!TypeOK
  /\ scene = "flight" => Flying!TypeOK
  /\ scene = "staging" => Staging!TypeOK

\* Permits and keys: the sends in the air never exceed the permits and no two share a key,
\* although keys are freed by reports that arrive after the sends have ended and accounts
\* are dropped in between.
OneSendPerKey == scene = "routing" => Routing!OneSendPerKey

\* No job is stranded: while the router rests, a job waits behind a send of its own key or
\* in the queue, each key is queued once and only with a job, and nobody is queued while a
\* permit is free.
NoneStranded == scene = "routing" => Routing!NoneStranded

\* The badge follows falls: a total no older than the last fall a badge-only push was
\* queued for has been read, or a push that will read one waits or has yet to read.
BadgeFollows == scene = "badging" => Badging!BadgeFollows

\* One wake per message: a message an alert was decided for is not remembered for another
\* one.
SentOnce == scene = "routing" => Routing!SentOnce

\* While nothing was dropped at the channel, the router's counts catch up with the
\* published ones once it has read everything, except where it was told to forget.
CountsFollow == scene = "routing" => Routing!CountsFollow

\* A device hears of a room in the order the router decided: no job reaches the provider
\* after a newer one of its key, so that a read is not followed by the alert it cleared.
InOrder ==
  [][scene = "ordering" => Ordering!InOrderStep]_vars

\* A revoked session owns no registration again, whatever registration raced its
\* revocation: the gate of the write and the delete of the revocation are serialised.
RevokedOwnsNothing == scene = "sending" => Sending!RevokedOwnsNothing

\* A send that started after the session of its device was over, and whose liveness read
\* answered, never reaches the provider: however stale the snapshot it was started from,
\* the row it re-reads decides.
EndedIsNotSent == scene = "sending" => Sending!EndedIsNotSent

\* A provider's answer never removes a registration newer than what it is about: a late
\* answer to a send to an earlier registration of the token finds another id, and an old
\* 410 finds a later updated_at.
AnswersAreCurrent ==
  [][scene = "answering" => Answering!AnswersAreCurrentStep]_vars

\* A bearer is minted only to replace one that lapsed: sends that find the cache empty
\* together share one mint.
MintsAreEarned == scene = "bearing" => Bearing!MintsAreEarned

\* The bearer of an answered 401 is not in the cache for the next send to take, however the
\* answer interleaves with the mints of other sends.
RefusedIsDropped == scene = "bearing" => Bearing!RefusedIsDropped

\* A connected client's screen is out of date only while a signal is on its way to it: a
\* change is between its write and its mark, pending, being published, in the backlog, on
\* the wire, or the client is about to read.
StaleIsSignalled == scene = "fanning" => Fanning!StaleIsSignalled

\* A pending change has a flusher that is awake or about to be: no wakeup is lost between
\* marks, flushes at a full map and the flusher's own look, although a producer notifies
\* after it has released the lock.
PendingIsWatched == scene = "fanning" => Fanning!PendingIsWatched

\* A device that only reads knows every draft once nothing is under way, except of the room
\* it composes in and of a room whose last two frames went out in the reverse of their
\* writes: frames that race a read, reads that race each other and lost connections leave
\* nothing behind.
SiblingsConverge == scene = "drafting" => Drafting!SiblingsConverge

\* A text that waits for its PUT is what the user sees for as long as the buffer mirrors its
\* room: no frame, view or selection that moves puts another text over it.
TypedStays == scene = "typing" => Typing!TypedStays

\* Two requests never download or store the same object at once, whoever is cancelled in
\* the queue behind them.
SingleFlight == scene = "flight" => Flying!SingleFlight

\* The flight map keeps no entry that nobody uses: a slot has a request under it, or one
\* that is about to look whether it was the last.
SlotsAreUsed == scene = "flight" => Flying!SlotsAreUsed

\* Between requests an entry of the index has its file.
CountedIsOnDisk == scene = "index" => Indexing!CountedIsOnDisk

\* A purged account has no entry in the running index.
PurgedIsNotCounted == scene = "index" => Indexing!PurgedIsNotCounted

\* total_bytes is what the entries add up to, so that it never goes below zero.
TotalIsExact == scene = "cap" => Capping!TotalIsExact

\* Between requests, and once the boot's rebuild has ended, the files fit in the cap.
CapHolds == scene = "cap" => Capping!CapHolds

\* Once an account's purge has run, no request that was in flight, eviction or rebuild
\* brings its directory back.
PurgedStaysGone == scene = "purge" => Purging!PurgedStaysGone

\* An account without a row at a boot has no directory once that boot's collection has
\* passed over it, whatever the process before left behind.
OrphansAreSwept == scene = "orphans" => Orphaning!OrphansAreSwept

\* While the process serves, a row in `sending` belongs to a request in flight that will
\* release or consume it.
SendingIsOwned == scene = "staging" => Staging!SendingIsOwned

\* The generated previews of an account stay within the quota, however many requests count
\* at the same time.
QuotaHolds == scene = "quota" => Quota!QuotaHolds

\* A serving process has no file that nobody will give a row or remove, after a crash at
\* any point of staging, sending and sweeping.
NoStrays == scene = "strays" => Straying!NoStrays

\* The router starts no two sends of a key and none too many, strands no job, wakes once
\* per message, and its counts and badges catch up.
SendsAreScheduled ==
  /\ OneSendPerKey /\ NoneStranded /\ BadgeFollows /\ SentOnce /\ CountsFollow

\* Registrations, sends and bearers follow the sessions and answers they depend on, however
\* stale the snapshot they started from.
RegistrationsAreCurrent ==
  /\ RevokedOwnsNothing /\ EndedIsNotSent /\ MintsAreEarned /\ RefusedIsDropped

\* No change is lost between the coalescer, its flusher, the channel and the sockets.
ScreensAreSignalled ==
  /\ StaleIsSignalled /\ PendingIsWatched

\* Drafts reach the other devices, and no text is taken from under its typist.
DraftsAreKept ==
  /\ SiblingsConverge /\ TypedStays

\* What is on the disk is accounted for. The media cache downloads an object once at a
\* time, its index is what the disk holds, its size keeps to the cap, and purged accounts
\* stay gone; a claimed upload has a request, previews keep to their quota, and no staged
\* file is left behind.
FilesAreAccounted ==
  /\ SingleFlight /\ SlotsAreUsed /\ CountedIsOnDisk /\ PurgedIsNotCounted /\ TotalIsExact
  /\ CapHolds /\ PurgedStaysGone /\ OrphansAreSwept /\ SendingIsOwned /\ QuotaHolds
  /\ NoStrays

\* Late sends and late answers change nothing: a device hears of a room in order, and an
\* answer removes only the registration it is about.
DeliveredInOrder ==
  /\ InOrder /\ AnswersAreCurrent
=============================================================================
