-------------------------- MODULE MCDeliveryLive --------------------------
(***************************************************************************)
(* The scenes of MCDelivery that are checked for what happens in the end:  *)
(* pushes, live updates, media requests and uploads, and the gate and the  *)
(* search actor, under the fairness that the modules of the components     *)
(* argue for.                                                              *)
(***************************************************************************)
EXTENDS MCDelivery

\* The first of these.
Starting == INSTANCE PushRouter WITH
  Rooms <- {r1}, Accounts <- {a1}, Account <- [r \in {r1} |-> a1], Apns <- {ap},
  Fcm <- {fc}, Permits <- 1, Capacity <- 2, MaxCount <- 1, MaxHighlight <- 1, MaxObs <- 2

\* A send, two sessions and a store that may fail.
Reaping == INSTANCE PushDelivery WITH
  Apns <- {ap}, Fcm <- {}, Sessions <- {s1, s2}, Tasks <- {t1}, MaxClock <- 2,
  MaxBearer <- 0, MaxErrors <- 1

\* Two rooms that change for ever.
Busily == INSTANCE LiveFanout WITH
  Rooms <- {r1, r2}, Clients <- {c1}, MaxPending <- 3, Capacity <- 3, Busy <- TRUE,
  MaxChanges <- 3, MaxConnects <- 0, MaxFaults <- 0

\* A room that changes for ever, and a client whose session is revoked.
Revoked == INSTANCE LiveFanout WITH
  Rooms <- {r1}, Clients <- {c1}, MaxPending <- 2, Capacity <- 2, Busy <- TRUE,
  MaxChanges <- 3, MaxConnects <- 1, MaxFaults <- 1

\* Two requests for one object of an account that is deleted, and a crash.
Serving == INSTANCE MediaCache WITH
  Accounts <- {A}, Keys <- {k1}, AccountOf <- [k \in {k1} |-> IF k = k3 THEN B ELSE A],
  Size <- [k \in {k1} |-> IF k = k2 THEN 2 ELSE 1], MaxBytes <- 1, Downloads <- 1,
  Callers <- {c1, z1}, Faults <- {}, MaxCrashes <- 1, Deletable <- {A}, FromBoot <- FALSE

\* Two uploads, a send and a crash.
Pruning == INSTANCE StagedUploads WITH
  Uploads <- {s1, s2}, Previews <- {}, Senders <- {z1}, MaxPreviews <- 1, MaxWriters <- 2,
  MaxFaults <- 0, MaxDrops <- 0, MaxCrashes <- 1, MaxSends <- 2, AccountLeaves <- FALSE

\* Two background tasks, a long poll and a call of a user.
Gate == INSTANCE HomeserverGate WITH
  Background <- {b1, b2}, Polls <- {p1}, Interactive <- {i1}, InitialLimit <- 2,
  MaxLimit <- 2, GrowAfter <- 1, TimeoutHold <- 1, Cooldown <- 1, CooldownMax <- 2,
  ReopenCap <- 1

\* Two events of one account, with failing reads and cursor writes.
Search == INSTANCE SearchIndex WITH
  Docs <- {1, 2}, Accounts <- {a1}, Owner <- [d \in {1, 2} |-> a1], Texts <- 1, MaxSeq <- 2,
  BatchSize <- 1, Faults <- {"read", "cursor"}

\* The constants of these instances, too, are what their modules assume.
ASSUME EveryLiveInstance ==
  /\ Starting!PushAssumption
  /\ Reaping!DeliveryAssumption
  /\ Busily!LiveFanoutBounds
  /\ Revoked!LiveFanoutBounds
  /\ Serving!MediaCacheAssumption
  /\ Pruning!StagedUploadsBounds
  /\ Gate!TasksAssumption
  /\ Gate!ConstantsAssumption
  /\ Gate!ReopenCapAssumption
  /\ Search!SearchAssumption

\* The variables of each component.
pushRouterVars == <<clock, count, gone, chan, lost, mem, inFlight, waiting, order, todo,
                    control, sends, posted, owed, shown, woken>>
pushDeliveryVars == <<clock, session, rows, died, gone, snap, changed, errors, task, bearer,
                      minted, refused, lapses, refusals>>
liveFanoutVars == <<hand, taken, pend, closed, fresh, wake, flusher, flushing, late,
                    cancelled, sock, backlog, lagged, out, reading, dirty, stuck, token,
                    changes, connects, faults>>
mediaCacheVars == <<dirs, disk, lru, total, flight, caller, detached, purged, purge, rows,
                    scan, gc, orphans, crashes>>
stagedUploadsVars == <<row, expired, file, stage, quota, seen, send, unlinks, sent, doubted, account,
                       boot, faults, drops, crashes, sends>>
homeserverGateVars == <<limit, active, held, fast, breaker, until, reopenings, queue, fresh,
                        prober, pc, timer>>
searchIndexVars == <<stored, account, tx, seq, outbox, cursor, index, pending, marker,
                     actor, flush, late>>

homeserverGateElse == <<scene, clock, count, gone, chan, lost, mem, inFlight, waiting,
                        order, todo, control, sends, posted, owed, shown, woken, session,
                        rows, died, snap, changed, errors, task, bearer, minted, refused,
                        lapses, refusals, hand, taken, pend, closed, wake, flusher,
                        flushing, late, cancelled, sock, backlog, lagged, out, reading,
                        dirty, stuck, token, changes, connects, faults, drafts, buffer,
                        selected, compose, pending, puts, inbox, link, seen, booted, fetch,
                        since, told, edits, moves, drops, dirs, disk, lru, total, flight, caller,
                        detached, purged, purge, scan, gc, orphans, crashes, row, expired,
                        file, stage, quota, send, unlinks, sent, doubted, account, boot, stored, tx,
                        seq, outbox, cursor, index, marker, actor, flush>>
searchIndexElse == <<scene, clock, count, gone, chan, lost, mem, inFlight, waiting, order,
                     todo, control, sends, posted, owed, shown, woken, session, rows, died,
                     snap, changed, errors, task, bearer, minted, refused, lapses, refusals,
                     hand, taken, pend, closed, fresh, wake, flusher, flushing, cancelled,
                     sock, backlog, lagged, out, reading, dirty, stuck, token, changes,
                     connects, faults, drafts, buffer, selected, compose, puts, inbox, link,
                     seen, booted, fetch, since, told, edits, moves, drops, dirs, disk, lru,
                     total, flight, caller, detached, purged, purge, scan, gc, orphans,
                     crashes, row, expired, file, stage, quota, send, unlinks, sent, doubted, boot,
                     limit, active, held, fast, breaker, until, reopenings, queue, prober,
                     pc, timer>>

HomeserverGateAlone ==
  /\ clock = 0 /\ count = 0 /\ gone = 0 /\ chan = 0 /\ lost = 0 /\ mem = 0 /\ inFlight = 0
  /\ waiting = 0 /\ order = 0 /\ todo = 0 /\ control = 0 /\ sends = 0 /\ posted = 0
  /\ owed = 0 /\ shown = 0 /\ woken = 0 /\ session = 0 /\ rows = 0 /\ died = 0 /\ snap = 0
  /\ changed = 0 /\ errors = 0 /\ task = 0 /\ bearer = 0 /\ minted = 0 /\ refused = 0
  /\ lapses = 0 /\ refusals = 0 /\ hand = 0 /\ taken = 0 /\ pend = 0 /\ closed = 0
  /\ wake = 0 /\ flusher = 0 /\ flushing = 0 /\ late = 0 /\ cancelled = 0 /\ sock = 0
  /\ backlog = 0 /\ lagged = 0 /\ out = 0 /\ reading = 0 /\ dirty = 0 /\ stuck = 0
  /\ token = 0 /\ changes = 0 /\ connects = 0 /\ faults = 0 /\ drafts = 0 /\ buffer = 0
  /\ selected = 0 /\ compose = 0 /\ pending = 0 /\ puts = 0 /\ inbox = 0 /\ link = 0
  /\ seen = 0 /\ booted = 0 /\ fetch = 0 /\ since = 0 /\ told = 0 /\ edits = 0 /\ moves = 0 /\ drops = 0
  /\ dirs = 0 /\ disk = 0 /\ lru = 0 /\ total = 0 /\ flight = 0 /\ caller = 0
  /\ detached = 0 /\ purged = 0 /\ purge = 0 /\ scan = 0 /\ gc = 0 /\ orphans = 0
  /\ crashes = 0 /\ row = 0 /\ expired = 0 /\ file = 0 /\ stage = 0 /\ quota = 0 /\ send = 0
  /\ unlinks = 0 /\ sent = 0 /\ doubted = 0 /\ account = 0 /\ boot = 0 /\ stored = 0 /\ tx = 0 /\ seq = 0
  /\ outbox = 0 /\ cursor = 0 /\ index = 0 /\ marker = 0 /\ actor = 0 /\ flush = 0
SearchIndexAlone ==
  /\ clock = 0 /\ count = 0 /\ gone = 0 /\ chan = 0 /\ lost = 0 /\ mem = 0 /\ inFlight = 0
  /\ waiting = 0 /\ order = 0 /\ todo = 0 /\ control = 0 /\ sends = 0 /\ posted = 0
  /\ owed = 0 /\ shown = 0 /\ woken = 0 /\ session = 0 /\ rows = 0 /\ died = 0 /\ snap = 0
  /\ changed = 0 /\ errors = 0 /\ task = 0 /\ bearer = 0 /\ minted = 0 /\ refused = 0
  /\ lapses = 0 /\ refusals = 0 /\ hand = 0 /\ taken = 0 /\ pend = 0 /\ closed = 0
  /\ fresh = 0 /\ wake = 0 /\ flusher = 0 /\ flushing = 0 /\ cancelled = 0 /\ sock = 0
  /\ backlog = 0 /\ lagged = 0 /\ out = 0 /\ reading = 0 /\ dirty = 0 /\ stuck = 0
  /\ token = 0 /\ changes = 0 /\ connects = 0 /\ faults = 0 /\ drafts = 0 /\ buffer = 0
  /\ selected = 0 /\ compose = 0 /\ puts = 0 /\ inbox = 0 /\ link = 0 /\ seen = 0
  /\ booted = 0 /\ fetch = 0 /\ since = 0 /\ told = 0 /\ edits = 0 /\ moves = 0 /\ drops = 0 /\ dirs = 0
  /\ disk = 0 /\ lru = 0 /\ total = 0 /\ flight = 0 /\ caller = 0 /\ detached = 0
  /\ purged = 0 /\ purge = 0 /\ scan = 0 /\ gc = 0 /\ orphans = 0 /\ crashes = 0 /\ row = 0
  /\ expired = 0 /\ file = 0 /\ stage = 0 /\ quota = 0 /\ send = 0 /\ unlinks = 0
  /\ sent = 0 /\ doubted = 0 /\ boot = 0 /\ limit = 0 /\ active = 0 /\ held = 0 /\ fast = 0 /\ breaker = 0
  /\ until = 0 /\ reopenings = 0 /\ queue = 0 /\ prober = 0 /\ pc = 0 /\ timer = 0

LiveInit ==
  /\ scene \in Scenes
  /\ \/ scene = "starting" /\ Starting!Init /\ PushRouterAlone
     \/ scene = "reaping" /\ Reaping!Init /\ PushDeliveryAlone
     \/ scene = "busy" /\ Busily!Init /\ LiveFanoutAlone
     \/ scene = "revoked" /\ Revoked!Init /\ LiveFanoutAlone
     \/ scene = "serving" /\ Serving!Init /\ MediaCacheAlone
     \/ scene = "pruning" /\ Pruning!Init /\ StagedUploadsAlone
     \/ scene = "gate" /\ Gate!Init /\ HomeserverGateAlone
     \/ scene = "search" /\ Search!Init /\ SearchIndexAlone

LiveNext ==
  \/ scene = "starting" /\ Starting!Next /\ UNCHANGED pushRouterElse
  \/ scene = "reaping" /\ Reaping!Next /\ UNCHANGED pushDeliveryElse
  \/ scene = "busy" /\ Busily!Next /\ UNCHANGED liveFanoutElse
  \/ scene = "revoked" /\ Revoked!Next /\ UNCHANGED liveFanoutElse
  \/ scene = "serving" /\ Serving!Next /\ UNCHANGED mediaCacheElse
  \/ scene = "pruning" /\ Pruning!Next /\ UNCHANGED stagedUploadsElse
  \/ scene = "gate" /\ Gate!Next /\ UNCHANGED homeserverGateElse
  \/ scene = "search" /\ Search!Next /\ UNCHANGED searchIndexElse

\* What waits for a lock or a turn that others keep taking: a behaviour is of one scene,
\* so that one condition of strong fairness stands for one of each scene.
Waits1 ==
  \/ scene = "busy" /\ Busily!Recv(c1) /\ UNCHANGED liveFanoutElse
  \/ scene = "revoked" /\ Revoked!Recv(c1) /\ UNCHANGED liveFanoutElse
  \/ scene = "serving" /\ Serving!Serve(c1) /\ UNCHANGED mediaCacheElse
  \/ scene = "search" /\ Search!TakeFlush(a1) /\ UNCHANGED searchIndexElse
Waits2 ==
  \/ scene = "busy" /\ Busily!Revalidate(c1) /\ UNCHANGED liveFanoutElse
  \/ scene = "revoked" /\ Revoked!Revalidate(c1) /\ UNCHANGED liveFanoutElse
  \/ scene = "serving" /\ Serving!Serve(z1) /\ UNCHANGED mediaCacheElse
Waits3 ==
  \/ scene = "serving" /\ Serving!Purge(A) /\ UNCHANGED mediaCacheElse

\* The fairness that the module of each component states and argues for.
Fairness ==
  /\ SF_vars(Waits1)
  /\ SF_vars(Waits2)
  /\ SF_vars(Waits3)
  /\ WF_pushRouterVars(scene = "starting" /\ Starting!Route)
  /\ WF_pushRouterVars(scene = "starting" /\ (\E s \in sends : Starting!Check(s) \/ Starting!Finish(s)))
  /\ WF_pushDeliveryVars(scene = "reaping" /\ Reaping!Reap)
  /\ WF_pushDeliveryVars(scene = "reaping" /\ Reaping!ReloadTick)
  /\ \A t \in {t1} : WF_pushDeliveryVars(scene = "reaping" /\ Reaping!Send(t))
  /\ WF_liveFanoutVars(scene = "busy" /\ Busily!FlusherStep)
  /\ WF_liveFanoutVars(scene = "busy" /\ Busily!MaxDelayPasses)
  /\ \A r \in {r1, r2} : WF_liveFanoutVars(scene = "busy" /\ Busily!Mark(r))
  /\ \A r \in {r1, r2} : WF_liveFanoutVars(scene = "busy" /\ Busily!MarkWakes(r))
  /\ \A r \in {r1, r2} : WF_liveFanoutVars(scene = "busy" /\ Busily!MarkPublishes(r))
  /\ \A c \in {c1} : WF_liveFanoutVars(scene = "busy" /\ Busily!Subscribe(c))
  /\ \A c \in {c1} : WF_liveFanoutVars(scene = "busy" /\ Busily!Delivered(c))
  /\ \A c \in {c1} : WF_liveFanoutVars(scene = "busy" /\ Busily!WriteTimesOut(c))
  /\ \A c \in {c1} : WF_liveFanoutVars(scene = "busy" /\ Busily!Read(c))
  /\ WF_liveFanoutVars(scene = "revoked" /\ Revoked!FlusherStep)
  /\ WF_liveFanoutVars(scene = "revoked" /\ Revoked!MaxDelayPasses)
  /\ \A r \in {r1} : WF_liveFanoutVars(scene = "revoked" /\ Revoked!Mark(r))
  /\ \A r \in {r1} : WF_liveFanoutVars(scene = "revoked" /\ Revoked!MarkWakes(r))
  /\ \A r \in {r1} : WF_liveFanoutVars(scene = "revoked" /\ Revoked!MarkPublishes(r))
  /\ \A c \in {c1} : WF_liveFanoutVars(scene = "revoked" /\ Revoked!Subscribe(c))
  /\ \A c \in {c1} : WF_liveFanoutVars(scene = "revoked" /\ Revoked!Delivered(c))
  /\ \A c \in {c1} : WF_liveFanoutVars(scene = "revoked" /\ Revoked!WriteTimesOut(c))
  /\ \A c \in {c1} : WF_liveFanoutVars(scene = "revoked" /\ Revoked!Read(c))
  /\ \A d \in {A} : WF_mediaCacheVars(scene = "serving" /\ Serving!CollectOrphan(d))
  /\ \A d \in {A} : WF_mediaCacheVars(scene = "serving" /\ Serving!Resume(d))
  /\ WF_mediaCacheVars(scene = "serving" /\ Serving!Rebuild)
  /\ \A s \in {z1} : WF_stagedUploadsVars(scene = "pruning" /\ Pruning!SendStep(s))
  /\ \A u \in {s1, s2} : WF_stagedUploadsVars(scene = "pruning" /\ Pruning!Unlink(u))
  /\ WF_stagedUploadsVars(scene = "pruning" /\ Pruning!Sweep)
  /\ WF_stagedUploadsVars(scene = "pruning" /\ Pruning!BootNext)
  /\ WF_homeserverGateVars(scene = "gate" /\ Gate!Tick)
  /\ \A b \in {b1, b2} : WF_homeserverGateVars(scene = "gate" /\ (Gate!Admit(b) \/ Gate!Defer(b)))
  /\ \A b \in {b1, b2} : WF_homeserverGateVars(scene = "gate" /\ (Gate!Release(b) \/ \E ans \in Gate!Outcome : Gate!Finish(b, ans)))
  /\ \A p \in {p1} : WF_homeserverGateVars(scene = "gate" /\ Gate!PollStart(p))
  /\ \A p \in {p1} : WF_homeserverGateVars(scene = "gate" /\ (Gate!PollAdmit(p) \/ Gate!PollDefer(p)))
  /\ \A p \in {p1} : WF_homeserverGateVars(scene = "gate" /\ (Gate!PollRelease(p) \/ \E ans \in Gate!Outcome : Gate!PollFinish(p, ans)))
  /\ WF_searchIndexVars(scene = "search" /\ (Search!Seed \/ Search!Drain))

FairSpec == LiveInit /\ [][LiveNext]_vars /\ Fairness

-----------------------------------------------------------------------------
(* Properties, each of the scenes it is checked in. *)

\* Once observations stop, a waiting job starts or is dropped: a finished send lets the
\* next one go.
WaitingStarts ==
  \A k \in Starting!Keys : []<>(scene = "starting" => k \notin DOMAIN waiting)

\* The registration of a session that is over goes, even if nothing is ever sent to it.
EndedRowsGo ==
  \A d \in Reaping!Devices : []<>(scene = "reaping" => d \notin Reaping!OfSessions({s1, s2} \ Reaping!live))

\* Once the table stops changing the snapshot agrees with it: revocations and the sends'
\* own deletes notify nobody, and a failed reload has spent its permit.
SnapshotFollows ==
  <>[](scene = "reaping" => snap = Reaping!Listed)

\* A pending change is published even while the account never falls quiet.
PendingIsPublished ==
  \A r \in {r1, r2} : []<>(scene = "busy" => r \notin pend)

\* A revoked token ends its socket, also when its peer has stopped reading and the
\* revocation falls into the handshake.
RevokedIsClosed ==
  \A c \in {c1} : []<>(scene = "revoked" => (token[c] \/ ~Revoked!Served(c)))

\* A request that was made ends: it waits for a slot, a permit and a lock that their
\* holders release.
Answered ==
  \A c \in {c1, z1} : []<>(scene = "serving" => caller[c].pc = "idle")

\* A deletion that was begun removes the directory and the row, through crashes.
DeletionEnds ==
  \A d \in {A} : []<>(scene = "serving" => Serving!DeletionEnded(d))

\* What a crash strands is removed by the boot that follows.
StraysArePruned ==
  \A u \in {s1, s2} : []<>(scene = "pruning" => ~Pruning!Stray(u))

\* An expired upload goes away, one that is being sent after its send fails.
ExpiredGoes ==
  \A u \in {s1, s2} : []<>(scene = "pruning" => ~Pruning!Expired(u))

\* A background request in the queue is eventually sent or cancelled, even if every request
\* fails: it becomes the probe in its turn.
QueuedIsServed ==
  \A b \in {b1, b2} : []<>(scene = "gate" => pc[b] # "waiting")

\* Once every request gets an answer, the breaker closes and stays closed: some waiter
\* always becomes the probe.
Recovers ==
  <>[][scene = "gate" => ~Gate!Setback]_vars => <>[](scene = "gate" => breaker = "Closed")

\* Once failures and writes stop, the index converges on the store, without any hint having
\* to arrive.
Settles ==
  <>[][scene = "search" => Search!Calm]_vars => (\A d \in {1, 2} : <>[](scene = "search" => (Search!Right(d) \/ late[d] # "no" \/ actor.phase \in {"off", "stopped"})))

\* The deletion of an account is never left waiting for its flush: not by a drain that
\* fails, a seed, or the actor's end.
FlushReturns ==
  \A d \in {a1} : []<>(scene = "search" => flush[d] # "asked")

\* Everything that waits is served: sends, reloads, frames, closing sockets, media
\* requests, deletions, stray and expired uploads, queued calls, flushes; the breaker
\* recovers and the index settles.
DeliveryCatchesUp ==
  /\ WaitingStarts /\ EndedRowsGo /\ SnapshotFollows /\ PendingIsPublished
  /\ RevokedIsClosed /\ Answered /\ DeletionEnds /\ StraysArePruned /\ ExpiredGoes
  /\ QueuedIsServed /\ Recovers /\ Settles /\ FlushReturns
=============================================================================
