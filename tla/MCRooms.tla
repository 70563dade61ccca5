------------------------------ MODULE MCRooms -------------------------------
(***************************************************************************)
(* What the sync of an account keeps of its rooms: RoomDetails,            *)
(* MemberCounts, StateProjection, UnreadCounts, Invites and Redecrypt.     *)
(* They share no state here. A behaviour is of one scene, an instance of   *)
(* one of the components: a variable that two of them have is declared     *)
(* once, and the variables a component does not have are 0 in its scenes.  *)
(* The scenes here are those of the safety properties; MCRoomsLive adds    *)
(* those of the liveness properties.                                       *)
(***************************************************************************)
EXTENDS Naturals, Sequences, TLC

CONSTANTS
  Scenes,  \* the scenes of a run
  r1, r2, s1, c1, e1, e2, a, b, absence, t1, t2, k1, k2

VARIABLES
  scene,  \* the scene this behaviour is of
  joined, epoch, tuples, rows, queue, running, sending, cooldown, wake, registered, pc, job,
  reader, shown, stale, told, asked, moves, states, faults, stops, sdk, clock, leaves,
  queued, row, fenced, hints, lagged, pending, sweep, work, dropped, restarts, owed, sent,
  redacted, synced, noted, polled, resets, inbox, log, summary, ingest, hint, dirty, room,
  loaded, served, changes, upd, send, sends, suspects, goneRows, last, gone, watch, cap,
  left, pinned, ok, late, hs, news, mem, disk, dead, call, cache, calls, rejected, crossed,
  marked,
  keys, stream, listening, worker, deliveries, retries, crashes, swept

-----------------------------------------------------------------------------
\* Room details fetched for the panels.

\* The absence job of a state type, with a leave and a rejoin.
Absent == INSTANCE RoomDetails WITH
  Rooms <- {r1}, Details <- {}, Absence <- absence, Types <- <<t1>>, QueueCapacity <- 1,
  CooldownCapacity <- 4, MaxMoves <- 2, MaxStates <- 1, MaxFaults <- 1, MaxStops <- 0

\* Two panels and a queue for one job.
Paneled == INSTANCE RoomDetails WITH
  Rooms <- {r1}, Details <- {a, b}, Absence <- absence, Types <- <<>>, QueueCapacity <- 1,
  CooldownCapacity <- 4, MaxMoves <- 0, MaxStates <- 0, MaxFaults <- 0, MaxStops <- 0

\* The absence job with a leave, a tuple of its type and a fault.
Asking == INSTANCE RoomDetails WITH
  Rooms <- {r1}, Details <- {}, Absence <- absence, Types <- <<t1>>, QueueCapacity <- 1,
  CooldownCapacity <- 4, MaxMoves <- 1, MaxStates <- 1, MaxFaults <- 1, MaxStops <- 0

-----------------------------------------------------------------------------
\* Member counts and names of the room list.

\* A room that is left and joined while a read is under way.
Leaving == INSTANCE MemberCounts WITH
  NumRooms <- 1, Listed <- {}, MaxChanges <- 3, MaxLeaves <- 1, MaxFaults <- 1,
  MaxRestarts <- 1, ChannelCap <- 2, HintRooms <- 1, PendingCap <- 2, Drain <- 1,
  PageSize <- 1, MaxAttempts <- 2, LateDeadline <- FALSE

\* Two rooms and a place for one of them in the queue.
Sweeping == INSTANCE MemberCounts WITH
  NumRooms <- 2, Listed <- {1, 2}, MaxChanges <- 2, MaxLeaves <- 0, MaxFaults <- 1,
  MaxRestarts <- 0, ChannelCap <- 1, HintRooms <- 1, PendingCap <- 1, Drain <- 1,
  PageSize <- 1, MaxAttempts <- 2, LateDeadline <- FALSE

\* A room whose counts and name change across a restart.
Telling == INSTANCE MemberCounts WITH
  NumRooms <- 1, Listed <- {}, MaxChanges <- 2, MaxLeaves <- 0, MaxFaults <- 1,
  MaxRestarts <- 1, ChannelCap <- 2, HintRooms <- 1, PendingCap <- 1, Drain <- 1,
  PageSize <- 1, MaxAttempts <- 2, LateDeadline <- FALSE

-----------------------------------------------------------------------------
\* Projected room state.

\* Three events of a type that both polls bring, with lost updates.
Merging == INSTANCE StateProjection WITH
  Types <- {"levels"}, SdkTypes <- {"levels"}, SuppTypes <- {"levels"}, DisplayTypes <- {},
  NumEvents <- 3, TypeOf <- [e \in 1..3 |-> "levels"], Ts <- [e \in 1..3 |-> e],
  Forbidden <- {}, MaxRedactions <- 1, MaxResets <- 0, Lossy <- TRUE, Faults <- FALSE

\* Three events of a type the SDK does not keep, one of them not to be redacted.
Pruning == INSTANCE StateProjection WITH
  Types <- {"acl"}, SdkTypes <- {}, SuppTypes <- {"acl"}, DisplayTypes <- {},
  NumEvents <- 3, TypeOf <- [e \in 1..3 |-> "acl"], Ts <- [e \in 1..3 |-> e],
  Forbidden <- {2}, MaxRedactions <- 1, MaxResets <- 0, Lossy <- FALSE, Faults <- FALSE

\* Two events, two redactions and failing writes.
Hinting == INSTANCE StateProjection WITH
  Types <- {"levels"}, SdkTypes <- {"levels"}, SuppTypes <- {"levels"}, DisplayTypes <- {},
  NumEvents <- 2, TypeOf <- [e \in 1..2 |-> "levels"], Ts <- [e \in 1..2 |-> e],
  Forbidden <- {}, MaxRedactions <- 2, MaxResets <- 0, Lossy <- FALSE, Faults <- TRUE

\* Two events of a type the room list shows.
Showing == INSTANCE StateProjection WITH
  Types <- {"create"}, SdkTypes <- {"create"}, SuppTypes <- {"create"},
  DisplayTypes <- {"create"}, NumEvents <- 2, TypeOf <- [e \in 1..2 |-> "create"],
  Ts <- [e \in 1..2 |-> e], Forbidden <- {}, MaxRedactions <- 1, MaxResets <- 0,
  Lossy <- FALSE, Faults <- FALSE

-----------------------------------------------------------------------------
\* Unread counts.

\* A room whose receipts come unmatched and whose chunk is evicted and loaded.
Unmatched == INSTANCE UnreadCounts WITH
  Rooms <- {r1}, Senders <- {s1}, MaxCount <- 2, MaxChanges <- 5, MaxSends <- 0,
  MaxFaults <- 2, MaxRestarts <- 1, Kinds <- {"message", "read", "unmatched", "reload",
  "tombstone", "leave", "rejoin"}, ProbesPerSweep <- 1, Concurrency <- 1, Stubborn <- {},
  SeedFails <- FALSE, Flaky <- FALSE, LostAcks <- FALSE

\* A room that is left and joined again beside another, and a half-loaded list.
Rejoining == INSTANCE UnreadCounts WITH
  Rooms <- {r1, r2}, Senders <- {s1}, MaxCount <- 1, MaxChanges <- 4, MaxSends <- 0,
  MaxFaults <- 1, MaxRestarts <- 1, Kinds <- {"message", "leave", "rejoin"},
  ProbesPerSweep <- 1, Concurrency <- 2, Stubborn <- {}, SeedFails <- FALSE, Flaky <- FALSE,
  LostAcks <- FALSE

\* A room the homeserver drops and takes back, with receipts and probes.
Purged == INSTANCE UnreadCounts WITH
  Rooms <- {r1}, Senders <- {s1}, MaxCount <- 1, MaxChanges <- 5, MaxSends <- 4,
  MaxFaults <- 2, MaxRestarts <- 1, Kinds <- {"message", "purge", "restore"},
  ProbesPerSweep <- 1, Concurrency <- 1, Stubborn <- {}, SeedFails <- FALSE, Flaky <- FALSE,
  LostAcks <- FALSE

-----------------------------------------------------------------------------
\* Invites.

\* Two rooms with an invite each.
Inviting == INSTANCE Invites WITH
  Rooms <- {r1, r2}, Calls <- {c1}, Vers <- {1}, MaxInvites <- 1, MaxChanges <- 2,
  MaxCalls <- 1, MaxFaults <- 1, MaxRestarts <- 0, Concurrency <- 1, Returns <- FALSE

-----------------------------------------------------------------------------
\* Re-decryption of stored events; k1 and k2 are sessions.

\* Two events of one session that the backup has.
FromBackup == INSTANCE Redecrypt WITH
  Events <- {e1, e2}, SessionOf <- [e \in {e1, e2} |-> k1],
  RoomOf <- [e \in {e1, e2} |-> r1], Backup <- {k1}, AlwaysAll <- FALSE, Faults <- {},
  MaxDeliveries <- 1, MaxRetries <- 0, MaxCrashes <- 0

\* One event that is delivered twice, with every fault and a restart.
Twice == INSTANCE Redecrypt WITH
  Events <- {e1}, SessionOf <- [e \in {e1} |-> k1], RoomOf <- [e \in {e1} |-> r1],
  Backup <- {k1}, AlwaysAll <- FALSE, Faults <- {"early", "lag", "db", "download", "room"},
  MaxDeliveries <- 2, MaxRetries <- 1, MaxCrashes <- 1

\* Two rooms and two restarts, with sweeps of every row.
Restarting == INSTANCE Redecrypt WITH
  Events <- {e1, e2}, SessionOf <- [e \in {e1, e2} |-> k1],
  RoomOf <- [e \in {e1, e2} |-> IF e = e1 THEN r1 ELSE r2], Backup <- {}, AlwaysAll <- TRUE,
  Faults <- {}, MaxDeliveries <- 1, MaxRetries <- 0, MaxCrashes <- 2

-----------------------------------------------------------------------------
\* The constants of every instance are what its module assumes.
ASSUME EveryInstance ==
  /\ Absent!RoomDetailsBounds
  /\ Paneled!RoomDetailsBounds
  /\ Asking!RoomDetailsBounds
  /\ Leaving!MemberCountsAssumption
  /\ Sweeping!MemberCountsAssumption
  /\ Telling!MemberCountsAssumption
  /\ Merging!StateProjectionAssumption
  /\ Pruning!StateProjectionAssumption
  /\ Hinting!StateProjectionAssumption
  /\ Showing!StateProjectionAssumption
  /\ Unmatched!UnreadCountsAssumption
  /\ Rejoining!UnreadCountsAssumption
  /\ Purged!UnreadCountsAssumption
  /\ Inviting!InvitesAssumption
  /\ FromBackup!RedecryptAssumption
  /\ Twice!RedecryptAssumption
  /\ Restarting!RedecryptAssumption

\* What each component leaves alone.
roomDetailsElse == <<scene, sdk, clock, leaves, queued, row, fenced, hints, lagged, pending,
                     sweep, work, dropped, restarts, owed, sent, redacted, synced, noted,
                     polled, resets, inbox, log, summary, ingest, hint, dirty, room, loaded,
                     served, changes, upd, send, sends, suspects, goneRows, last, gone,
                     watch, cap, left, pinned, ok, late, hs, news, mem, disk, dead, call,
                     cache, calls, rejected, crossed, marked, keys, stream, listening, worker,
                     deliveries, retries, crashes, swept>>
memberCountsElse == <<scene, joined, epoch, tuples, rows, queue, running, sending, cooldown,
                      wake, registered, pc, job, reader, shown, stale, told, asked, moves,
                      states, stops, sent, redacted, synced, noted, polled, resets, inbox,
                      log, summary, ingest, hint, dirty, room, loaded, served, changes, upd,
                      send, sends, suspects, goneRows, last, gone, watch, cap, left, pinned,
                      ok, late, hs, news, mem, disk, dead, call, cache, calls, rejected,
                      crossed,
                      marked, keys, stream, listening, worker, deliveries, retries, crashes,
                      swept>>
stateProjectionElse == <<scene, joined, epoch, tuples, rows, queue, running, sending,
                         cooldown, wake, registered, pc, reader, shown, stale, told, asked,
                         moves, states, faults, stops, clock, leaves, queued, fenced, hints,
                         lagged, pending, sweep, dropped, restarts, owed, room, loaded,
                         served, changes, upd, send, sends, suspects, goneRows, last, gone,
                         watch, cap, left, pinned, ok, late, hs, news, mem, disk, dead,
                         call, cache, calls, rejected, crossed, marked, keys, stream,
                         listening,
                         worker, deliveries, retries, crashes, swept>>
unreadCountsElse == <<scene, joined, epoch, tuples, rows, queue, running, sending, cooldown,
                      wake, registered, pc, job, reader, shown, stale, asked, moves, states,
                      stops, sdk, clock, leaves, queued, fenced, hints, lagged, pending,
                      sweep, work, dropped, owed, sent, redacted, synced, noted, polled,
                      resets, inbox, log, summary, ingest, hint, dirty, hs, news, mem, disk,
                      dead, call, cache, calls, rejected, crossed, marked, keys, stream,
                      listening,
                      worker, deliveries, retries, crashes, swept>>
invitesElse == <<scene, joined, epoch, tuples, rows, queue, running, sending, cooldown,
                 wake, registered, pc, job, reader, shown, stale, asked, moves, states,
                 stops, sdk, clock, leaves, queued, fenced, hints, lagged, pending, sweep,
                 work, dropped, owed, sent, redacted, synced, noted, polled, resets, inbox,
                 log, summary, ingest, hint, dirty, room, loaded, served, send, sends,
                 suspects, goneRows, last, gone, left, pinned, ok, late, marked, keys,
                 stream, listening, worker, deliveries, retries, crashes, swept>>
redecryptElse == <<scene, joined, epoch, tuples, rows, queue, running, sending, cooldown,
                   wake, registered, pc, job, reader, shown, stale, told, asked, moves,
                   states, faults, stops, sdk, clock, leaves, queued, fenced, hints, lagged,
                   pending, sweep, work, dropped, restarts, owed, sent, redacted, synced,
                   noted, polled, resets, inbox, log, summary, ingest, hint, dirty, room,
                   loaded, served, changes, upd, send, sends, suspects, goneRows, last,
                   gone, watch, cap, left, pinned, ok, late, hs, news, mem, disk, dead,
                   call, cache, calls, rejected, crossed>>

RoomDetailsAlone ==
  /\ sdk = 0 /\ clock = 0 /\ leaves = 0 /\ queued = 0 /\ row = 0 /\ fenced = 0 /\ hints = 0
  /\ lagged = 0 /\ pending = 0 /\ sweep = 0 /\ work = 0 /\ dropped = 0 /\ restarts = 0
  /\ owed = 0 /\ sent = 0 /\ redacted = 0 /\ synced = 0 /\ noted = 0 /\ polled = 0
  /\ resets = 0 /\ inbox = 0 /\ log = 0 /\ summary = 0 /\ ingest = 0 /\ hint = 0
  /\ dirty = 0 /\ room = 0 /\ loaded = 0 /\ served = 0 /\ changes = 0 /\ upd = 0 /\ send = 0
  /\ sends = 0 /\ suspects = 0 /\ goneRows = 0 /\ last = 0 /\ gone = 0 /\ watch = 0
  /\ cap = 0 /\ left = 0 /\ pinned = 0 /\ ok = 0 /\ late = 0 /\ hs = 0 /\ news = 0
  /\ mem = 0 /\ disk = 0 /\ dead = 0 /\ call = 0 /\ cache = 0 /\ calls = 0
  /\ rejected = 0 /\ crossed = 0
  /\ marked = 0 /\ keys = 0 /\ stream = 0 /\ listening = 0 /\ worker = 0 /\ deliveries = 0
  /\ retries = 0 /\ crashes = 0 /\ swept = 0
MemberCountsAlone ==
  /\ joined = 0 /\ epoch = 0 /\ tuples = 0 /\ rows = 0 /\ queue = 0 /\ running = 0
  /\ sending = 0 /\ cooldown = 0 /\ wake = 0 /\ registered = 0 /\ pc = 0 /\ job = 0
  /\ reader = 0 /\ shown = 0 /\ stale = 0 /\ told = 0 /\ asked = 0 /\ moves = 0
  /\ states = 0 /\ stops = 0 /\ sent = 0 /\ redacted = 0 /\ synced = 0 /\ noted = 0
  /\ polled = 0 /\ resets = 0 /\ inbox = 0 /\ log = 0 /\ summary = 0 /\ ingest = 0
  /\ hint = 0 /\ dirty = 0 /\ room = 0 /\ loaded = 0 /\ served = 0 /\ changes = 0 /\ upd = 0
  /\ send = 0 /\ sends = 0 /\ suspects = 0 /\ goneRows = 0 /\ last = 0 /\ gone = 0
  /\ watch = 0 /\ cap = 0 /\ left = 0 /\ pinned = 0 /\ ok = 0 /\ late = 0 /\ hs = 0
  /\ news = 0 /\ mem = 0 /\ disk = 0 /\ dead = 0 /\ call = 0 /\ cache = 0 /\ calls = 0
  /\ rejected = 0 /\ crossed = 0 /\ marked = 0 /\ keys = 0 /\ stream = 0
  /\ listening = 0 /\ worker = 0
  /\ deliveries = 0 /\ retries = 0 /\ crashes = 0 /\ swept = 0
StateProjectionAlone ==
  /\ joined = 0 /\ epoch = 0 /\ tuples = 0 /\ rows = 0 /\ queue = 0 /\ running = 0
  /\ sending = 0 /\ cooldown = 0 /\ wake = 0 /\ registered = 0 /\ pc = 0 /\ reader = 0
  /\ shown = 0 /\ stale = 0 /\ told = 0 /\ asked = 0 /\ moves = 0 /\ states = 0
  /\ faults = 0 /\ stops = 0 /\ clock = 0 /\ leaves = 0 /\ queued = 0 /\ fenced = 0
  /\ hints = 0 /\ lagged = 0 /\ pending = 0 /\ sweep = 0 /\ dropped = 0 /\ restarts = 0
  /\ owed = 0 /\ room = 0 /\ loaded = 0 /\ served = 0 /\ changes = 0 /\ upd = 0 /\ send = 0
  /\ sends = 0 /\ suspects = 0 /\ goneRows = 0 /\ last = 0 /\ gone = 0 /\ watch = 0
  /\ cap = 0 /\ left = 0 /\ pinned = 0 /\ ok = 0 /\ late = 0 /\ hs = 0 /\ news = 0
  /\ mem = 0 /\ disk = 0 /\ dead = 0 /\ call = 0 /\ cache = 0 /\ calls = 0
  /\ rejected = 0 /\ crossed = 0
  /\ marked = 0 /\ keys = 0 /\ stream = 0 /\ listening = 0 /\ worker = 0 /\ deliveries = 0
  /\ retries = 0 /\ crashes = 0 /\ swept = 0
UnreadCountsAlone ==
  /\ joined = 0 /\ epoch = 0 /\ tuples = 0 /\ rows = 0 /\ queue = 0 /\ running = 0
  /\ sending = 0 /\ cooldown = 0 /\ wake = 0 /\ registered = 0 /\ pc = 0 /\ job = 0
  /\ reader = 0 /\ shown = 0 /\ stale = 0 /\ asked = 0 /\ moves = 0 /\ states = 0
  /\ stops = 0 /\ sdk = 0 /\ clock = 0 /\ leaves = 0 /\ queued = 0 /\ fenced = 0
  /\ hints = 0 /\ lagged = 0 /\ pending = 0 /\ sweep = 0 /\ work = 0 /\ dropped = 0
  /\ owed = 0 /\ sent = 0 /\ redacted = 0 /\ synced = 0 /\ noted = 0 /\ polled = 0
  /\ resets = 0 /\ inbox = 0 /\ log = 0 /\ summary = 0 /\ ingest = 0 /\ hint = 0
  /\ dirty = 0 /\ hs = 0 /\ news = 0 /\ mem = 0 /\ disk = 0 /\ dead = 0 /\ call = 0
  /\ cache = 0 /\ calls = 0 /\ rejected = 0 /\ crossed = 0 /\ marked = 0 /\ keys = 0
  /\ stream = 0
  /\ listening = 0 /\ worker = 0 /\ deliveries = 0 /\ retries = 0 /\ crashes = 0
  /\ swept = 0
InvitesAlone ==
  /\ joined = 0 /\ epoch = 0 /\ tuples = 0 /\ rows = 0 /\ queue = 0 /\ running = 0
  /\ sending = 0 /\ cooldown = 0 /\ wake = 0 /\ registered = 0 /\ pc = 0 /\ job = 0
  /\ reader = 0 /\ shown = 0 /\ stale = 0 /\ asked = 0 /\ moves = 0 /\ states = 0
  /\ stops = 0 /\ sdk = 0 /\ clock = 0 /\ leaves = 0 /\ queued = 0 /\ fenced = 0
  /\ hints = 0 /\ lagged = 0 /\ pending = 0 /\ sweep = 0 /\ work = 0 /\ dropped = 0
  /\ owed = 0 /\ sent = 0 /\ redacted = 0 /\ synced = 0 /\ noted = 0 /\ polled = 0
  /\ resets = 0 /\ inbox = 0 /\ log = 0 /\ summary = 0 /\ ingest = 0 /\ hint = 0
  /\ dirty = 0 /\ room = 0 /\ loaded = 0 /\ served = 0 /\ send = 0 /\ sends = 0
  /\ suspects = 0 /\ goneRows = 0 /\ last = 0 /\ gone = 0 /\ left = 0 /\ pinned = 0
  /\ ok = 0 /\ late = 0 /\ marked = 0 /\ keys = 0 /\ stream = 0 /\ listening = 0
  /\ worker = 0 /\ deliveries = 0 /\ retries = 0 /\ crashes = 0 /\ swept = 0
RedecryptAlone ==
  /\ joined = 0 /\ epoch = 0 /\ tuples = 0 /\ rows = 0 /\ queue = 0 /\ running = 0
  /\ sending = 0 /\ cooldown = 0 /\ wake = 0 /\ registered = 0 /\ pc = 0 /\ job = 0
  /\ reader = 0 /\ shown = 0 /\ stale = 0 /\ told = 0 /\ asked = 0 /\ moves = 0
  /\ states = 0 /\ faults = 0 /\ stops = 0 /\ sdk = 0 /\ clock = 0 /\ leaves = 0
  /\ queued = 0 /\ fenced = 0 /\ hints = 0 /\ lagged = 0 /\ pending = 0 /\ sweep = 0
  /\ work = 0 /\ dropped = 0 /\ restarts = 0 /\ owed = 0 /\ sent = 0 /\ redacted = 0
  /\ synced = 0 /\ noted = 0 /\ polled = 0 /\ resets = 0 /\ inbox = 0 /\ log = 0
  /\ summary = 0 /\ ingest = 0 /\ hint = 0 /\ dirty = 0 /\ room = 0 /\ loaded = 0
  /\ served = 0 /\ changes = 0 /\ upd = 0 /\ send = 0 /\ sends = 0 /\ suspects = 0
  /\ goneRows = 0 /\ last = 0 /\ gone = 0 /\ watch = 0 /\ cap = 0 /\ left = 0 /\ pinned = 0
  /\ ok = 0 /\ late = 0 /\ hs = 0 /\ news = 0 /\ mem = 0 /\ disk = 0 /\ dead = 0 /\ call = 0
  /\ cache = 0 /\ calls = 0 /\ rejected = 0 /\ crossed = 0

vars == <<scene, joined, epoch, tuples, rows, queue, running, sending, cooldown, wake,
          registered,
          pc, job, reader, shown, stale, told, asked, moves, states, faults, stops, sdk,
          clock, leaves, queued, row, fenced, hints, lagged, pending, sweep, work, dropped,
          restarts, owed, sent, redacted, synced, noted, polled, resets, inbox, log,
          summary, ingest, hint, dirty, room, loaded, served, changes, upd, send, sends,
          suspects, goneRows, last, gone, watch, cap, left, pinned, ok, late, hs, news, mem,
          disk, dead, call, cache, calls, rejected, crossed, marked, keys, stream,
          listening, worker,
          deliveries, retries, crashes, swept>>

\* The panels are interchangeable in the run that checks no liveness property.
Symmetry == Permutations({a, b})

Init ==
  /\ scene \in Scenes
  /\ \/ scene = "absence" /\ Absent!Init /\ RoomDetailsAlone
     \/ scene = "panels" /\ Paneled!Init /\ RoomDetailsAlone
     \/ scene = "asking" /\ Asking!Init /\ RoomDetailsAlone
     \/ scene = "leaving" /\ Leaving!Init /\ MemberCountsAlone
     \/ scene = "sweeping" /\ Sweeping!Init /\ MemberCountsAlone
     \/ scene = "telling" /\ Telling!Init /\ MemberCountsAlone
     \/ scene = "merging" /\ Merging!Init /\ StateProjectionAlone
     \/ scene = "pruning" /\ Pruning!Init /\ StateProjectionAlone
     \/ scene = "hinting" /\ Hinting!Init /\ StateProjectionAlone
     \/ scene = "showing" /\ Showing!Init /\ StateProjectionAlone
     \/ scene = "unmatched" /\ Unmatched!Init /\ UnreadCountsAlone
     \/ scene = "rejoining" /\ Rejoining!Init /\ UnreadCountsAlone
     \/ scene = "purged" /\ Purged!Init /\ UnreadCountsAlone
     \/ scene = "inviting" /\ Inviting!Init /\ InvitesAlone
     \/ scene = "backup" /\ FromBackup!Init /\ RedecryptAlone
     \/ scene = "twice" /\ Twice!Init /\ RedecryptAlone
     \/ scene = "restarting" /\ Restarting!Init /\ RedecryptAlone

Next ==
  \/ scene = "absence" /\ Absent!Next /\ UNCHANGED roomDetailsElse
  \/ scene = "panels" /\ Paneled!Next /\ UNCHANGED roomDetailsElse
  \/ scene = "asking" /\ Asking!Next /\ UNCHANGED roomDetailsElse
  \/ scene = "leaving" /\ Leaving!Next /\ UNCHANGED memberCountsElse
  \/ scene = "sweeping" /\ Sweeping!Next /\ UNCHANGED memberCountsElse
  \/ scene = "telling" /\ Telling!Next /\ UNCHANGED memberCountsElse
  \/ scene = "merging" /\ Merging!Next /\ UNCHANGED stateProjectionElse
  \/ scene = "pruning" /\ Pruning!Next /\ UNCHANGED stateProjectionElse
  \/ scene = "hinting" /\ Hinting!Next /\ UNCHANGED stateProjectionElse
  \/ scene = "showing" /\ Showing!Next /\ UNCHANGED stateProjectionElse
  \/ scene = "unmatched" /\ Unmatched!Next /\ UNCHANGED unreadCountsElse
  \/ scene = "rejoining" /\ Rejoining!Next /\ UNCHANGED unreadCountsElse
  \/ scene = "purged" /\ Purged!Next /\ UNCHANGED unreadCountsElse
  \/ scene = "inviting" /\ Inviting!Next /\ UNCHANGED invitesElse
  \/ scene = "backup" /\ FromBackup!Next /\ UNCHANGED redecryptElse
  \/ scene = "twice" /\ Twice!Next /\ UNCHANGED redecryptElse
  \/ scene = "restarting" /\ Restarting!Next /\ UNCHANGED redecryptElse

Spec == Init /\ [][Next]_vars

-----------------------------------------------------------------------------
(* Properties, each of the scenes it is checked in. *)

\* The variables of every component keep their types.
TypesOK ==
  /\ scene = "panels" => Paneled!TypeOK
  /\ scene = "leaving" => Leaving!TypeOK
  /\ scene = "merging" => Merging!TypeOK
  /\ scene = "purged" => Purged!TypeOK
  /\ scene = "inviting" => Inviting!TypeOK
  /\ scene = "backup" => FromBackup!TypeOK

\* What the cache holds was asked for in the present membership: no answer outlives a
\* leave, also when a rejoin follows while its request is out.
RowsOfThisMembership == scene = "absence" => Absent!RowsOfThisMembership

\* A type is never confirmed absent beside a tuple of it, whichever of the confirmation and
\* the tuple commits first.
AbsenceYields == scene = "absence" => Absent!AbsenceYields

\* A panel that shows a refresh as queued or running, or a value that was replaced, is
\* going to be told: its job is still there and knows that it was seen, or is about to
\* announce its change, or a frame is out, or a read is.
PanelIsAnswered ==
  /\ scene = "absence" => Absent!PanelIsAnswered
  /\ scene = "panels" => Paneled!PanelIsAnswered

\* Reads do not add up to requests: a key is asked for again only after its value expired,
\* its backoff or its job's cooldown passed, or the membership changed, whatever failed,
\* was dropped or was asked for twice in between.
NoAmplification ==
  [][scene = "asking" => Asking!NoAmplificationStep]_vars

\* Counts that were read before a leave never stand after it, not even when the room was
\* joined again in the meantime: the trigger's watermark fences what was observed before
\* it.
NoOldMembership == scene = "leaving" => Leaving!NoOldMembership

\* However hints are lost, queues are full and halves fail: a row that is behind the SDK
\* has its visit hinted, queued or before the sweep's cursor, or it was left to the next
\* pass after its attempts.
NothingForgotten == scene = "sweeping" => Sweeping!NothingForgotten

\* Every change of the counts or the name is announced by the one who made it. Every change
\* of a tuple is announced after it, whoever made it: once the writers rest, no reader is
\* left with what it read before.
ChangeIsAnnounced ==
  /\ scene = "telling" => Telling!ChangeIsAnnounced
  /\ scene = "showing" => Showing!ChangeIsAnnounced

\* Content that was redacted does not come back: while a tuple holds the event, no replay
\* of its original form, from either connection, undoes the redaction.
RedactedStays ==
  [][scene = "merging" => Merging!RedactedStaysStep]_vars

\* A late response of either connection never takes a tuple back to an older event of the
\* room.
RowMovesForward ==
  [][scene = "merging" => Merging!RowMovesForwardStep]_vars

\* Only what the homeserver redacted is pruned: not the event that replaced the target
\* while the repair was under way, and not the target of a redaction its sender had no
\* right to.
PrunedIsRedacted == scene = "pruning" => Pruning!PrunedIsRedacted

\* Whatever the order of a state event, its redaction and the write of its tuple, a tuple
\* that shows redacted content has a hint queued, so that it does not wait for the sweep.
RepairIsHinted == scene = "hinting" => Hinting!RepairIsHinted

\* An increase is never written beside a receipt that is ahead of all the SDK holds, although
\* the room, its chunk and the watcher's cache change between the snapshot, the evidence and
\* the write.
HeldIsNotWritten == scene = "unmatched" => Unmatched!HeldIsNotWritten

\* The row of a room that was never left is not pruned.
JoinedRowsKept == scene = "rejoining" => Rejoining!JoinedRowsKept

\* A room that is confirmed absent upstream and whose badge a sweep has cleared keeps it
\* cleared for as long as the verdict stands.
PinnedStaysZero == scene = "purged" => Purged!PinnedStaysZero

\* A verdict that a room is gone never stands over a receipt that the homeserver has
\* accepted since it last dropped the room: a success beats a probe that was already in
\* flight.
GoneIsBacked == scene = "purged" => Purged!GoneIsBacked

\* A suspicion of a room the homeserver does not serve ends in the verdict that the room is
\* gone and in nothing else, however often the probe is not answered, unless the room comes
\* back or an answer from before the purge is applied after it.
PurgedIsFound ==
  [][scene = "purged" => Purged!PurgedIsFoundStep]_vars

\* The row of an invite the homeserver still holds is not deleted: every delete has
\* evidence on that room.
NoWrongDrop ==
  [][scene = "inviting" => Inviting!NoWrongDropStep]_vars

\* When nothing is under way, an event stored by live ingestion whose key is in the store
\* has its content: the drain finds the row, or the second look finds the key.
LiveIsDecrypted ==
  /\ scene = "backup" => FromBackup!LiveIsDecrypted
  /\ scene = "restarting" => Restarting!LiveIsDecrypted

\* Later boots pass over a row only when a sweep has tried it: one that a restart cut short
\* leaves the rest to the next.
MarkedWasTried == scene = "twice" => Twice!MarkedWasTried

\* Content, once there, stays: no second delivery or late attempt takes it away.
ContentStays ==
  [][scene = "twice" => Twice!ContentStaysStep]_vars

\* The cache of room details and the panels: no answer of an earlier membership, no absence
\* beside a tuple, and nobody is left with a refresh that never ends.
DetailsAreCurrent ==
  /\ RowsOfThisMembership /\ AbsenceYields /\ PanelIsAnswered

\* The copies of member counts and names: none from before a leave, none behind the SDK
\* without a visit due, none changed in silence; and no tuple changed in silence.
CountsAreCurrent ==
  /\ NoOldMembership /\ NothingForgotten /\ ChangeIsAnnounced

\* Redactions reach the tuples they name, soon, and no others.
RedactionsReach ==
  /\ PrunedIsRedacted /\ RepairIsHinted

\* Every increase of an unread count, every row that is kept and every count that is pinned to
\* zero rests on what the homeserver or the SDK has said of that room.
UnreadIsBacked ==
  /\ HeldIsNotWritten /\ JoinedRowsKept /\ PinnedStaysZero /\ GoneIsBacked

\* Rows without content are tried when their key comes: by the drain, by the second look or
\* by a sweep.
RowsAreRetried ==
  /\ LiveIsDecrypted /\ MarkedWasTried

\* No late write, replay, retry or repeated request undoes what a newer one did: content,
\* tuples, verdicts and rows only move forward.
NothingIsUndone ==
  /\ NoAmplification /\ RedactedStays /\ RowMovesForward /\ PurgedIsFound /\ NoWrongDrop
  /\ ContentStays
=============================================================================
