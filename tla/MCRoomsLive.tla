---------------------------- MODULE MCRoomsLive ----------------------------
(***************************************************************************)
(* The scenes of MCRooms that are checked for what happens in the end: the *)
(* jobs, the counts, the state, the unread rows, the invites and the keys, *)
(* under the fairness that the modules of the components argue for.        *)
(***************************************************************************)
EXTENDS MCRooms

\* One panel, a leave, a fault and an end of the run.
Fetching == INSTANCE RoomDetails WITH
  Rooms <- {r1}, Details <- {a}, Absence <- absence, Types <- <<>>, QueueCapacity <- 1,
  CooldownCapacity <- 4, MaxMoves <- 1, MaxStates <- 0, MaxFaults <- 1, MaxStops <- 1

\* A room that changes, is left and joined again.
Counting == INSTANCE MemberCounts WITH
  NumRooms <- 1, Listed <- {}, MaxChanges <- 2, MaxLeaves <- 1, MaxFaults <- 1,
  MaxRestarts <- 0, ChannelCap <- 2, HintRooms <- 1, PendingCap <- 1, Drain <- 1,
  PageSize <- 1, MaxAttempts <- 2, LateDeadline <- FALSE

\* Two events and a reset of the store.
Projecting == INSTANCE StateProjection WITH
  Types <- {"levels"}, SdkTypes <- {"levels"}, SuppTypes <- {"levels"}, DisplayTypes <- {},
  NumEvents <- 2, TypeOf <- [e \in 1..2 |-> "levels"], Ts <- [e \in 1..2 |-> e],
  Forbidden <- {}, MaxRedactions <- 1, MaxResets <- 1, Lossy <- FALSE, Faults <- FALSE

\* The same of a type the SDK does not keep.
Redacting == INSTANCE StateProjection WITH
  Types <- {"acl"}, SdkTypes <- {}, SuppTypes <- {"acl"}, DisplayTypes <- {},
  NumEvents <- 2, TypeOf <- [e \in 1..2 |-> "acl"], Ts <- [e \in 1..2 |-> e],
  Forbidden <- {}, MaxRedactions <- 1, MaxResets <- 0, Lossy <- FALSE, Faults <- FALSE

\* Every change of a room, with lost updates.
Settling == INSTANCE UnreadCounts WITH
  Rooms <- {r1}, Senders <- {s1}, MaxCount <- 1, MaxChanges <- 3, MaxSends <- 2,
  MaxFaults <- 2, MaxRestarts <- 0, Kinds <- {"message", "read", "unmatched", "reload",
  "tombstone", "leave", "rejoin", "purge", "restore"}, ProbesPerSweep <- 1, Concurrency <- 1,
  Stubborn <- {}, SeedFails <- FALSE, Flaky <- FALSE, LostAcks <- FALSE

\* Two suspect rooms at one probe a pass.
Draining == INSTANCE UnreadCounts WITH
  Rooms <- {r1, r2}, Senders <- {s1}, MaxCount <- 1, MaxChanges <- 2, MaxSends <- 2,
  MaxFaults <- 1, MaxRestarts <- 0, Kinds <- {"purge", "restore"}, ProbesPerSweep <- 1,
  Concurrency <- 1, Stubborn <- {}, SeedFails <- FALSE, Flaky <- FALSE,
  LostAcks <- FALSE

\* A room that is purged while it is listed as invited.
Disowned == INSTANCE Invites WITH
  Rooms <- {r1}, Calls <- {c1}, Vers <- {1, 2}, MaxInvites <- 1, MaxChanges <- 2,
  MaxCalls <- 1, MaxFaults <- 1, MaxRestarts <- 1, Concurrency <- 1, Returns <- FALSE

\* Two invites to one room.
Listing == INSTANCE Invites WITH
  Rooms <- {r1}, Calls <- {c1}, Vers <- {1, 2}, MaxInvites <- 2, MaxChanges <- 1,
  MaxCalls <- 1, MaxFaults <- 1, MaxRestarts <- 0, Concurrency <- 1, Returns <- FALSE

\* Two events of one session in two rooms.
Decrypting == INSTANCE Redecrypt WITH
  Events <- {e1, e2}, SessionOf <- [e \in {e1, e2} |-> k1],
  RoomOf <- [e \in {e1, e2} |-> IF e = e1 THEN r1 ELSE r2], Backup <- {},
  AlwaysAll <- FALSE, Faults <- {}, MaxDeliveries <- 1, MaxRetries <- 0, MaxCrashes <- 0

\* The constants of these instances, too, are what their modules assume.
ASSUME EveryLiveInstance ==
  /\ Fetching!RoomDetailsBounds
  /\ Counting!MemberCountsAssumption
  /\ Projecting!StateProjectionAssumption
  /\ Redacting!StateProjectionAssumption
  /\ Settling!UnreadCountsAssumption
  /\ Draining!UnreadCountsAssumption
  /\ Disowned!InvitesAssumption
  /\ Listing!InvitesAssumption
  /\ Decrypting!RedecryptAssumption

\* The variables of each component.
roomDetailsVars == <<joined, epoch, tuples, rows, queue, running, sending, cooldown, wake,
                     registered, pc, job, reader, shown, stale, told, asked, moves, states,
                     faults, stops>>
memberCountsVars == <<sdk, clock, leaves, queued, row, fenced, hints, lagged, pending,
                      sweep, work, dropped, faults, restarts, owed>>
stateProjectionVars == <<sent, redacted, sdk, synced, noted, polled, resets, inbox, job,
                         row, log, summary, ingest, hint, work, dirty>>
unreadCountsVars == <<room, loaded, served, changes, upd, send, sends, suspects, goneRows,
                      row, told, last, gone, watch, cap, faults, restarts, left, pinned, ok,
                      late>>
invitesVars == <<hs, news, mem, disk, upd, row, told, dead, call, cache, watch, cap,
                 changes, calls, faults, restarts, rejected, crossed>>
redecryptVars == <<row, marked, keys, stream, listening, worker, deliveries, retries,
                   crashes, swept>>

LiveInit ==
  /\ scene \in Scenes
  /\ \/ scene = "fetching" /\ Fetching!Init /\ RoomDetailsAlone
     \/ scene = "counting" /\ Counting!Init /\ MemberCountsAlone
     \/ scene = "projecting" /\ Projecting!Init /\ StateProjectionAlone
     \/ scene = "redacting" /\ Redacting!Init /\ StateProjectionAlone
     \/ scene = "settling" /\ Settling!Init /\ UnreadCountsAlone
     \/ scene = "draining" /\ Draining!Init /\ UnreadCountsAlone
     \/ scene = "disowned" /\ Disowned!Init /\ InvitesAlone
     \/ scene = "listing" /\ Listing!Init /\ InvitesAlone
     \/ scene = "decrypting" /\ Decrypting!Init /\ RedecryptAlone

LiveNext ==
  \/ scene = "fetching" /\ Fetching!Next /\ UNCHANGED roomDetailsElse
  \/ scene = "counting" /\ Counting!Next /\ UNCHANGED memberCountsElse
  \/ scene = "projecting" /\ Projecting!Next /\ UNCHANGED stateProjectionElse
  \/ scene = "redacting" /\ Redacting!Next /\ UNCHANGED stateProjectionElse
  \/ scene = "settling" /\ Settling!Next /\ UNCHANGED unreadCountsElse
  \/ scene = "draining" /\ Draining!Next /\ UNCHANGED unreadCountsElse
  \/ scene = "disowned" /\ Disowned!Next /\ UNCHANGED invitesElse
  \/ scene = "listing" /\ Listing!Next /\ UNCHANGED invitesElse
  \/ scene = "decrypting" /\ Decrypting!Next /\ UNCHANGED redecryptElse

\* What waits for a lock or a turn that others keep taking: a behaviour is of one scene,
\* so that one condition of strong fairness stands for one of each scene.
Waits1 ==
  \/ scene = "settling" /\ Settling!Tick /\ UNCHANGED unreadCountsElse
  \/ scene = "draining" /\ Draining!Tick /\ UNCHANGED unreadCountsElse
  \/ scene = "disowned" /\ Disowned!Tick /\ UNCHANGED invitesElse
  \/ scene = "listing" /\ Listing!Tick /\ UNCHANGED invitesElse

\* The fairness that the module of each component states and argues for.
Fairness ==
  /\ SF_vars(Waits1)
  /\ WF_roomDetailsVars(scene = "fetching" /\ Fetching!WorkerStep)
  /\ WF_roomDetailsVars(scene = "fetching" /\ Fetching!Unregister)
  /\ WF_memberCountsVars(scene = "counting" /\ Counting!Tick)
  /\ WF_memberCountsVars(scene = "counting" /\ Counting!SweepDue)
  /\ WF_memberCountsVars(scene = "counting" /\ Counting!Worker)
  /\ \A r \in Counting!Rooms : WF_memberCountsVars(scene = "counting" /\ Counting!Project(r))
  /\ WF_stateProjectionVars(scene = "projecting" /\ Projecting!Sync)
  /\ WF_stateProjectionVars(scene = "projecting" /\ Projecting!Poll)
  /\ \A w \in Projecting!Writers : WF_stateProjectionVars(scene = "projecting" /\ Projecting!Handle(w))
  /\ WF_stateProjectionVars(scene = "projecting" /\ Projecting!HandleRedaction)
  /\ WF_stateProjectionVars(scene = "projecting" /\ Projecting!Repair)
  /\ WF_stateProjectionVars(scene = "redacting" /\ Redacting!Sync)
  /\ WF_stateProjectionVars(scene = "redacting" /\ Redacting!Poll)
  /\ \A w \in Redacting!Writers : WF_stateProjectionVars(scene = "redacting" /\ Redacting!Handle(w))
  /\ WF_stateProjectionVars(scene = "redacting" /\ Redacting!HandleRedaction)
  /\ WF_stateProjectionVars(scene = "redacting" /\ Redacting!Repair)
  /\ \A r \in {r1} : WF_unreadCountsVars(scene = "settling" /\ Settling!RoomSteps(r))
  /\ \A s \in {s1} : WF_unreadCountsVars(scene = "settling" /\ Settling!NoteReachability(s))
  /\ WF_unreadCountsVars(scene = "settling" /\ Settling!WatchSteps)
  /\ \A r \in {r1, r2} : WF_unreadCountsVars(scene = "draining" /\ Draining!RoomSteps(r))
  /\ \A s \in {s1} : WF_unreadCountsVars(scene = "draining" /\ Draining!NoteReachability(s))
  /\ WF_unreadCountsVars(scene = "draining" /\ Draining!WatchSteps)
  /\ \A r \in {r1} : WF_invitesVars(scene = "disowned" /\ Disowned!Sync(r))
  /\ \A r \in {r1} : WF_invitesVars(scene = "disowned" /\ Disowned!Hydrate(r))
  /\ \A r \in {r1} : WF_invitesVars(scene = "disowned" /\ Disowned!RoomSteps(r))
  /\ \A c \in {c1} : WF_invitesVars(scene = "disowned" /\ Disowned!CallSteps(c))
  /\ WF_invitesVars(scene = "disowned" /\ Disowned!WatchSteps)
  /\ \A r \in {r1} : WF_invitesVars(scene = "listing" /\ Listing!Sync(r))
  /\ \A r \in {r1} : WF_invitesVars(scene = "listing" /\ Listing!Hydrate(r))
  /\ \A r \in {r1} : WF_invitesVars(scene = "listing" /\ Listing!RoomSteps(r))
  /\ \A c \in {c1} : WF_invitesVars(scene = "listing" /\ Listing!CallSteps(c))
  /\ WF_invitesVars(scene = "listing" /\ Listing!WatchSteps)
  /\ WF_redecryptVars(scene = "decrypting" /\ Decrypting!Subscribe)
  /\ \A w \in Decrypting!Workers : WF_redecryptVars(scene = "decrypting" /\ Decrypting!Work(w))

FairSpec == LiveInit /\ [][LiveNext]_vars /\ Fairness

-----------------------------------------------------------------------------
(* Properties, each of the scenes it is checked in. *)

\* A job that is queued ends or is dropped.
JobEnds ==
  \A p \in Fetching!Panels : []<>(scene = "fetching" => ~Fetching!Waiting(p))

\* Once the SDK is quiet, every listed room comes to show its counts and its name.
CountsConverge ==
  \A r \in Counting!Rooms : <>[](scene = "counting" => Counting!Stale(r) = {})

\* When the homeserver falls silent, every tuple comes to hold the room's current event,
\* redacted if it is.
StateConverges ==
  /\ \A t \in {"levels"} : <>[](scene = "projecting" => Projecting!Projected(t))
  /\ \A t \in {"acl"} : <>[](scene = "redacting" => Redacting!Projected(t))

\* In the end every joined room shows the SDK's count, or zero when it is replaced or gone,
\* whatever updates, writes and reads were lost, unless a receipt the SDK cannot match
\* holds it.
UnreadConverges ==
  \A r \in {r1} : <>[](scene = "settling" => Settling!Shown(r))

\* In the end no room is suspect.
Drains ==
  <>[](scene = "draining" => suspects = <<>>)

\* A room the homeserver has disowned leaves the table, and the inboxes unless its last
\* frames crossed, for as long as the client that still lists it as invited.
DeadIsDropped ==
  \A r \in {r1} : <>[](scene = "disowned" => Disowned!Dropped(r))

\* In the end the table holds the rooms the SDK sees as invited and none it sees as joined
\* or left, whatever updates, reads and writes were lost, and so do the inboxes unless the
\* room's last frames crossed.
InboxConverges ==
  \A r \in {r1} : <>[](scene = "listing" => Listing!InboxRight(r))

\* An invite that the homeserver holds and the SDK shows is listed in the end.
PendingIsListed ==
  \A r \in {r1} : <>[](scene = "listing" => Listing!PendingListed(r))

\* A row of live ingestion whose key is in the store gets its content.
KeyDecrypts ==
  \A e \in {e1, e2} : []<>(scene = "decrypting" => Decrypting!Decrypted(e))

\* Once the world stops changing, every copy agrees with its source, and every job, backlog
\* and sweep comes to its end.
RoomsConverge ==
  /\ JobEnds /\ CountsConverge /\ StateConverges /\ UnreadConverges /\ Drains
  /\ DeadIsDropped /\ InboxConverges /\ PendingIsListed /\ KeyDecrypts
=============================================================================
