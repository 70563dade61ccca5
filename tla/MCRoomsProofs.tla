--------------------------- MODULE MCRoomsProofs ----------------------------
(***************************************************************************)
(* The scenes of re-decryption, of redactions and of unread counts in      *)
(* MCRooms, from the lemmas of RoomProofs: what TLC checks of them on the  *)
(* instances of the run is what the inductive invariants say for every     *)
(* value of the constants. A step of MCRooms is a step of its scene, so    *)
(* that the invariants of the scene's component are kept.                  *)
(***************************************************************************)
EXTENDS MCRooms, FiniteSetTheorems, TLAPS

-----------------------------------------------------------------------------
(* The proofs, of the instances that the scenes are of. The instances of the *)
(* scenes and of the proofs have the same steps: the definitions are the     *)
(* same, expanded with the same values.                                      *)

\* Of "backup", "pruning" and "unmatched".
Restored == INSTANCE RoomProofs WITH
  Events <- {e1, e2}, MegolmOf <- [e \in {e1, e2} |-> k1],
  RoomOf <- [e \in {e1, e2} |-> r1], Backup <- {k1}, AlwaysAll <- FALSE, Faults <- {},
  MaxDeliveries <- 1, MaxRetries <- 0, MaxCrashes <- 0, events <- row,
  Types <- {"acl"}, SdkTypes <- {}, SuppTypes <- {"acl"}, DisplayTypes <- {},
  NumEvents <- 3, TypeOf <- [e \in 1..3 |-> "acl"], Ts <- [e \in 1..3 |-> e],
  Forbidden <- {2}, MaxRedactions <- 1, MaxResets <- 0, Lossy <- FALSE, Failing <- FALSE,
  tuples <- row,
  Rooms <- {r1}, Senders <- {s1}, MaxCount <- 2, MaxChanges <- 5, MaxSends <- 0,
  MaxFaults <- 2, MaxRestarts <- 1, Happenings <- {"message", "read", "unmatched", "reload",
  "tombstone", "leave", "rejoin"},
  ProbesPerSweep <- 1, Concurrency <- 1, Stubborn <- {}, SeedFails <- FALSE, Flaky <- FALSE,
  LostAcks <- FALSE, infos <- room, counts <- row, captures <- cap,
  overtaken <- late

LEMMA FromBackupSteps == (FromBackup!Init => Restored!Timeline!Init) /\ (FromBackup!Next => Restored!Timeline!Next)
<1>1. FromBackup!Init => Restored!Timeline!Init
  BY Zenon DEF FromBackup!Init, Restored!Timeline!Init, FromBackup!Listens,
     Restored!Timeline!Listens, FromBackup!Workers, Restored!Timeline!Workers,
     FromBackup!Idle, Restored!Timeline!Idle, FromBackup!Ingest, Restored!Timeline!Ingest,
     FromBackup!Sweeps, Restored!Timeline!Sweeps
<1>2. \A w : /\ FromBackup!Persist(w) => Restored!Timeline!Persist(w)
             /\ FromBackup!Load(w) => Restored!Timeline!Load(w)
             /\ FromBackup!EnterRoom(w) => Restored!Timeline!EnterRoom(w)
             /\ FromBackup!EndSweep(w) => Restored!Timeline!EndSweep(w)
  BY ZenonT(30) DEF FromBackup!Persist, Restored!Timeline!Persist, FromBackup!Load,
     Restored!Timeline!Load, FromBackup!EnterRoom, Restored!Timeline!EnterRoom,
     FromBackup!EndSweep, Restored!Timeline!EndSweep, FromBackup!Marks,
     Restored!Timeline!Marks, FromBackup!Upsert,
     Restored!Timeline!Upsert, FromBackup!EventOf, Restored!Timeline!EventOf, FromBackup!Set,
     Restored!Timeline!Set, FromBackup!SecondLook, Restored!Timeline!SecondLook,
     FromBackup!Idle, Restored!Timeline!Idle, FromBackup!bounds, Restored!Timeline!bounds,
     FromBackup!Selected, Restored!Timeline!Selected, FromBackup!Rooms,
     Restored!Timeline!Rooms, FromBackup!RowsIn, Restored!Timeline!RowsIn, FromBackup!Import,
     Restored!Timeline!Import, FromBackup!Utd, Restored!Timeline!Utd, FromBackup!Ingest,
     Restored!Timeline!Ingest, FromBackup!Cardinality, Restored!Timeline!Cardinality
<1>3. \A w : /\ FromBackup!Decrypt(w) => Restored!Timeline!Decrypt(w)
             /\ FromBackup!Update(w) => Restored!Timeline!Update(w)
             /\ FromBackup!TakeRow(w) => Restored!Timeline!TakeRow(w)
             /\ FromBackup!LeaveRows(w) => Restored!Timeline!LeaveRows(w)
             /\ FromBackup!Receive(w) => Restored!Timeline!Receive(w)
  BY ZenonT(30) DEF FromBackup!Decrypt, Restored!Timeline!Decrypt, FromBackup!Update,
     Restored!Timeline!Update, FromBackup!TakeRow, Restored!Timeline!TakeRow,
     FromBackup!LeaveRows, Restored!Timeline!LeaveRows, FromBackup!Receive,
     Restored!Timeline!Receive, FromBackup!Set, Restored!Timeline!Set, FromBackup!Keyed,
     Restored!Timeline!Keyed, FromBackup!EventOf, Restored!Timeline!EventOf,
     FromBackup!bounds, Restored!Timeline!bounds, FromBackup!Utd, Restored!Timeline!Utd,
     FromBackup!Following, Restored!Timeline!Following, FromBackup!Within,
     Restored!Timeline!Within, FromBackup!Idle, Restored!Timeline!Idle, FromBackup!Ingest,
     Restored!Timeline!Ingest, FromBackup!RowsIn, Restored!Timeline!RowsIn
<1>4. /\ FromBackup!Drain => Restored!Timeline!Drain
      /\ FromBackup!Mark => Restored!Timeline!Mark
      /\ FromBackup!KeyArrives => Restored!Timeline!KeyArrives
      /\ FromBackup!Subscribe => Restored!Timeline!Subscribe
  BY ZenonT(30) DEF FromBackup!Drain, Restored!Timeline!Drain, FromBackup!Mark,
     Restored!Timeline!Mark, FromBackup!KeyArrives, Restored!Timeline!KeyArrives,
     FromBackup!Subscribe, Restored!Timeline!Subscribe, FromBackup!Set, Restored!Timeline!Set,
     FromBackup!Idle, Restored!Timeline!Idle, FromBackup!Utd, Restored!Timeline!Utd,
     FromBackup!bounds, Restored!Timeline!bounds, FromBackup!Attempted,
     Restored!Timeline!Attempted, FromBackup!Sessions, Restored!Timeline!Sessions,
     FromBackup!Import, Restored!Timeline!Import, FromBackup!Ingest, Restored!Timeline!Ingest,
     FromBackup!Cardinality, Restored!Timeline!Cardinality
<1>5. /\ FromBackup!Lag => Restored!Timeline!Lag
      /\ FromBackup!Retry => Restored!Timeline!Retry
      /\ FromBackup!Timeout => Restored!Timeline!Timeout
      /\ FromBackup!Restart => Restored!Timeline!Restart
  BY ZenonT(30) DEF FromBackup!Lag, Restored!Timeline!Lag, FromBackup!Retry,
     Restored!Timeline!Retry, FromBackup!Timeout, Restored!Timeline!Timeout,
     FromBackup!Restart, Restored!Timeline!Restart, FromBackup!bounds,
     Restored!Timeline!bounds, FromBackup!Set, Restored!Timeline!Set, FromBackup!Idle,
     Restored!Timeline!Idle, FromBackup!Steps, Restored!Timeline!Steps, FromBackup!Listens,
     Restored!Timeline!Listens, FromBackup!Workers, Restored!Timeline!Workers,
     FromBackup!Ingest, Restored!Timeline!Ingest, FromBackup!Sweeps, Restored!Timeline!Sweeps
<1> QED
  BY <1>1, <1>2, <1>3, <1>4, <1>5, Zenon DEF FromBackup!Next, Restored!Timeline!Next,
     FromBackup!Work, Restored!Timeline!Work, FromBackup!Workers, Restored!Timeline!Workers,
     FromBackup!Ingest, Restored!Timeline!Ingest, FromBackup!Sweeps, Restored!Timeline!Sweeps

LEMMA PruningSteps == (Pruning!Init => Restored!Projection!Init) /\ (Pruning!Next => Restored!Projection!Next)
<1>1. Pruning!Init => Restored!Projection!Init
  BY Zenon DEF Pruning!Init, Restored!Projection!Init, Pruning!NoCache,
     Restored!Projection!NoCache, Pruning!Writers, Restored!Projection!Writers, Pruning!Idle,
     Restored!Projection!Idle, Pruning!NoRow, Restored!Projection!NoRow, Pruning!Blank,
     Restored!Projection!Blank, Pruning!Rest, Restored!Projection!Rest, Pruning!NoTx,
     Restored!Projection!NoTx
<1>2. /\ Pruning!Emit => Restored!Projection!Emit
      /\ Pruning!Sync => Restored!Projection!Sync
      /\ Pruning!Poll => Restored!Projection!Poll
      /\ Pruning!UnknownPos => Restored!Projection!UnknownPos
  BY ZenonT(30) DEF Pruning!Emit, Restored!Projection!Emit, Pruning!Sync,
     Restored!Projection!Sync, Pruning!Poll, Restored!Projection!Poll, Pruning!UnknownPos,
     Restored!Projection!UnknownPos, Pruning!Free, Restored!Projection!Free, Pruning!Current,
     Restored!Projection!Current, Pruning!Applied, Restored!Projection!Applied,
     Pruning!StateItem, Restored!Projection!StateItem, Pruning!RedactionItem,
     Restored!Projection!RedactionItem, Pruning!server, Restored!Projection!server,
     Pruning!Idle, Restored!Projection!Idle, Pruning!NoRow, Restored!Projection!NoRow,
     Pruning!Blank, Restored!Projection!Blank, Pruning!NoCache, Restored!Projection!NoCache,
     Pruning!Max, Restored!Projection!Max
<1>3. \A e : /\ Pruning!Redact(e) => Restored!Projection!Redact(e)
             /\ Pruning!ApplyUpdate(e) => Restored!Projection!ApplyUpdate(e)
  BY ZenonT(30) DEF Pruning!Redact, Restored!Projection!Redact, Pruning!ApplyUpdate,
     Restored!Projection!ApplyUpdate, Pruning!Repairable, Restored!Projection!Repairable,
     Pruning!Shown, Restored!Projection!Shown, Pruning!Repaired, Restored!Projection!Repaired,
     Pruning!NoTx, Restored!Projection!NoTx, Pruning!server, Restored!Projection!server,
     Pruning!Blank, Restored!Projection!Blank, Pruning!NoCache, Restored!Projection!NoCache,
     Pruning!Cardinality, Restored!Projection!Cardinality
<1>4. \A w : /\ Pruning!Take(w) => Restored!Projection!Take(w)
             /\ Pruning!View(w) => Restored!Projection!View(w)
             /\ Pruning!Refresh(w) => Restored!Projection!Refresh(w)
             /\ Pruning!Mark(w) => Restored!Projection!Mark(w)
  BY ZenonT(30) DEF Pruning!Take, Restored!Projection!Take, Pruning!View,
     Restored!Projection!View, Pruning!Refresh, Restored!Projection!Refresh, Pruning!Mark,
     Restored!Projection!Mark, Pruning!Idle, Restored!Projection!Idle, Pruning!server,
     Restored!Projection!server, Pruning!Shown, Restored!Projection!Shown, Pruning!Blank,
     Restored!Projection!Blank, Pruning!NoRow, Restored!Projection!NoRow, Pruning!NoCache,
     Restored!Projection!NoCache
<1>5. \A w : Pruning!upsert_room_state(w) => Restored!Projection!upsert_room_state(w)
  BY ZenonT(30) DEF Pruning!upsert_room_state, Restored!Projection!upsert_room_state,
     Pruning!Fresh, Restored!Projection!Fresh, Pruning!Merged, Restored!Projection!Merged,
     Pruning!Changed, Restored!Projection!Changed, Pruning!NoRow, Restored!Projection!NoRow,
     Pruning!server, Restored!Projection!server
<1>6. \A w : /\ Pruning!queue_state_hint(w) => Restored!Projection!queue_state_hint(w)
             /\ Pruning!Fail(w) => Restored!Projection!Fail(w)
  BY ZenonT(30) DEF Pruning!queue_state_hint, Restored!Projection!queue_state_hint,
     Pruning!Fail, Restored!Projection!Fail, Pruning!Overtaken, Restored!Projection!Overtaken,
     Pruning!TrySend, Restored!Projection!TrySend, Pruning!Idle, Restored!Projection!Idle,
     Pruning!server, Restored!Projection!server, Pruning!PrunedInCache,
     Restored!Projection!PrunedInCache, Pruning!NoRow, Restored!Projection!NoRow,
     Pruning!Blank, Restored!Projection!Blank, Pruning!NoCache, Restored!Projection!NoCache
<1>7. /\ Pruning!HandleRedaction => Restored!Projection!HandleRedaction
      /\ Pruning!IngestSnapshot => Restored!Projection!IngestSnapshot
      /\ Pruning!IngestCommit => Restored!Projection!IngestCommit
  BY ZenonT(30) DEF Pruning!HandleRedaction, Restored!Projection!HandleRedaction,
     Pruning!IngestSnapshot, Restored!Projection!IngestSnapshot, Pruning!IngestCommit,
     Restored!Projection!IngestCommit, Pruning!StoreRedaction,
     Restored!Projection!StoreRedaction, Pruning!queue_redaction_hint,
     Restored!Projection!queue_redaction_hint, Pruning!Shown, Restored!Projection!Shown,
     Pruning!server, Restored!Projection!server, Pruning!Blank, Restored!Projection!Blank,
     Pruning!IsTarget, Restored!Projection!IsTarget, Pruning!TrySend,
     Restored!Projection!TrySend, Pruning!Idle, Restored!Projection!Idle, Pruning!NoCache,
     Restored!Projection!NoCache, Pruning!NoRow, Restored!Projection!NoRow
<1>8. /\ Pruning!Tick => Restored!Projection!Tick
      /\ Pruning!ReadCache => Restored!Projection!ReadCache
      /\ Pruning!locally_redacted_state => Restored!Projection!locally_redacted_state
  BY ZenonT(30) DEF Pruning!Tick, Restored!Projection!Tick, Pruning!ReadCache,
     Restored!Projection!ReadCache, Pruning!locally_redacted_state,
     Restored!Projection!locally_redacted_state, Pruning!Rest, Restored!Projection!Rest,
     Pruning!server, Restored!Projection!server, Pruning!Scanning,
     Restored!Projection!Scanning, Pruning!redaction_authorized,
     Restored!Projection!redaction_authorized, Pruning!NoTx, Restored!Projection!NoTx,
     Pruning!Blank, Restored!Projection!Blank, Pruning!NoCache, Restored!Projection!NoCache
<1>9. /\ Pruning!RoomDone => Restored!Projection!RoomDone
      /\ Pruning!ApplyCommit => Restored!Projection!ApplyCommit
      /\ Pruning!RepairTimeout => Restored!Projection!RepairTimeout
  BY ZenonT(30) DEF Pruning!RoomDone, Restored!Projection!RoomDone, Pruning!ApplyCommit,
     Restored!Projection!ApplyCommit, Pruning!RepairTimeout,
     Restored!Projection!RepairTimeout, Pruning!Scanning, Restored!Projection!Scanning,
     Pruning!Rest, Restored!Projection!Rest, Pruning!server, Restored!Projection!server,
     Pruning!Repaired, Restored!Projection!Repaired, Pruning!NoTx, Restored!Projection!NoTx,
     Pruning!Blank, Restored!Projection!Blank, Pruning!NoCache, Restored!Projection!NoCache
<1> QED
  BY <1>1, <1>2, <1>3, <1>4, <1>5, <1>6, <1>7, <1>8, <1>9, Zenon DEF Pruning!Next,
     Restored!Projection!Next, Pruning!Handle, Restored!Projection!Handle, Pruning!Repair,
     Restored!Projection!Repair, Pruning!Events, Restored!Projection!Events, Pruning!Writers,
     Restored!Projection!Writers

LEMMA UnmatchedSteps == (Unmatched!Init => Restored!Unread!Init) /\ (Unmatched!Next => Restored!Unread!Next)
<1>1. Unmatched!Init => Restored!Unread!Init
  BY Zenon DEF Unmatched!Init, Restored!Unread!Init, Unmatched!NoSend, Restored!Unread!NoSend,
     Unmatched!None, Restored!Unread!None, Unmatched!Starting, Restored!Unread!Starting,
     Unmatched!Off, Restored!Unread!Off
<1>2. \A r : /\ Unmatched!Message(r) => Restored!Unread!Message(r)
             /\ Unmatched!Read(r) => Restored!Unread!Read(r)
             /\ Unmatched!Reload(r) => Restored!Unread!Reload(r)
             /\ Unmatched!Tombstone(r) => Restored!Unread!Tombstone(r)
  BY ZenonT(30) DEF Unmatched!Message, Restored!Unread!Message, Unmatched!Read,
     Restored!Unread!Read, Unmatched!Reload, Restored!Unread!Reload, Unmatched!Tombstone,
     Restored!Unread!Tombstone, Unmatched!Happens, Restored!Unread!Happens, Unmatched!Sdk,
     Restored!Unread!Sdk, Unmatched!Recounted, Restored!Unread!Recounted, Unmatched!noteVars,
     Restored!Unread!noteVars, Unmatched!watchVars, Restored!Unread!watchVars,
     Unmatched!Heard, Restored!Unread!Heard, Unmatched!Counted, Restored!Unread!Counted,
     Unmatched!At, Restored!Unread!At, Unmatched!Phantom, Restored!Unread!Phantom
<1>3. \A r : /\ Unmatched!Leave(r) => Restored!Unread!Leave(r)
             /\ Unmatched!Rejoin(r) => Restored!Unread!Rejoin(r)
             /\ Unmatched!Purge(r) => Restored!Unread!Purge(r)
             /\ Unmatched!Restore(r) => Restored!Unread!Restore(r)
  BY ZenonT(30) DEF Unmatched!Leave, Restored!Unread!Leave, Unmatched!Rejoin,
     Restored!Unread!Rejoin, Unmatched!Purge, Restored!Unread!Purge, Unmatched!Restore,
     Restored!Unread!Restore, Unmatched!Happens, Restored!Unread!Happens, Unmatched!Sdk,
     Restored!Unread!Sdk, Unmatched!AnswerUnderWay, Restored!Unread!AnswerUnderWay,
     Unmatched!noteVars, Restored!Unread!noteVars, Unmatched!watchVars,
     Restored!Unread!watchVars, Unmatched!Heard, Restored!Unread!Heard, Unmatched!At,
     Restored!Unread!At
<1>4. \A r, side : Unmatched!Unmatched(r, side) => Restored!Unread!Unmatched(r, side)
  BY ZenonT(30) DEF Unmatched!Unmatched, Restored!Unread!Unmatched, Unmatched!Happens,
     Restored!Unread!Happens, Unmatched!Sdk, Restored!Unread!Sdk, Unmatched!Recounted,
     Restored!Unread!Recounted, Unmatched!noteVars, Restored!Unread!noteVars,
     Unmatched!watchVars, Restored!Unread!watchVars, Unmatched!Heard, Restored!Unread!Heard,
     Unmatched!Counted, Restored!Unread!Counted, Unmatched!At, Restored!Unread!At,
     Unmatched!Phantom, Restored!Unread!Phantom
<1>5. \A r : /\ Unmatched!Hydrate(r) => Restored!Unread!Hydrate(r)
             /\ Unmatched!Sweep(r) => Restored!Unread!Sweep(r)
             /\ Unmatched!HeardUpdate(r) => Restored!Unread!HeardUpdate(r)
  BY ZenonT(30) DEF Unmatched!Hydrate, Restored!Unread!Hydrate, Unmatched!Sweep,
     Restored!Unread!Sweep, Unmatched!HeardUpdate, Restored!Unread!HeardUpdate,
     Unmatched!noteVars, Restored!Unread!noteVars, Unmatched!watchVars,
     Restored!Unread!watchVars, Unmatched!At, Restored!Unread!At, Unmatched!Off,
     Restored!Unread!Off, Unmatched!Capture, Restored!Unread!Capture, Unmatched!sdkVars,
     Restored!Unread!sdkVars, Unmatched!Snapshot, Restored!Unread!Snapshot,
     Unmatched!Suppressed, Restored!Unread!Suppressed, Unmatched!Increased,
     Restored!Unread!Increased, Unmatched!None, Restored!Unread!None, Unmatched!Cardinality,
     Restored!Unread!Cardinality
<1>6. \A r : /\ Unmatched!Evidence(r) => Restored!Unread!Evidence(r)
             /\ Unmatched!Write(r) => Restored!Unread!Write(r)
  BY ZenonT(30) DEF Unmatched!Evidence, Restored!Unread!Evidence, Unmatched!Write,
     Restored!Unread!Write, Unmatched!PendingStale, Restored!Unread!PendingStale,
     Unmatched!NoFault, Restored!Unread!NoFault, Unmatched!Off, Restored!Unread!Off,
     Unmatched!Fault, Restored!Unread!Fault, Unmatched!sdkVars, Restored!Unread!sdkVars,
     Unmatched!noteVars, Restored!Unread!noteVars
<1>7. \A s : Unmatched!NoteReachability(s) => Restored!Unread!NoteReachability(s)
  BY ZenonT(30) DEF Unmatched!NoteReachability, Restored!Unread!NoteReachability,
     Unmatched!NoSend, Restored!Unread!NoSend, Unmatched!NoFault, Restored!Unread!NoFault,
     Unmatched!ClearReconcile, Restored!Unread!ClearReconcile, Unmatched!FlagSuspect,
     Restored!Unread!FlagSuspect, Unmatched!Fault, Restored!Unread!Fault, Unmatched!sdkVars,
     Restored!Unread!sdkVars, Unmatched!watchVars, Restored!Unread!watchVars,
     Unmatched!Delete, Restored!Unread!Delete, Unmatched!Contains, Restored!Unread!Contains,
     Unmatched!RemoveAt, Restored!Unread!RemoveAt
<1>8. \A s, r : Unmatched!SendReadReceipt(s, r) => Restored!Unread!SendReadReceipt(s, r)
  BY ZenonT(30) DEF Unmatched!SendReadReceipt, Restored!Unread!SendReadReceipt,
     Unmatched!NoSend, Restored!Unread!NoSend, Unmatched!sdkVars, Restored!Unread!sdkVars,
     Unmatched!watchVars, Restored!Unread!watchVars
<1>9. /\ Unmatched!Seed => Restored!Unread!Seed
      /\ Unmatched!BeginStartup => Restored!Unread!BeginStartup
      /\ Unmatched!SweepDone => Restored!Unread!SweepDone
      /\ Unmatched!Tick => Restored!Unread!Tick
  BY ZenonT(30) DEF Unmatched!Seed, Restored!Unread!Seed, Unmatched!BeginStartup,
     Restored!Unread!BeginStartup, Unmatched!SweepDone, Restored!Unread!SweepDone,
     Unmatched!Tick, Restored!Unread!Tick, Unmatched!At, Restored!Unread!At,
     Unmatched!NoFault, Restored!Unread!NoFault, Unmatched!Fault, Restored!Unread!Fault,
     Unmatched!None, Restored!Unread!None, Unmatched!sdkVars, Restored!Unread!sdkVars,
     Unmatched!noteVars, Restored!Unread!noteVars, Unmatched!Joined, Restored!Unread!Joined,
     Unmatched!Off, Restored!Unread!Off
<1>10. /\ Unmatched!Probe => Restored!Unread!Probe
       /\ Unmatched!ApplyVerdict => Restored!Unread!ApplyVerdict
       /\ Unmatched!Refresh => Restored!Unread!Refresh
       /\ Unmatched!Prune => Restored!Unread!Prune
  BY ZenonT(30) DEF Unmatched!Probe, Restored!Unread!Probe, Unmatched!ApplyVerdict,
     Restored!Unread!ApplyVerdict, Unmatched!Refresh, Restored!Unread!Refresh,
     Unmatched!Prune, Restored!Unread!Prune, Unmatched!At, Restored!Unread!At,
     Unmatched!NoFault, Restored!Unread!NoFault, Unmatched!VerdictOf,
     Restored!Unread!VerdictOf, Unmatched!Fault, Restored!Unread!Fault, Unmatched!sdkVars,
     Restored!Unread!sdkVars, Unmatched!noteVars, Restored!Unread!noteVars, Unmatched!Settle,
     Restored!Unread!Settle, Unmatched!ApplyGoneRefresh, Restored!Unread!ApplyGoneRefresh,
     Unmatched!Joined, Restored!Unread!Joined, Unmatched!None, Restored!Unread!None,
     Unmatched!MarkGone, Restored!Unread!MarkGone, Unmatched!ClearReconcile,
     Restored!Unread!ClearReconcile, Unmatched!Delete, Restored!Unread!Delete,
     Unmatched!Contains, Restored!Unread!Contains, Unmatched!RemoveAt,
     Restored!Unread!RemoveAt
<1>11. /\ Unmatched!Lagged => Restored!Unread!Lagged
       /\ Unmatched!Restart => Restored!Unread!Restart
  BY ZenonT(30) DEF Unmatched!Lagged, Restored!Unread!Lagged, Unmatched!Restart,
     Restored!Unread!Restart, Unmatched!At, Restored!Unread!At, Unmatched!Fault,
     Restored!Unread!Fault, Unmatched!sdkVars, Restored!Unread!sdkVars, Unmatched!noteVars,
     Restored!Unread!noteVars, Unmatched!watchVars, Restored!Unread!watchVars,
     Unmatched!NoSend, Restored!Unread!NoSend, Unmatched!None, Restored!Unread!None,
     Unmatched!Starting, Restored!Unread!Starting, Unmatched!Off, Restored!Unread!Off
<1> QED
  BY <1>1, <1>2, <1>3, <1>4, <1>5, <1>6, <1>7, <1>8, <1>9, <1>10, <1>11, Zenon DEF
     Unmatched!Next, Restored!Unread!Next, Unmatched!RoomSteps, Restored!Unread!RoomSteps,
     Unmatched!WatchSteps, Restored!Unread!WatchSteps

\* Of "restarting", "hinting" and "rejoining".
Restarted == INSTANCE RoomProofs WITH
  Events <- {e1, e2}, MegolmOf <- [e \in {e1, e2} |-> k1],
  RoomOf <- [e \in {e1, e2} |-> IF e = e1 THEN r1 ELSE r2], Backup <- {},
  AlwaysAll <- TRUE, Faults <- {}, MaxDeliveries <- 1, MaxRetries <- 0, MaxCrashes <- 2,
  events <- row,
  Types <- {"levels"}, SdkTypes <- {"levels"}, SuppTypes <- {"levels"}, DisplayTypes <- {},
  NumEvents <- 2, TypeOf <- [e \in 1..2 |-> "levels"], Ts <- [e \in 1..2 |-> e],
  Forbidden <- {}, MaxRedactions <- 2, MaxResets <- 0, Lossy <- FALSE, Failing <- TRUE,
  tuples <- row,
  Rooms <- {r1, r2}, Senders <- {s1}, MaxCount <- 1, MaxChanges <- 4, MaxSends <- 0,
  MaxFaults <- 1, MaxRestarts <- 1, Happenings <- {"message", "leave", "rejoin"},
  ProbesPerSweep <- 1, Concurrency <- 2, Stubborn <- {}, SeedFails <- FALSE, Flaky <- FALSE,
  LostAcks <- FALSE, infos <- room, counts <- row, captures <- cap,
  overtaken <- late

LEMMA RestartingSteps == (Restarting!Init => Restarted!Timeline!Init) /\ (Restarting!Next => Restarted!Timeline!Next)
<1>1. Restarting!Init => Restarted!Timeline!Init
  BY Zenon DEF Restarting!Init, Restarted!Timeline!Init, Restarting!Listens,
     Restarted!Timeline!Listens, Restarting!Workers, Restarted!Timeline!Workers,
     Restarting!Idle, Restarted!Timeline!Idle, Restarting!Ingest, Restarted!Timeline!Ingest,
     Restarting!Sweeps, Restarted!Timeline!Sweeps
<1>2. \A w : /\ Restarting!Persist(w) => Restarted!Timeline!Persist(w)
             /\ Restarting!Load(w) => Restarted!Timeline!Load(w)
             /\ Restarting!EnterRoom(w) => Restarted!Timeline!EnterRoom(w)
             /\ Restarting!EndSweep(w) => Restarted!Timeline!EndSweep(w)
  BY ZenonT(30) DEF Restarting!Persist, Restarted!Timeline!Persist, Restarting!Load,
     Restarted!Timeline!Load, Restarting!EnterRoom, Restarted!Timeline!EnterRoom,
     Restarting!EndSweep, Restarted!Timeline!EndSweep, Restarting!Marks,
     Restarted!Timeline!Marks, Restarting!Upsert,
     Restarted!Timeline!Upsert, Restarting!EventOf, Restarted!Timeline!EventOf,
     Restarting!Set, Restarted!Timeline!Set, Restarting!SecondLook,
     Restarted!Timeline!SecondLook, Restarting!Idle, Restarted!Timeline!Idle,
     Restarting!bounds, Restarted!Timeline!bounds, Restarting!Selected,
     Restarted!Timeline!Selected, Restarting!Rooms, Restarted!Timeline!Rooms,
     Restarting!RowsIn, Restarted!Timeline!RowsIn, Restarting!Import,
     Restarted!Timeline!Import, Restarting!Utd, Restarted!Timeline!Utd, Restarting!Ingest,
     Restarted!Timeline!Ingest, Restarting!Cardinality, Restarted!Timeline!Cardinality
<1>3. \A w : /\ Restarting!Decrypt(w) => Restarted!Timeline!Decrypt(w)
             /\ Restarting!Update(w) => Restarted!Timeline!Update(w)
             /\ Restarting!TakeRow(w) => Restarted!Timeline!TakeRow(w)
             /\ Restarting!LeaveRows(w) => Restarted!Timeline!LeaveRows(w)
             /\ Restarting!Receive(w) => Restarted!Timeline!Receive(w)
  BY ZenonT(30) DEF Restarting!Decrypt, Restarted!Timeline!Decrypt, Restarting!Update,
     Restarted!Timeline!Update, Restarting!TakeRow, Restarted!Timeline!TakeRow,
     Restarting!LeaveRows, Restarted!Timeline!LeaveRows, Restarting!Receive,
     Restarted!Timeline!Receive, Restarting!Set, Restarted!Timeline!Set, Restarting!Keyed,
     Restarted!Timeline!Keyed, Restarting!EventOf, Restarted!Timeline!EventOf,
     Restarting!bounds, Restarted!Timeline!bounds, Restarting!Utd, Restarted!Timeline!Utd,
     Restarting!Following, Restarted!Timeline!Following, Restarting!Within,
     Restarted!Timeline!Within, Restarting!Idle, Restarted!Timeline!Idle, Restarting!Ingest,
     Restarted!Timeline!Ingest, Restarting!RowsIn, Restarted!Timeline!RowsIn
<1>4. /\ Restarting!Drain => Restarted!Timeline!Drain
      /\ Restarting!Mark => Restarted!Timeline!Mark
      /\ Restarting!KeyArrives => Restarted!Timeline!KeyArrives
      /\ Restarting!Subscribe => Restarted!Timeline!Subscribe
  BY ZenonT(30) DEF Restarting!Drain, Restarted!Timeline!Drain, Restarting!Mark,
     Restarted!Timeline!Mark, Restarting!KeyArrives, Restarted!Timeline!KeyArrives,
     Restarting!Subscribe, Restarted!Timeline!Subscribe, Restarting!Set,
     Restarted!Timeline!Set, Restarting!Idle, Restarted!Timeline!Idle, Restarting!Utd,
     Restarted!Timeline!Utd, Restarting!bounds, Restarted!Timeline!bounds,
     Restarting!Attempted, Restarted!Timeline!Attempted, Restarting!Sessions,
     Restarted!Timeline!Sessions, Restarting!Import, Restarted!Timeline!Import,
     Restarting!Ingest, Restarted!Timeline!Ingest, Restarting!Cardinality,
     Restarted!Timeline!Cardinality
<1>5. /\ Restarting!Lag => Restarted!Timeline!Lag
      /\ Restarting!Retry => Restarted!Timeline!Retry
      /\ Restarting!Timeout => Restarted!Timeline!Timeout
      /\ Restarting!Restart => Restarted!Timeline!Restart
  BY ZenonT(30) DEF Restarting!Lag, Restarted!Timeline!Lag, Restarting!Retry,
     Restarted!Timeline!Retry, Restarting!Timeout, Restarted!Timeline!Timeout,
     Restarting!Restart, Restarted!Timeline!Restart, Restarting!bounds,
     Restarted!Timeline!bounds, Restarting!Set, Restarted!Timeline!Set, Restarting!Idle,
     Restarted!Timeline!Idle, Restarting!Steps, Restarted!Timeline!Steps, Restarting!Listens,
     Restarted!Timeline!Listens, Restarting!Workers, Restarted!Timeline!Workers,
     Restarting!Ingest, Restarted!Timeline!Ingest, Restarting!Sweeps,
     Restarted!Timeline!Sweeps
<1> QED
  BY <1>1, <1>2, <1>3, <1>4, <1>5, Zenon DEF Restarting!Next, Restarted!Timeline!Next,
     Restarting!Work, Restarted!Timeline!Work, Restarting!Workers, Restarted!Timeline!Workers,
     Restarting!Ingest, Restarted!Timeline!Ingest, Restarting!Sweeps,
     Restarted!Timeline!Sweeps

LEMMA HintingSteps == (Hinting!Init => Restarted!Projection!Init) /\ (Hinting!Next => Restarted!Projection!Next)
<1>1. Hinting!Init => Restarted!Projection!Init
  BY Zenon DEF Hinting!Init, Restarted!Projection!Init, Hinting!NoCache,
     Restarted!Projection!NoCache, Hinting!Writers, Restarted!Projection!Writers,
     Hinting!Idle, Restarted!Projection!Idle, Hinting!NoRow, Restarted!Projection!NoRow,
     Hinting!Blank, Restarted!Projection!Blank, Hinting!Rest, Restarted!Projection!Rest,
     Hinting!NoTx, Restarted!Projection!NoTx
<1>2. /\ Hinting!Emit => Restarted!Projection!Emit
      /\ Hinting!Sync => Restarted!Projection!Sync
      /\ Hinting!Poll => Restarted!Projection!Poll
      /\ Hinting!UnknownPos => Restarted!Projection!UnknownPos
  BY ZenonT(30) DEF Hinting!Emit, Restarted!Projection!Emit, Hinting!Sync,
     Restarted!Projection!Sync, Hinting!Poll, Restarted!Projection!Poll, Hinting!UnknownPos,
     Restarted!Projection!UnknownPos, Hinting!Free, Restarted!Projection!Free,
     Hinting!Current, Restarted!Projection!Current, Hinting!Applied,
     Restarted!Projection!Applied, Hinting!StateItem, Restarted!Projection!StateItem,
     Hinting!RedactionItem, Restarted!Projection!RedactionItem, Hinting!server,
     Restarted!Projection!server, Hinting!Idle, Restarted!Projection!Idle, Hinting!NoRow,
     Restarted!Projection!NoRow, Hinting!Blank, Restarted!Projection!Blank, Hinting!NoCache,
     Restarted!Projection!NoCache, Hinting!Max, Restarted!Projection!Max
<1>3. \A e : /\ Hinting!Redact(e) => Restarted!Projection!Redact(e)
             /\ Hinting!ApplyUpdate(e) => Restarted!Projection!ApplyUpdate(e)
  BY ZenonT(30) DEF Hinting!Redact, Restarted!Projection!Redact, Hinting!ApplyUpdate,
     Restarted!Projection!ApplyUpdate, Hinting!Repairable, Restarted!Projection!Repairable,
     Hinting!Shown, Restarted!Projection!Shown, Hinting!Repaired,
     Restarted!Projection!Repaired, Hinting!NoTx, Restarted!Projection!NoTx, Hinting!server,
     Restarted!Projection!server, Hinting!Blank, Restarted!Projection!Blank, Hinting!NoCache,
     Restarted!Projection!NoCache, Hinting!Cardinality, Restarted!Projection!Cardinality
<1>4. \A w : /\ Hinting!Take(w) => Restarted!Projection!Take(w)
             /\ Hinting!View(w) => Restarted!Projection!View(w)
             /\ Hinting!Refresh(w) => Restarted!Projection!Refresh(w)
             /\ Hinting!Mark(w) => Restarted!Projection!Mark(w)
  BY ZenonT(30) DEF Hinting!Take, Restarted!Projection!Take, Hinting!View,
     Restarted!Projection!View, Hinting!Refresh, Restarted!Projection!Refresh, Hinting!Mark,
     Restarted!Projection!Mark, Hinting!Idle, Restarted!Projection!Idle, Hinting!server,
     Restarted!Projection!server, Hinting!Shown, Restarted!Projection!Shown, Hinting!Blank,
     Restarted!Projection!Blank, Hinting!NoRow, Restarted!Projection!NoRow, Hinting!NoCache,
     Restarted!Projection!NoCache
<1>5. \A w : Hinting!upsert_room_state(w) => Restarted!Projection!upsert_room_state(w)
  BY ZenonT(30) DEF Hinting!upsert_room_state, Restarted!Projection!upsert_room_state,
     Hinting!Fresh, Restarted!Projection!Fresh, Hinting!Merged, Restarted!Projection!Merged,
     Hinting!Changed, Restarted!Projection!Changed, Hinting!NoRow, Restarted!Projection!NoRow,
     Hinting!server, Restarted!Projection!server
<1>6. \A w : /\ Hinting!queue_state_hint(w) => Restarted!Projection!queue_state_hint(w)
             /\ Hinting!Fail(w) => Restarted!Projection!Fail(w)
  BY ZenonT(30) DEF Hinting!queue_state_hint, Restarted!Projection!queue_state_hint,
     Hinting!Fail, Restarted!Projection!Fail, Hinting!Overtaken,
     Restarted!Projection!Overtaken, Hinting!TrySend, Restarted!Projection!TrySend,
     Hinting!Idle, Restarted!Projection!Idle, Hinting!server, Restarted!Projection!server,
     Hinting!PrunedInCache, Restarted!Projection!PrunedInCache, Hinting!NoRow,
     Restarted!Projection!NoRow, Hinting!Blank, Restarted!Projection!Blank, Hinting!NoCache,
     Restarted!Projection!NoCache
<1>7. /\ Hinting!HandleRedaction => Restarted!Projection!HandleRedaction
      /\ Hinting!IngestSnapshot => Restarted!Projection!IngestSnapshot
      /\ Hinting!IngestCommit => Restarted!Projection!IngestCommit
  BY ZenonT(30) DEF Hinting!HandleRedaction, Restarted!Projection!HandleRedaction,
     Hinting!IngestSnapshot, Restarted!Projection!IngestSnapshot, Hinting!IngestCommit,
     Restarted!Projection!IngestCommit, Hinting!StoreRedaction,
     Restarted!Projection!StoreRedaction, Hinting!queue_redaction_hint,
     Restarted!Projection!queue_redaction_hint, Hinting!Shown, Restarted!Projection!Shown,
     Hinting!server, Restarted!Projection!server, Hinting!Blank, Restarted!Projection!Blank,
     Hinting!IsTarget, Restarted!Projection!IsTarget, Hinting!TrySend,
     Restarted!Projection!TrySend, Hinting!Idle, Restarted!Projection!Idle, Hinting!NoCache,
     Restarted!Projection!NoCache, Hinting!NoRow, Restarted!Projection!NoRow
<1>8. /\ Hinting!Tick => Restarted!Projection!Tick
      /\ Hinting!ReadCache => Restarted!Projection!ReadCache
      /\ Hinting!locally_redacted_state => Restarted!Projection!locally_redacted_state
  BY ZenonT(30) DEF Hinting!Tick, Restarted!Projection!Tick, Hinting!ReadCache,
     Restarted!Projection!ReadCache, Hinting!locally_redacted_state,
     Restarted!Projection!locally_redacted_state, Hinting!Rest, Restarted!Projection!Rest,
     Hinting!server, Restarted!Projection!server, Hinting!Scanning,
     Restarted!Projection!Scanning, Hinting!redaction_authorized,
     Restarted!Projection!redaction_authorized, Hinting!NoTx, Restarted!Projection!NoTx,
     Hinting!Blank, Restarted!Projection!Blank, Hinting!NoCache, Restarted!Projection!NoCache
<1>9. /\ Hinting!RoomDone => Restarted!Projection!RoomDone
      /\ Hinting!ApplyCommit => Restarted!Projection!ApplyCommit
      /\ Hinting!RepairTimeout => Restarted!Projection!RepairTimeout
  BY ZenonT(30) DEF Hinting!RoomDone, Restarted!Projection!RoomDone, Hinting!ApplyCommit,
     Restarted!Projection!ApplyCommit, Hinting!RepairTimeout,
     Restarted!Projection!RepairTimeout, Hinting!Scanning, Restarted!Projection!Scanning,
     Hinting!Rest, Restarted!Projection!Rest, Hinting!server, Restarted!Projection!server,
     Hinting!Repaired, Restarted!Projection!Repaired, Hinting!NoTx, Restarted!Projection!NoTx,
     Hinting!Blank, Restarted!Projection!Blank, Hinting!NoCache, Restarted!Projection!NoCache
<1> QED
  BY <1>1, <1>2, <1>3, <1>4, <1>5, <1>6, <1>7, <1>8, <1>9, Zenon DEF Hinting!Next,
     Restarted!Projection!Next, Hinting!Handle, Restarted!Projection!Handle, Hinting!Repair,
     Restarted!Projection!Repair, Hinting!Events, Restarted!Projection!Events,
     Hinting!Writers, Restarted!Projection!Writers

LEMMA RejoiningSteps == (Rejoining!Init => Restarted!Unread!Init) /\ (Rejoining!Next => Restarted!Unread!Next)
<1>1. Rejoining!Init => Restarted!Unread!Init
  BY Zenon DEF Rejoining!Init, Restarted!Unread!Init, Rejoining!NoSend,
     Restarted!Unread!NoSend, Rejoining!None, Restarted!Unread!None, Rejoining!Starting,
     Restarted!Unread!Starting, Rejoining!Off, Restarted!Unread!Off
<1>2. \A r : /\ Rejoining!Message(r) => Restarted!Unread!Message(r)
             /\ Rejoining!Read(r) => Restarted!Unread!Read(r)
             /\ Rejoining!Reload(r) => Restarted!Unread!Reload(r)
             /\ Rejoining!Tombstone(r) => Restarted!Unread!Tombstone(r)
  BY ZenonT(30) DEF Rejoining!Message, Restarted!Unread!Message, Rejoining!Read,
     Restarted!Unread!Read, Rejoining!Reload, Restarted!Unread!Reload, Rejoining!Tombstone,
     Restarted!Unread!Tombstone, Rejoining!Happens, Restarted!Unread!Happens, Rejoining!Sdk,
     Restarted!Unread!Sdk, Rejoining!Recounted, Restarted!Unread!Recounted,
     Rejoining!noteVars, Restarted!Unread!noteVars, Rejoining!watchVars,
     Restarted!Unread!watchVars, Rejoining!Heard, Restarted!Unread!Heard, Rejoining!Counted,
     Restarted!Unread!Counted, Rejoining!At, Restarted!Unread!At, Rejoining!Phantom,
     Restarted!Unread!Phantom
<1>3. \A r : /\ Rejoining!Leave(r) => Restarted!Unread!Leave(r)
             /\ Rejoining!Rejoin(r) => Restarted!Unread!Rejoin(r)
             /\ Rejoining!Purge(r) => Restarted!Unread!Purge(r)
             /\ Rejoining!Restore(r) => Restarted!Unread!Restore(r)
  BY ZenonT(30) DEF Rejoining!Leave, Restarted!Unread!Leave, Rejoining!Rejoin,
     Restarted!Unread!Rejoin, Rejoining!Purge, Restarted!Unread!Purge, Rejoining!Restore,
     Restarted!Unread!Restore, Rejoining!Happens, Restarted!Unread!Happens, Rejoining!Sdk,
     Restarted!Unread!Sdk, Rejoining!AnswerUnderWay, Restarted!Unread!AnswerUnderWay,
     Rejoining!noteVars, Restarted!Unread!noteVars, Rejoining!watchVars,
     Restarted!Unread!watchVars, Rejoining!Heard, Restarted!Unread!Heard, Rejoining!At,
     Restarted!Unread!At
<1>4. \A r, side : Rejoining!Unmatched(r, side) => Restarted!Unread!Unmatched(r, side)
  BY ZenonT(30) DEF Rejoining!Unmatched, Restarted!Unread!Unmatched, Rejoining!Happens,
     Restarted!Unread!Happens, Rejoining!Sdk, Restarted!Unread!Sdk, Rejoining!Recounted,
     Restarted!Unread!Recounted, Rejoining!noteVars, Restarted!Unread!noteVars,
     Rejoining!watchVars, Restarted!Unread!watchVars, Rejoining!Heard, Restarted!Unread!Heard,
     Rejoining!Counted, Restarted!Unread!Counted, Rejoining!At, Restarted!Unread!At,
     Rejoining!Phantom, Restarted!Unread!Phantom
<1>5. \A r : /\ Rejoining!Hydrate(r) => Restarted!Unread!Hydrate(r)
             /\ Rejoining!Sweep(r) => Restarted!Unread!Sweep(r)
             /\ Rejoining!HeardUpdate(r) => Restarted!Unread!HeardUpdate(r)
  BY ZenonT(30) DEF Rejoining!Hydrate, Restarted!Unread!Hydrate, Rejoining!Sweep,
     Restarted!Unread!Sweep, Rejoining!HeardUpdate, Restarted!Unread!HeardUpdate,
     Rejoining!noteVars, Restarted!Unread!noteVars, Rejoining!watchVars,
     Restarted!Unread!watchVars, Rejoining!At, Restarted!Unread!At, Rejoining!Off,
     Restarted!Unread!Off, Rejoining!Capture, Restarted!Unread!Capture, Rejoining!sdkVars,
     Restarted!Unread!sdkVars, Rejoining!Snapshot, Restarted!Unread!Snapshot,
     Rejoining!Suppressed, Restarted!Unread!Suppressed, Rejoining!Increased,
     Restarted!Unread!Increased, Rejoining!None, Restarted!Unread!None, Rejoining!Cardinality,
     Restarted!Unread!Cardinality
<1>6. \A r : /\ Rejoining!Evidence(r) => Restarted!Unread!Evidence(r)
             /\ Rejoining!Write(r) => Restarted!Unread!Write(r)
  BY ZenonT(30) DEF Rejoining!Evidence, Restarted!Unread!Evidence, Rejoining!Write,
     Restarted!Unread!Write, Rejoining!PendingStale, Restarted!Unread!PendingStale,
     Rejoining!NoFault, Restarted!Unread!NoFault, Rejoining!Off, Restarted!Unread!Off,
     Rejoining!Fault, Restarted!Unread!Fault, Rejoining!sdkVars, Restarted!Unread!sdkVars,
     Rejoining!noteVars, Restarted!Unread!noteVars
<1>7. \A s : Rejoining!NoteReachability(s) => Restarted!Unread!NoteReachability(s)
  BY ZenonT(30) DEF Rejoining!NoteReachability, Restarted!Unread!NoteReachability,
     Rejoining!NoSend, Restarted!Unread!NoSend, Rejoining!NoFault, Restarted!Unread!NoFault,
     Rejoining!ClearReconcile, Restarted!Unread!ClearReconcile, Rejoining!FlagSuspect,
     Restarted!Unread!FlagSuspect, Rejoining!Fault, Restarted!Unread!Fault, Rejoining!sdkVars,
     Restarted!Unread!sdkVars, Rejoining!watchVars, Restarted!Unread!watchVars,
     Rejoining!Delete, Restarted!Unread!Delete, Rejoining!Contains, Restarted!Unread!Contains,
     Rejoining!RemoveAt, Restarted!Unread!RemoveAt
<1>8. \A s, r : Rejoining!SendReadReceipt(s, r) => Restarted!Unread!SendReadReceipt(s, r)
  BY ZenonT(30) DEF Rejoining!SendReadReceipt, Restarted!Unread!SendReadReceipt,
     Rejoining!NoSend, Restarted!Unread!NoSend, Rejoining!sdkVars, Restarted!Unread!sdkVars,
     Rejoining!watchVars, Restarted!Unread!watchVars
<1>9. /\ Rejoining!Seed => Restarted!Unread!Seed
      /\ Rejoining!BeginStartup => Restarted!Unread!BeginStartup
      /\ Rejoining!SweepDone => Restarted!Unread!SweepDone
      /\ Rejoining!Tick => Restarted!Unread!Tick
  BY ZenonT(30) DEF Rejoining!Seed, Restarted!Unread!Seed, Rejoining!BeginStartup,
     Restarted!Unread!BeginStartup, Rejoining!SweepDone, Restarted!Unread!SweepDone,
     Rejoining!Tick, Restarted!Unread!Tick, Rejoining!At, Restarted!Unread!At,
     Rejoining!NoFault, Restarted!Unread!NoFault, Rejoining!Fault, Restarted!Unread!Fault,
     Rejoining!None, Restarted!Unread!None, Rejoining!sdkVars, Restarted!Unread!sdkVars,
     Rejoining!noteVars, Restarted!Unread!noteVars, Rejoining!Joined, Restarted!Unread!Joined,
     Rejoining!Off, Restarted!Unread!Off
<1>10. /\ Rejoining!Probe => Restarted!Unread!Probe
       /\ Rejoining!ApplyVerdict => Restarted!Unread!ApplyVerdict
       /\ Rejoining!Refresh => Restarted!Unread!Refresh
       /\ Rejoining!Prune => Restarted!Unread!Prune
  BY ZenonT(30) DEF Rejoining!Probe, Restarted!Unread!Probe, Rejoining!ApplyVerdict,
     Restarted!Unread!ApplyVerdict, Rejoining!Refresh, Restarted!Unread!Refresh,
     Rejoining!Prune, Restarted!Unread!Prune, Rejoining!At, Restarted!Unread!At,
     Rejoining!NoFault, Restarted!Unread!NoFault, Rejoining!VerdictOf,
     Restarted!Unread!VerdictOf, Rejoining!Fault, Restarted!Unread!Fault, Rejoining!sdkVars,
     Restarted!Unread!sdkVars, Rejoining!noteVars, Restarted!Unread!noteVars,
     Rejoining!Settle, Restarted!Unread!Settle, Rejoining!ApplyGoneRefresh,
     Restarted!Unread!ApplyGoneRefresh, Rejoining!Joined, Restarted!Unread!Joined,
     Rejoining!None, Restarted!Unread!None, Rejoining!MarkGone, Restarted!Unread!MarkGone,
     Rejoining!ClearReconcile, Restarted!Unread!ClearReconcile, Rejoining!Delete,
     Restarted!Unread!Delete, Rejoining!Contains, Restarted!Unread!Contains,
     Rejoining!RemoveAt, Restarted!Unread!RemoveAt
<1>11. /\ Rejoining!Lagged => Restarted!Unread!Lagged
       /\ Rejoining!Restart => Restarted!Unread!Restart
  BY ZenonT(30) DEF Rejoining!Lagged, Restarted!Unread!Lagged, Rejoining!Restart,
     Restarted!Unread!Restart, Rejoining!At, Restarted!Unread!At, Rejoining!Fault,
     Restarted!Unread!Fault, Rejoining!sdkVars, Restarted!Unread!sdkVars, Rejoining!noteVars,
     Restarted!Unread!noteVars, Rejoining!watchVars, Restarted!Unread!watchVars,
     Rejoining!NoSend, Restarted!Unread!NoSend, Rejoining!None, Restarted!Unread!None,
     Rejoining!Starting, Restarted!Unread!Starting, Rejoining!Off, Restarted!Unread!Off
<1> QED
  BY <1>1, <1>2, <1>3, <1>4, <1>5, <1>6, <1>7, <1>8, <1>9, <1>10, <1>11, Zenon DEF
     Rejoining!Next, Restarted!Unread!Next, Rejoining!RoomSteps, Restarted!Unread!RoomSteps,
     Rejoining!WatchSteps, Restarted!Unread!WatchSteps

\* Of "twice" and "purged".
Reconciled == INSTANCE RoomProofs WITH
  Events <- {e1}, MegolmOf <- [e \in {e1} |-> k1], RoomOf <- [e \in {e1} |-> r1],
  Backup <- {k1}, AlwaysAll <- FALSE, Faults <- {"early", "lag", "db", "download", "room"},
  MaxDeliveries <- 2, MaxRetries <- 1, MaxCrashes <- 1, events <- row,
  Types <- {}, SdkTypes <- {}, SuppTypes <- {}, DisplayTypes <- {}, NumEvents <- 0,
  TypeOf <- 0, Ts <- 0, Forbidden <- {}, MaxRedactions <- 0, MaxResets <- 0, Lossy <- FALSE,
  Failing <- FALSE, tuples <- row,
  Rooms <- {r1}, Senders <- {s1}, MaxCount <- 1, MaxChanges <- 5, MaxSends <- 4,
  MaxFaults <- 2, MaxRestarts <- 1, Happenings <- {"message", "purge", "restore"},
  ProbesPerSweep <- 1, Concurrency <- 1, Stubborn <- {}, SeedFails <- FALSE, Flaky <- FALSE,
  LostAcks <- FALSE, infos <- room, counts <- row, captures <- cap,
  overtaken <- late

LEMMA TwiceSteps == (Twice!Init => Reconciled!Timeline!Init) /\ (Twice!Next => Reconciled!Timeline!Next)
<1>1. Twice!Init => Reconciled!Timeline!Init
  BY Zenon DEF Twice!Init, Reconciled!Timeline!Init, Twice!Listens,
     Reconciled!Timeline!Listens, Twice!Workers, Reconciled!Timeline!Workers, Twice!Idle,
     Reconciled!Timeline!Idle, Twice!Ingest, Reconciled!Timeline!Ingest, Twice!Sweeps,
     Reconciled!Timeline!Sweeps
<1>2. \A w : /\ Twice!Persist(w) => Reconciled!Timeline!Persist(w)
             /\ Twice!Load(w) => Reconciled!Timeline!Load(w)
             /\ Twice!EnterRoom(w) => Reconciled!Timeline!EnterRoom(w)
             /\ Twice!EndSweep(w) => Reconciled!Timeline!EndSweep(w)
  BY ZenonT(30) DEF Twice!Persist, Reconciled!Timeline!Persist, Twice!Load,
     Reconciled!Timeline!Load, Twice!EnterRoom, Reconciled!Timeline!EnterRoom,
     Twice!EndSweep, Reconciled!Timeline!EndSweep, Twice!Marks, Reconciled!Timeline!Marks,
     Twice!Upsert, Reconciled!Timeline!Upsert, Twice!EventOf, Reconciled!Timeline!EventOf,
     Twice!Set, Reconciled!Timeline!Set, Twice!SecondLook, Reconciled!Timeline!SecondLook,
     Twice!Idle, Reconciled!Timeline!Idle, Twice!bounds, Reconciled!Timeline!bounds,
     Twice!Selected, Reconciled!Timeline!Selected, Twice!Rooms, Reconciled!Timeline!Rooms,
     Twice!RowsIn, Reconciled!Timeline!RowsIn, Twice!Import, Reconciled!Timeline!Import,
     Twice!Utd, Reconciled!Timeline!Utd, Twice!Ingest, Reconciled!Timeline!Ingest,
     Twice!Cardinality, Reconciled!Timeline!Cardinality
<1>3. \A w : /\ Twice!Decrypt(w) => Reconciled!Timeline!Decrypt(w)
             /\ Twice!Update(w) => Reconciled!Timeline!Update(w)
             /\ Twice!TakeRow(w) => Reconciled!Timeline!TakeRow(w)
             /\ Twice!LeaveRows(w) => Reconciled!Timeline!LeaveRows(w)
             /\ Twice!Receive(w) => Reconciled!Timeline!Receive(w)
  BY ZenonT(30) DEF Twice!Decrypt, Reconciled!Timeline!Decrypt, Twice!Update,
     Reconciled!Timeline!Update, Twice!TakeRow, Reconciled!Timeline!TakeRow,
     Twice!LeaveRows, Reconciled!Timeline!LeaveRows, Twice!Receive,
     Reconciled!Timeline!Receive, Twice!Set, Reconciled!Timeline!Set, Twice!Keyed,
     Reconciled!Timeline!Keyed, Twice!EventOf, Reconciled!Timeline!EventOf, Twice!bounds,
     Reconciled!Timeline!bounds, Twice!Utd, Reconciled!Timeline!Utd, Twice!Following,
     Reconciled!Timeline!Following, Twice!Within, Reconciled!Timeline!Within, Twice!Idle,
     Reconciled!Timeline!Idle, Twice!Ingest, Reconciled!Timeline!Ingest, Twice!RowsIn,
     Reconciled!Timeline!RowsIn
<1>4. /\ Twice!Drain => Reconciled!Timeline!Drain
      /\ Twice!Mark => Reconciled!Timeline!Mark
      /\ Twice!KeyArrives => Reconciled!Timeline!KeyArrives
      /\ Twice!Subscribe => Reconciled!Timeline!Subscribe
  BY ZenonT(30) DEF Twice!Drain, Reconciled!Timeline!Drain, Twice!Mark,
     Reconciled!Timeline!Mark, Twice!KeyArrives, Reconciled!Timeline!KeyArrives,
     Twice!Subscribe, Reconciled!Timeline!Subscribe, Twice!Set, Reconciled!Timeline!Set,
     Twice!Idle, Reconciled!Timeline!Idle, Twice!Utd, Reconciled!Timeline!Utd, Twice!bounds,
     Reconciled!Timeline!bounds, Twice!Attempted, Reconciled!Timeline!Attempted,
     Twice!Sessions, Reconciled!Timeline!Sessions, Twice!Import, Reconciled!Timeline!Import,
     Twice!Ingest, Reconciled!Timeline!Ingest, Twice!Cardinality,
     Reconciled!Timeline!Cardinality
<1>5. /\ Twice!Lag => Reconciled!Timeline!Lag
      /\ Twice!Retry => Reconciled!Timeline!Retry
      /\ Twice!Timeout => Reconciled!Timeline!Timeout
      /\ Twice!Restart => Reconciled!Timeline!Restart
  BY ZenonT(30) DEF Twice!Lag, Reconciled!Timeline!Lag, Twice!Retry,
     Reconciled!Timeline!Retry, Twice!Timeout, Reconciled!Timeline!Timeout, Twice!Restart,
     Reconciled!Timeline!Restart, Twice!bounds, Reconciled!Timeline!bounds, Twice!Set,
     Reconciled!Timeline!Set, Twice!Idle, Reconciled!Timeline!Idle, Twice!Steps,
     Reconciled!Timeline!Steps, Twice!Listens, Reconciled!Timeline!Listens, Twice!Workers,
     Reconciled!Timeline!Workers, Twice!Ingest, Reconciled!Timeline!Ingest, Twice!Sweeps,
     Reconciled!Timeline!Sweeps
<1> QED
  BY <1>1, <1>2, <1>3, <1>4, <1>5, Zenon DEF Twice!Next, Reconciled!Timeline!Next,
     Twice!Work, Reconciled!Timeline!Work, Twice!Workers, Reconciled!Timeline!Workers,
     Twice!Ingest, Reconciled!Timeline!Ingest, Twice!Sweeps, Reconciled!Timeline!Sweeps

LEMMA PurgedSteps == (Purged!Init => Reconciled!Unread!Init) /\ (Purged!Next => Reconciled!Unread!Next)
<1>1. Purged!Init => Reconciled!Unread!Init
  BY Zenon DEF Purged!Init, Reconciled!Unread!Init, Purged!NoSend, Reconciled!Unread!NoSend,
     Purged!None, Reconciled!Unread!None, Purged!Starting, Reconciled!Unread!Starting,
     Purged!Off, Reconciled!Unread!Off
<1>2. \A r : /\ Purged!Message(r) => Reconciled!Unread!Message(r)
             /\ Purged!Read(r) => Reconciled!Unread!Read(r)
             /\ Purged!Reload(r) => Reconciled!Unread!Reload(r)
             /\ Purged!Tombstone(r) => Reconciled!Unread!Tombstone(r)
  BY ZenonT(30) DEF Purged!Message, Reconciled!Unread!Message, Purged!Read,
     Reconciled!Unread!Read, Purged!Reload, Reconciled!Unread!Reload, Purged!Tombstone,
     Reconciled!Unread!Tombstone, Purged!Happens, Reconciled!Unread!Happens, Purged!Sdk,
     Reconciled!Unread!Sdk, Purged!Recounted, Reconciled!Unread!Recounted, Purged!noteVars,
     Reconciled!Unread!noteVars, Purged!watchVars, Reconciled!Unread!watchVars, Purged!Heard,
     Reconciled!Unread!Heard, Purged!Counted, Reconciled!Unread!Counted, Purged!At,
     Reconciled!Unread!At, Purged!Phantom, Reconciled!Unread!Phantom
<1>3. \A r : /\ Purged!Leave(r) => Reconciled!Unread!Leave(r)
             /\ Purged!Rejoin(r) => Reconciled!Unread!Rejoin(r)
             /\ Purged!Purge(r) => Reconciled!Unread!Purge(r)
             /\ Purged!Restore(r) => Reconciled!Unread!Restore(r)
  BY ZenonT(30) DEF Purged!Leave, Reconciled!Unread!Leave, Purged!Rejoin,
     Reconciled!Unread!Rejoin, Purged!Purge, Reconciled!Unread!Purge, Purged!Restore,
     Reconciled!Unread!Restore, Purged!Happens, Reconciled!Unread!Happens, Purged!Sdk,
     Reconciled!Unread!Sdk, Purged!AnswerUnderWay, Reconciled!Unread!AnswerUnderWay,
     Purged!noteVars, Reconciled!Unread!noteVars, Purged!watchVars,
     Reconciled!Unread!watchVars, Purged!Heard, Reconciled!Unread!Heard, Purged!At,
     Reconciled!Unread!At
<1>4. \A r, side : Purged!Unmatched(r, side) => Reconciled!Unread!Unmatched(r, side)
  BY ZenonT(30) DEF Purged!Unmatched, Reconciled!Unread!Unmatched, Purged!Happens,
     Reconciled!Unread!Happens, Purged!Sdk, Reconciled!Unread!Sdk, Purged!Recounted,
     Reconciled!Unread!Recounted, Purged!noteVars, Reconciled!Unread!noteVars,
     Purged!watchVars, Reconciled!Unread!watchVars, Purged!Heard, Reconciled!Unread!Heard,
     Purged!Counted, Reconciled!Unread!Counted, Purged!At, Reconciled!Unread!At,
     Purged!Phantom, Reconciled!Unread!Phantom
<1>5. \A r : /\ Purged!Hydrate(r) => Reconciled!Unread!Hydrate(r)
             /\ Purged!Sweep(r) => Reconciled!Unread!Sweep(r)
             /\ Purged!HeardUpdate(r) => Reconciled!Unread!HeardUpdate(r)
  BY ZenonT(30) DEF Purged!Hydrate, Reconciled!Unread!Hydrate, Purged!Sweep,
     Reconciled!Unread!Sweep, Purged!HeardUpdate, Reconciled!Unread!HeardUpdate,
     Purged!noteVars, Reconciled!Unread!noteVars, Purged!watchVars,
     Reconciled!Unread!watchVars, Purged!At, Reconciled!Unread!At, Purged!Off,
     Reconciled!Unread!Off, Purged!Capture, Reconciled!Unread!Capture, Purged!sdkVars,
     Reconciled!Unread!sdkVars, Purged!Snapshot, Reconciled!Unread!Snapshot,
     Purged!Suppressed, Reconciled!Unread!Suppressed, Purged!Increased,
     Reconciled!Unread!Increased, Purged!None, Reconciled!Unread!None, Purged!Cardinality,
     Reconciled!Unread!Cardinality
<1>6. \A r : /\ Purged!Evidence(r) => Reconciled!Unread!Evidence(r)
             /\ Purged!Write(r) => Reconciled!Unread!Write(r)
  BY ZenonT(30) DEF Purged!Evidence, Reconciled!Unread!Evidence, Purged!Write,
     Reconciled!Unread!Write, Purged!PendingStale, Reconciled!Unread!PendingStale,
     Purged!NoFault, Reconciled!Unread!NoFault, Purged!Off, Reconciled!Unread!Off,
     Purged!Fault, Reconciled!Unread!Fault, Purged!sdkVars, Reconciled!Unread!sdkVars,
     Purged!noteVars, Reconciled!Unread!noteVars
<1>7. \A s : Purged!NoteReachability(s) => Reconciled!Unread!NoteReachability(s)
  BY ZenonT(30) DEF Purged!NoteReachability, Reconciled!Unread!NoteReachability,
     Purged!NoSend, Reconciled!Unread!NoSend, Purged!NoFault, Reconciled!Unread!NoFault,
     Purged!ClearReconcile, Reconciled!Unread!ClearReconcile, Purged!FlagSuspect,
     Reconciled!Unread!FlagSuspect, Purged!Fault, Reconciled!Unread!Fault, Purged!sdkVars,
     Reconciled!Unread!sdkVars, Purged!watchVars, Reconciled!Unread!watchVars, Purged!Delete,
     Reconciled!Unread!Delete, Purged!Contains, Reconciled!Unread!Contains, Purged!RemoveAt,
     Reconciled!Unread!RemoveAt
<1>8. \A s, r : Purged!SendReadReceipt(s, r) => Reconciled!Unread!SendReadReceipt(s, r)
  BY ZenonT(30) DEF Purged!SendReadReceipt, Reconciled!Unread!SendReadReceipt, Purged!NoSend,
     Reconciled!Unread!NoSend, Purged!sdkVars, Reconciled!Unread!sdkVars, Purged!watchVars,
     Reconciled!Unread!watchVars
<1>9. /\ Purged!Seed => Reconciled!Unread!Seed
      /\ Purged!BeginStartup => Reconciled!Unread!BeginStartup
      /\ Purged!SweepDone => Reconciled!Unread!SweepDone
      /\ Purged!Tick => Reconciled!Unread!Tick
  BY ZenonT(30) DEF Purged!Seed, Reconciled!Unread!Seed, Purged!BeginStartup,
     Reconciled!Unread!BeginStartup, Purged!SweepDone, Reconciled!Unread!SweepDone,
     Purged!Tick, Reconciled!Unread!Tick, Purged!At, Reconciled!Unread!At, Purged!NoFault,
     Reconciled!Unread!NoFault, Purged!Fault, Reconciled!Unread!Fault, Purged!None,
     Reconciled!Unread!None, Purged!sdkVars, Reconciled!Unread!sdkVars, Purged!noteVars,
     Reconciled!Unread!noteVars, Purged!Joined, Reconciled!Unread!Joined, Purged!Off,
     Reconciled!Unread!Off
<1>10. /\ Purged!Probe => Reconciled!Unread!Probe
       /\ Purged!ApplyVerdict => Reconciled!Unread!ApplyVerdict
       /\ Purged!Refresh => Reconciled!Unread!Refresh
       /\ Purged!Prune => Reconciled!Unread!Prune
  BY ZenonT(30) DEF Purged!Probe, Reconciled!Unread!Probe, Purged!ApplyVerdict,
     Reconciled!Unread!ApplyVerdict, Purged!Refresh, Reconciled!Unread!Refresh, Purged!Prune,
     Reconciled!Unread!Prune, Purged!At, Reconciled!Unread!At, Purged!NoFault,
     Reconciled!Unread!NoFault, Purged!VerdictOf, Reconciled!Unread!VerdictOf, Purged!Fault,
     Reconciled!Unread!Fault, Purged!sdkVars, Reconciled!Unread!sdkVars, Purged!noteVars,
     Reconciled!Unread!noteVars, Purged!Settle, Reconciled!Unread!Settle,
     Purged!ApplyGoneRefresh, Reconciled!Unread!ApplyGoneRefresh, Purged!Joined,
     Reconciled!Unread!Joined, Purged!None, Reconciled!Unread!None, Purged!MarkGone,
     Reconciled!Unread!MarkGone, Purged!ClearReconcile, Reconciled!Unread!ClearReconcile,
     Purged!Delete, Reconciled!Unread!Delete, Purged!Contains, Reconciled!Unread!Contains,
     Purged!RemoveAt, Reconciled!Unread!RemoveAt
<1>11. /\ Purged!Lagged => Reconciled!Unread!Lagged
       /\ Purged!Restart => Reconciled!Unread!Restart
  BY ZenonT(30) DEF Purged!Lagged, Reconciled!Unread!Lagged, Purged!Restart,
     Reconciled!Unread!Restart, Purged!At, Reconciled!Unread!At, Purged!Fault,
     Reconciled!Unread!Fault, Purged!sdkVars, Reconciled!Unread!sdkVars, Purged!noteVars,
     Reconciled!Unread!noteVars, Purged!watchVars, Reconciled!Unread!watchVars, Purged!NoSend,
     Reconciled!Unread!NoSend, Purged!None, Reconciled!Unread!None, Purged!Starting,
     Reconciled!Unread!Starting, Purged!Off, Reconciled!Unread!Off
<1> QED
  BY <1>1, <1>2, <1>3, <1>4, <1>5, <1>6, <1>7, <1>8, <1>9, <1>10, <1>11, Zenon DEF
     Purged!Next, Reconciled!Unread!Next, Purged!RoomSteps, Reconciled!Unread!RoomSteps,
     Purged!WatchSteps, Reconciled!Unread!WatchSteps

\* The constants of the proofs are those of the scenes: one session, and a stream and a
\* store that do not fail; one receipt at a time.
LEMMA ProofAssumptions ==
  /\ Restored!Timeline!RedecryptAssumption /\ Restarted!Timeline!RedecryptAssumption
  /\ Reconciled!Timeline!RedecryptAssumption
  /\ Restored!IsFiniteSet(Restored!Timeline!Sessions)
  /\ Restarted!IsFiniteSet(Restarted!Timeline!Sessions)
  /\ Reconciled!IsFiniteSet(Reconciled!Timeline!Sessions)
  /\ Restored!Reliable /\ Restarted!Reliable
  /\ Restored!Projection!StateProjectionAssumption
  /\ Restarted!Projection!StateProjectionAssumption /\ Restarted!Hinted
  /\ Restored!Unread!UnreadCountsAssumption /\ Restarted!Unread!UnreadCountsAssumption
  /\ Reconciled!Unread!UnreadCountsAssumption /\ Reconciled!OneReceipt
<1>1. /\ Restored!Timeline!RedecryptAssumption /\ Restarted!Timeline!RedecryptAssumption
      /\ Reconciled!Timeline!RedecryptAssumption
  BY EveryInstance DEF FromBackup!RedecryptAssumption, Restarting!RedecryptAssumption,
     Twice!RedecryptAssumption, Restored!Timeline!RedecryptAssumption,
     Restarted!Timeline!RedecryptAssumption, Reconciled!Timeline!RedecryptAssumption
<1>2. /\ \A S : IsFiniteSet(S) => Restored!IsFiniteSet(S)
      /\ \A S : IsFiniteSet(S) => Restarted!IsFiniteSet(S)
      /\ \A S : IsFiniteSet(S) => Reconciled!IsFiniteSet(S)
  BY Zenon DEF IsFiniteSet, Restored!IsFiniteSet, Restarted!IsFiniteSet, Reconciled!IsFiniteSet
<1>3. /\ Restored!Timeline!Sessions = {k1} /\ Restarted!Timeline!Sessions = {k1}
      /\ Reconciled!Timeline!Sessions = {k1}
  BY DEF Restored!Timeline!Sessions, Restarted!Timeline!Sessions, Reconciled!Timeline!Sessions
<1>4. IsFiniteSet({k1})
  BY FS_Singleton
<1>5. Restored!Reliable /\ Restarted!Reliable
  BY DEF Restored!Reliable, Restarted!Reliable
<1>6. /\ Restored!Projection!StateProjectionAssumption
      /\ Restarted!Projection!StateProjectionAssumption
  BY EveryInstance DEF Pruning!StateProjectionAssumption, Hinting!StateProjectionAssumption,
     Restored!Projection!StateProjectionAssumption, Restarted!Projection!StateProjectionAssumption,
     Pruning!Events, Restored!Projection!Events, Hinting!Events, Restarted!Projection!Events
<1>7. Restarted!Hinted
  BY DEF Restarted!Hinted
<1>8. /\ Restored!Unread!UnreadCountsAssumption /\ Restarted!Unread!UnreadCountsAssumption
      /\ Reconciled!Unread!UnreadCountsAssumption
  BY EveryInstance DEF Unmatched!UnreadCountsAssumption, Rejoining!UnreadCountsAssumption,
     Purged!UnreadCountsAssumption, Restored!Unread!UnreadCountsAssumption,
     Restarted!Unread!UnreadCountsAssumption, Reconciled!Unread!UnreadCountsAssumption,
     Unmatched!AllKinds, Rejoining!AllKinds, Purged!AllKinds, Restored!Unread!AllKinds,
     Restarted!Unread!AllKinds, Reconciled!Unread!AllKinds
<1>9. Reconciled!OneReceipt
  BY DEF Reconciled!OneReceipt
<1> QED
  BY <1>1, <1>2, <1>3, <1>4, <1>5, <1>6, <1>7, <1>8, <1>9

-----------------------------------------------------------------------------
(* The scenes.                                                               *)

\* The types and the marks, and who will decrypt a row whose key has come; what is pruned,
\* and who will hint at a tuple that is not; what is
\* counted, kept, pinned to zero and gone.
SceneInv ==
  /\ scene = "backup" => Restored!RedecryptInv /\ Restored!LiveInv
  /\ scene = "restarting" => Restarted!RedecryptInv /\ Restarted!LiveInv
  /\ scene = "twice" => Reconciled!RedecryptInv
  /\ scene = "pruning" => Restored!ProjectionInv
  /\ scene = "hinting" => Restarted!ProjectionInv /\ Restarted!HintInv
  /\ scene = "unmatched" => Restored!UnreadInv /\ Restored!HeldInv
  /\ scene = "rejoining" => Restarted!UnreadInv
  /\ scene = "purged" => Reconciled!UnreadInv /\ Reconciled!PinInv /\ Reconciled!BackInv

\* A step of the run is a step of its scene.
LEMMA SceneSteps ==
  ASSUME [Next]_vars
  PROVE  /\ scene' = scene
         /\ scene = "backup" => [FromBackup!Next]_FromBackup!vars
         /\ scene = "restarting" => [Restarting!Next]_Restarting!vars
         /\ scene = "twice" => [Twice!Next]_Twice!vars
         /\ scene = "pruning" => [Pruning!Next]_Pruning!vars
         /\ scene = "hinting" => [Hinting!Next]_Hinting!vars
         /\ scene = "unmatched" => [Unmatched!Next]_Unmatched!vars
         /\ scene = "rejoining" => [Rejoining!Next]_Rejoining!vars
         /\ scene = "purged" => [Purged!Next]_Purged!vars
<1>1. CASE UNCHANGED vars
  BY <1>1 DEF vars, FromBackup!vars, Restarting!vars, Twice!vars, Pruning!vars, Hinting!vars,
     Unmatched!vars, Unmatched!sdkVars, Unmatched!noteVars, Unmatched!watchVars,
     Rejoining!vars, Rejoining!sdkVars, Rejoining!noteVars, Rejoining!watchVars,
     Purged!vars, Purged!sdkVars, Purged!noteVars, Purged!watchVars
<1>2. CASE Next
  <2>1. /\ UNCHANGED roomDetailsElse => UNCHANGED scene
        /\ UNCHANGED memberCountsElse => UNCHANGED scene
        /\ UNCHANGED stateProjectionElse => UNCHANGED scene
        /\ UNCHANGED unreadCountsElse => UNCHANGED scene
        /\ UNCHANGED invitesElse => UNCHANGED scene
        /\ UNCHANGED redecryptElse => UNCHANGED scene
    BY DEF roomDetailsElse, memberCountsElse, stateProjectionElse, unreadCountsElse,
       invitesElse, redecryptElse
  <2>2. \/ UNCHANGED roomDetailsElse
        \/ UNCHANGED memberCountsElse
        \/ UNCHANGED stateProjectionElse
        \/ UNCHANGED unreadCountsElse
        \/ UNCHANGED invitesElse
        \/ UNCHANGED redecryptElse
    BY <1>2 DEF Next
  <2> QED
    BY <1>2, <2>1, <2>2 DEF Next
<1> QED
  BY <1>1, <1>2

LEMMA SceneStarts == Init => SceneInv
<1> SUFFICES ASSUME Init PROVE SceneInv
  OBVIOUS
<1>1. /\ scene = "backup" => FromBackup!Init
      /\ scene = "restarting" => Restarting!Init
      /\ scene = "twice" => Twice!Init
      /\ scene = "pruning" => Pruning!Init
      /\ scene = "hinting" => Hinting!Init
      /\ scene = "unmatched" => Unmatched!Init
      /\ scene = "rejoining" => Rejoining!Init
      /\ scene = "purged" => Purged!Init
  BY DEF Init
<1> QED
  BY <1>1, ProofAssumptions, FromBackupSteps, RestartingSteps, TwiceSteps,
     Restored!RedecryptStarts, Restarted!RedecryptStarts, Reconciled!RedecryptStarts,
     Restored!LiveStarts, Restarted!LiveStarts, PruningSteps,
     HintingSteps, Restored!ProjectionStarts, Restarted!ProjectionStarts, Restarted!HintStarts,
     UnmatchedSteps, RejoiningSteps, PurgedSteps, Restored!UnreadStarts,
     Restored!HeldStarts, Restarted!UnreadStarts, Reconciled!UnreadStarts,
     Reconciled!PinStarts, Reconciled!BackStarts
     DEF SceneInv

LEMMA SceneKeeps == SceneInv /\ [Next]_vars => SceneInv'
<1> SUFFICES ASSUME SceneInv, [Next]_vars PROVE SceneInv'
  OBVIOUS
<1>1. scene' = scene
  BY SceneSteps
<1>2. scene = "backup" => [Restored!Timeline!Next]_Restored!Timeline!vars
  BY SceneSteps, FromBackupSteps DEF FromBackup!vars, Restored!Timeline!vars
<1>3. scene = "restarting" => [Restarted!Timeline!Next]_Restarted!Timeline!vars
  BY SceneSteps, RestartingSteps DEF Restarting!vars, Restarted!Timeline!vars
<1>4. scene = "pruning" => [Restored!Projection!Next]_Restored!Projection!vars
  BY SceneSteps, PruningSteps DEF Pruning!vars, Restored!Projection!vars
<1>5. scene = "hinting" => [Restarted!Projection!Next]_Restarted!Projection!vars
  BY SceneSteps, HintingSteps DEF Hinting!vars, Restarted!Projection!vars
<1>6. scene = "unmatched" => [Restored!Unread!Next]_Restored!Unread!vars
  BY SceneSteps, UnmatchedSteps DEF Unmatched!vars, Restored!Unread!vars, Unmatched!sdkVars,
     Restored!Unread!sdkVars, Unmatched!noteVars, Restored!Unread!noteVars,
     Unmatched!watchVars, Restored!Unread!watchVars
<1>7. scene = "rejoining" => [Restarted!Unread!Next]_Restarted!Unread!vars
  BY SceneSteps, RejoiningSteps DEF Rejoining!vars, Restarted!Unread!vars, Rejoining!sdkVars,
     Restarted!Unread!sdkVars, Rejoining!noteVars, Restarted!Unread!noteVars,
     Rejoining!watchVars, Restarted!Unread!watchVars
<1>8. scene = "purged" => [Reconciled!Unread!Next]_Reconciled!Unread!vars
  BY SceneSteps, PurgedSteps DEF Purged!vars, Reconciled!Unread!vars, Purged!sdkVars,
     Reconciled!Unread!sdkVars, Purged!noteVars, Reconciled!Unread!noteVars, Purged!watchVars,
     Reconciled!Unread!watchVars
<1>9. scene = "twice" => [Reconciled!Timeline!Next]_Reconciled!Timeline!vars
  BY SceneSteps, TwiceSteps DEF Twice!vars, Reconciled!Timeline!vars
<1> QED
  BY <1>1, <1>2, <1>3, <1>4, <1>5, <1>6, <1>7, <1>8, <1>9, ProofAssumptions,
     Restored!RedecryptNext, Restarted!RedecryptNext, Reconciled!RedecryptNext,
     Restored!LiveNext, Restarted!LiveNext, Restored!ProjectionNext,
     Restarted!ProjectionNext, Restarted!HintNext, Restored!UnreadNext, Restored!HeldNext,
     Restarted!UnreadNext, Reconciled!UnreadNext, Reconciled!PinNext, Reconciled!BackNext DEF
     SceneInv

-----------------------------------------------------------------------------
(* What the run checks of the scenes.                                        *)

\* Rows without content are tried when their key comes, by the drain, by the second look of
\* live ingestion or by a sweep, and a boot passes over none that no sweep has tried
\* (run, recheck_persisted_utd, sweep_pending_utds).
THEOREM RetriedCorrect == Spec => []RowsAreRetried
<1>1. SceneInv => RowsAreRetried
  <2> SUFFICES ASSUME SceneInv PROVE RowsAreRetried
    OBVIOUS
  <2>1. /\ scene = "backup" => Restored!Timeline!LiveIsDecrypted
        /\ scene = "restarting" => Restarted!Timeline!LiveIsDecrypted
    BY Restored!LiveMeans, Restarted!LiveMeans DEF SceneInv
  <2>2. scene = "twice" => marked \subseteq swept
    BY DEF SceneInv, Reconciled!RedecryptInv, Reconciled!RedecryptTypes
  <2> QED
    BY <2>1, <2>2 DEF RowsAreRetried, LiveIsDecrypted, MarkedWasTried,
       Twice!MarkedWasTried, FromBackup!LiveIsDecrypted,
       Restored!Timeline!LiveIsDecrypted, FromBackup!Quiet, Restored!Timeline!Quiet,
       FromBackup!Keyed, Restored!Timeline!Keyed, FromBackup!Workers,
       Restored!Timeline!Workers, FromBackup!Ingest, Restored!Timeline!Ingest,
       FromBackup!Sweeps, Restored!Timeline!Sweeps, Restarting!LiveIsDecrypted,
       Restarted!Timeline!LiveIsDecrypted, Restarting!Quiet, Restarted!Timeline!Quiet,
       Restarting!Keyed, Restarted!Timeline!Keyed, Restarting!Workers,
       Restarted!Timeline!Workers, Restarting!Ingest, Restarted!Timeline!Ingest,
       Restarting!Sweeps, Restarted!Timeline!Sweeps
<1> QED
  BY <1>1, SceneStarts, SceneKeeps, PTL DEF Spec

\* Redactions reach the tuples they name, soon, and no others: only content that the
\* homeserver redacted is pruned, and a tuple that shows what the SDK has pruned has a
\* repair hinted (queue_state_hint, queue_redaction_hint, reconcile_redacted_room_state).
THEOREM RedactionsCorrect == Spec => []RedactionsReach
<1>1. SceneInv => RedactionsReach
  <2> SUFFICES ASSUME SceneInv PROVE RedactionsReach
    OBVIOUS
  <2>1. scene = "pruning" => Restored!Projection!PrunedIsRedacted
    BY DEF SceneInv, Restored!ProjectionInv, Restored!OnlyRedacted,
       Restored!Projection!PrunedIsRedacted
  <2>2. scene = "hinting" => Restarted!Projection!RepairIsHinted
    BY Restarted!HintMeans DEF SceneInv
  <2> QED
    BY <2>1, <2>2, Zenon DEF RedactionsReach, PrunedIsRedacted, RepairIsHinted,
       Pruning!PrunedIsRedacted, Restored!Projection!PrunedIsRedacted, Pruning!Applied,
       Restored!Projection!Applied, Hinting!RepairIsHinted,
       Restarted!Projection!RepairIsHinted, Hinting!Quiet, Restarted!Projection!Quiet,
       Hinting!Stale, Restarted!Projection!Stale, Hinting!Writers,
       Restarted!Projection!Writers, Hinting!Free, Restarted!Projection!Free,
       Hinting!PrunedInCache, Restarted!Projection!PrunedInCache,
       Hinting!redaction_authorized, Restarted!Projection!redaction_authorized, Hinting!Idle,
       Restarted!Projection!Idle, Hinting!NoRow, Restarted!Projection!NoRow, Hinting!Blank,
       Restarted!Projection!Blank, Hinting!NoCache, Restarted!Projection!NoCache
<1> QED
  BY <1>1, SceneStarts, SceneKeeps, PTL DEF Spec

\* Every increase of an unread count, every row that is kept and every count that is pinned to
\* zero rests on what the homeserver or the SDK has said of that room (unread_after, sweep_unread_counts,
\* apply_gone_upstream_refresh, mark_room_upstream_gone).
THEOREM UnreadCorrect == Spec => []UnreadIsBacked
<1>1. SceneInv => UnreadIsBacked
  <2> SUFFICES ASSUME SceneInv PROVE UnreadIsBacked
    OBVIOUS
  <2>1. scene = "unmatched" => Restored!Unread!HeldIsNotWritten
    BY DEF SceneInv, Restored!HeldInv
  <2>2. scene = "rejoining" => Restarted!Unread!JoinedRowsKept
    BY DEF SceneInv, Restarted!UnreadInv, Restarted!Kept
  <2>3. scene = "purged" => Reconciled!Unread!PinnedStaysZero
    BY DEF SceneInv, Reconciled!PinInv, Reconciled!UnreadInv, Reconciled!UnreadTypes,
       Reconciled!Unread!PinnedStaysZero
  <2>4. scene = "purged" => Reconciled!Unread!GoneIsBacked
    BY DEF SceneInv, Reconciled!BackInv
  <2> QED
    BY <2>1, <2>2, <2>3, <2>4, Zenon DEF UnreadIsBacked, HeldIsNotWritten, JoinedRowsKept,
       PinnedStaysZero, GoneIsBacked, Unmatched!HeldIsNotWritten,
       Restored!Unread!HeldIsNotWritten, Unmatched!Increased, Restored!Unread!Increased,
       Unmatched!None, Restored!Unread!None, Rejoining!JoinedRowsKept,
       Restarted!Unread!JoinedRowsKept, Rejoining!None, Restarted!Unread!None,
       Purged!PinnedStaysZero, Reconciled!Unread!PinnedStaysZero, Purged!GoneIsBacked,
       Reconciled!Unread!GoneIsBacked, Purged!None, Reconciled!Unread!None
<1> QED
  BY <1>1, SceneStarts, SceneKeeps, PTL DEF Spec
=============================================================================
