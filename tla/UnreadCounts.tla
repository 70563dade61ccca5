---------------------------- MODULE UnreadCounts ----------------------------
(***************************************************************************)
(* The watcher that copies the SDK's unread counts to room_unread_counts    *)
(* (axon-sync/src/engine.rs over axon-store/src/unread.rs) and the verdict  *)
(* on rooms the homeserver no longer serves that pins their counts to zero  *)
(* (axon-store/src/upstream_reconcile.rs): read receipts that fail flag a   *)
(* room, probes of the watcher settle it, receipts that succeed clear it.   *)
(*                                                                          *)
(* The SDK and the homeserver are external. A pair of counts is one number. *)
(* The SDK's number is right when the receipt it counts from is in its      *)
(* chunk of the timeline and none it could not match lies ahead; otherwise  *)
(* it counts everything it holds, which is Phantom here.                    *)
(***************************************************************************)
EXTENDS Naturals, Sequences, FiniteSets, SequencesExt

CONSTANTS
  Rooms,
  Senders,        \* read receipts under way at the same time
  MaxCount,       \* messages of a room that can be unread
  MaxChanges,     \* changes of the SDK's rooms and of the homeserver's
  MaxSends,
  MaxFaults,      \* steps that fail
  MaxRestarts,
  Kinds,          \* the changes that happen, of AllKinds
  ProbesPerSweep, \* UPSTREAM_PROBES_PER_SWEEP (8)
  Concurrency,    \* UNREAD_COUNTS_SWEEP_CONCURRENCY (8)
  Stubborn,       \* rooms whose probe the homeserver always fails
  SeedFails,      \* whether the first read of the verdicts can fail
  Flaky,          \* whether a receipt can fail in a room that is served
  LostAcks        \* whether a write can fail after its commit

AllKinds == {"message", "read", "unmatched", "reload", "tombstone", "leave",
             "rejoin", "purge", "restore"}

UnreadCountsAssumption ==
  /\ {MaxCount, MaxChanges, MaxSends, MaxFaults, MaxRestarts} \subseteq Nat
  /\ {ProbesPerSweep, Concurrency} \subseteq Nat \ {0}
  /\ Kinds \subseteq AllKinds
  /\ Stubborn \subseteq Rooms
  /\ {SeedFails, Flaky, LostAcks} \subseteq BOOLEAN

VARIABLES
  room,     \* per room, the SDK's Room
  loaded,   \* rooms the SDK's memory holds
  served,   \* rooms the homeserver serves
  changes,
  upd,      \* rooms with an update in the broadcast channel
  send,     \* per sender, the receipt whose answer is not noted yet
  sends,
  suspects, \* rows of room_upstream_reconcile: suspect, by first_flagged_at
  goneRows, \* and gone
  row,      \* room_unread_counts
  told,     \* the last count announced to clients and to the push router
  last,     \* the watcher's cache of row
  gone,     \* and of goneRows
  watch,    \* where the watcher is, and what it has left to probe or capture
  cap,      \* per room, its capture
  faults,
  restarts,
  left,     \* rooms that were ever left
  pinned,   \* confirmed gone, with a zero stored by a sweep
  ok,       \* rooms that answered a receipt since they were last purged
  late      \* purged while an answer that they are served was under way

sdkVars == <<room, loaded, served, changes>>
noteVars == <<send, sends, suspects, goneRows>>
watchVars == <<last, gone, watch, cap>>
vars == <<sdkVars, upd, noteVars, row, told, watchVars, faults, restarts, left,
          pinned, ok, late>>

None == MaxCount + 2
Phantom == MaxCount + 1
Off == [pc |-> "off", pair |-> 0, pend |-> "none"]
NoSend == [pc |-> "idle"]
Starting == [pc |-> "seed", list |-> <<>>, verdict |-> "none", todo |-> {},
             joined |-> {}]

Init ==
  /\ room = [r \in Rooms |-> [joined |-> TRUE, tomb |-> FALSE, truth |-> 0, count |-> 0,
                              chunk |-> TRUE, pend |-> "none"]]
  /\ loaded = {}
  /\ served = Rooms
  /\ changes = 0 /\ sends = 0 /\ faults = 0 /\ restarts = 0
  /\ upd = {}
  /\ send = [s \in Senders |-> NoSend]
  /\ suspects = <<>> /\ goneRows = {}
  /\ row = [r \in Rooms |-> None] /\ told = row
  /\ last = row /\ gone = {}
  /\ watch = Starting
  /\ cap = [r \in Rooms |-> Off]
  /\ left = {} /\ pinned = {} /\ ok = {} /\ late = {}

Fault == faults < MaxFaults /\ faults' = faults + 1
NoFault == UNCHANGED faults

At(pc) == watch.pc = pc

-----------------------------------------------------------------------------
(* The SDK and the homeserver. A room that is not served does not change.   *)

Counted(s) == IF s.chunk /\ s.pend # "ahead" THEN s.truth ELSE Phantom
Recounted(s) == [s EXCEPT !.count = Counted(s)]

Happens(kind) ==
  /\ kind \in Kinds /\ changes < MaxChanges
  /\ changes' = changes + 1
  /\ UNCHANGED <<loaded, noteVars, row, told, watchVars, faults, restarts, pinned>>

\* A change of a room's info is broadcast to the receivers there are.
Heard(r) == upd' = IF At("seed") THEN upd ELSE upd \cup {r}

Sdk(r, s) ==
  /\ r \in loaded /\ r \in served
  /\ room' = [room EXCEPT ![r] = s]
  /\ Heard(r)
  /\ UNCHANGED <<served, ok, late>>

Message(r) ==
  /\ Happens("message") /\ room[r].joined /\ room[r].truth < MaxCount
  /\ Sdk(r, Recounted([room[r] EXCEPT !.truth = @ + 1]))
  /\ UNCHANGED left

\* A receipt of the account for an event of the chunk.
Read(r) ==
  /\ Happens("read") /\ room[r].joined
  /\ Sdk(r, Recounted([room[r] EXCEPT !.truth = 0, !.chunk = TRUE, !.pend = "none"]))
  /\ UNCHANGED left

\* A receipt for an event that is not in the chunk: it reads all there is, or
\* it is older than the one the SDK counts from.
Unmatched(r, p) ==
  /\ Happens("unmatched") /\ room[r].joined
  /\ Sdk(r, Recounted([room[r] EXCEPT !.pend = p,
                                      !.truth = IF p = "ahead" THEN 0 ELSE @]))
  /\ UNCHANGED left

\* The event of the active receipt leaves the chunk, or is loaded again.
Reload(r) ==
  /\ Happens("reload") /\ room[r].joined
  /\ Sdk(r, Recounted([room[r] EXCEPT !.chunk = ~@]))
  /\ UNCHANGED left

Tombstone(r) ==
  /\ Happens("tombstone") /\ room[r].joined /\ ~room[r].tomb
  /\ Sdk(r, [room[r] EXCEPT !.tomb = TRUE])
  /\ UNCHANGED left

Leave(r) ==
  /\ Happens("leave") /\ room[r].joined
  /\ Sdk(r, [room[r] EXCEPT !.joined = FALSE])
  /\ left' = left \cup {r}

Rejoin(r) ==
  /\ Happens("rejoin") /\ ~room[r].joined
  /\ Sdk(r, [room[r] EXCEPT !.joined = TRUE])
  /\ UNCHANGED left

AnswerUnderWay(r) ==
  \/ \E s \in Senders : send[s].pc = "answered" /\ send[s].room = r
  \/ At("verdict") /\ Head(watch.list) = r

Purge(r) ==
  /\ Happens("purge") /\ r \in served
  /\ served' = served \ {r} /\ ok' = ok \ {r}
  /\ late' = IF AnswerUnderWay(r) THEN late \cup {r} ELSE late
  /\ UNCHANGED <<room, upd, left>>

Restore(r) ==
  /\ Happens("restore") /\ r \notin served
  /\ served' = served \cup {r} /\ late' = late \ {r}
  /\ UNCHANGED <<room, upd, left, ok>>

\* The SDK loads its rooms from its store after a start.
Hydrate(r) ==
  /\ r \notin loaded
  /\ loaded' = loaded \cup {r}
  /\ UNCHANGED <<room, served, changes, upd, noteVars, row, told, watchVars, faults,
                 restarts, left, pinned, ok, late>>

-----------------------------------------------------------------------------
(* Read receipts (SdkGateway::send_read_receipt): the homeserver's answer,  *)
(* then the note of what it says of the room.                               *)

SendReadReceipt(s, r) ==
  /\ send[s] = NoSend /\ sends < MaxSends
  /\ sends' = sends + 1
  /\ r \in loaded /\ room[r].joined
  /\ \E fine \in BOOLEAN :
       /\ fine => r \in served
       /\ r \in served /\ ~Flaky => fine
       /\ send' = [send EXCEPT ![s] = [pc |-> "answered", room |-> r, fine |-> fine]]
  /\ UNCHANGED <<sdkVars, upd, suspects, goneRows, row, told, watchVars, faults,
                 restarts, left, pinned, ok, late>>

\* Inserts a row if there is none.
FlagSuspect(r) ==
  /\ suspects' = IF r \in goneRows \/ Contains(suspects, r) THEN suspects
                 ELSE Append(suspects, r)
  /\ UNCHANGED <<goneRows, pinned>>

\* DELETE of a room's row: there is one at most.
Delete(q, r) ==
  IF Contains(q, r) THEN RemoveAt(q, CHOOSE i \in 1..Len(q) : q[i] = r) ELSE q

ClearReconcile(r) ==
  /\ suspects' = Delete(suspects, r)
  /\ goneRows' = goneRows \ {r}
  /\ pinned' = pinned \ {r}

\* Mutant: a verdict is written although its suspicion is gone.
MarkGoneUpsert(r) ==
  /\ suspects' = Delete(suspects, r)
  /\ goneRows' = goneRows \cup {r}

\* Only a row that is still suspect is promoted.
MarkGone(r) ==
  IF Contains(suspects, r)
  THEN suspects' = Delete(suspects, r) /\ goneRows' = goneRows \cup {r}
  ELSE UNCHANGED <<suspects, goneRows>>

NoteReachability(s) ==
  /\ send[s].pc = "answered"
  /\ send' = [send EXCEPT ![s] = NoSend]
  /\ LET r == send[s].room
     IN \/ /\ send[s].fine /\ NoFault /\ ClearReconcile(r)
           /\ ok' = IF r \in served THEN ok \cup {r} ELSE ok
        \/ /\ ~send[s].fine /\ NoFault /\ FlagSuspect(r)
           /\ UNCHANGED ok
        \/ /\ Fault     \* the write fails, or the request's deadline has passed
           /\ UNCHANGED <<suspects, goneRows, pinned, ok, late>>
  /\ UNCHANGED <<sdkVars, upd, sends, row, told, watchVars, restarts, left, late>>

-----------------------------------------------------------------------------
(* The watcher: its seed, its captures. *)

Joined == {r \in loaded : room[r].joined}

Seed ==
  /\ At("seed")
  /\ \E counts, verdicts \in BOOLEAN :
       /\ IF counts /\ verdicts THEN NoFault ELSE Fault
       /\ verdicts \/ SeedFails
       /\ last' = IF counts THEN row ELSE [r \in Rooms |-> None]
       /\ gone' = IF verdicts THEN goneRows ELSE {}
  /\ watch' = [watch EXCEPT !.pc = "startup"]
  /\ upd' = {}
  /\ UNCHANGED <<sdkVars, noteVars, row, told, cap, restarts, left, pinned, ok, late>>

\* The startup sweep does not prune.
BeginStartup ==
  /\ At("startup")
  /\ watch' = [watch EXCEPT !.pc = "sweep", !.todo = Joined]
  /\ UNCHANGED <<sdkVars, upd, noteVars, row, told, last, gone, cap, faults, restarts,
                 left, pinned, ok, late>>

Suppressed(r) == r \in gone \/ room[r].tomb

Increased(cached, pair) == pair > (IF cached = None THEN 0 ELSE cached)

\* unread_after up to the evidence on unmatched receipts.
Snapshot(r) ==
  LET pair == IF Suppressed(r) THEN 0 ELSE room[r].count
      pc == IF ~room[r].joined THEN "off"
            ELSE IF ~Suppressed(r) /\ room[r].pend # "none" /\ Increased(last[r], pair)
                 THEN "evidence"
            ELSE IF pair = last[r] THEN "off" ELSE "write"
  IN IF pc = "off" THEN Off ELSE [pc |-> pc, pair |-> pair, pend |-> room[r].pend]

Capture(r) ==
  /\ cap[r] = Off
  /\ cap' = [cap EXCEPT ![r] = Snapshot(r)]
  /\ UNCHANGED <<sdkVars, noteVars, row, told, last, gone, faults, restarts, left,
                 pinned, ok, late>>

Sweep(r) ==
  /\ At("sweep") /\ r \in watch.todo
  /\ Cardinality({x \in Rooms : cap[x] # Off}) < Concurrency
  /\ watch' = [watch EXCEPT !.todo = @ \ {r}]
  /\ Capture(r)
  /\ UNCHANGED upd

HeardUpdate(r) ==
  /\ At("idle") /\ r \in upd
  /\ upd' = upd \ {r}
  /\ \/ /\ r \in loaded
        /\ watch' = [watch EXCEPT !.pc = "sweep"]
        /\ Capture(r)
     \/ /\ r \notin loaded
        /\ UNCHANGED <<sdkVars, noteVars, row, told, watchVars, faults, restarts, left,
                       pinned, ok, late>>

\* The channel has overrun the watcher.
Lagged ==
  /\ At("idle") /\ upd # {}
  /\ Fault
  /\ upd' = {}
  /\ UNCHANGED <<sdkVars, noteVars, row, told, watchVars, restarts, left, pinned, ok, late>>

\* The event the SDK counts from is in its chunk, and every receipt it could
\* not match precedes it.
PendingStale(r) == room[r].chunk /\ cap[r].pend = "behind"

Evidence(r) ==
  /\ cap[r].pc = "evidence"
  /\ \/ /\ PendingStale(r) /\ NoFault
        /\ cap' = [cap EXCEPT ![r].pc = "write"]
     \/ /\ ~PendingStale(r) /\ NoFault
        /\ cap' = [cap EXCEPT ![r] = Off]
     \/ /\ PendingStale(r) /\ Fault
        /\ cap' = [cap EXCEPT ![r] = Off]
  /\ UNCHANGED <<sdkVars, upd, noteVars, row, told, last, gone, watch, restarts, left,
                 pinned, ok, late>>

\* The write fails before or after its commit, or the count is announced.
Write(r) ==
  /\ cap[r].pc = "write"
  /\ cap' = [cap EXCEPT ![r] = Off]
  /\ \E commits, written \in BOOLEAN :
       /\ written => commits
       /\ commits /\ ~written => LostAcks
       /\ IF written THEN NoFault ELSE Fault
       /\ row' = IF commits THEN [row EXCEPT ![r] = cap[r].pair] ELSE row
       /\ told' = IF written THEN [told EXCEPT ![r] = cap[r].pair] ELSE told
       /\ last' = IF written THEN [last EXCEPT ![r] = cap[r].pair] ELSE last
  /\ UNCHANGED <<sdkVars, upd, noteVars, gone, watch, restarts, left, pinned, ok, late>>

SweepDone ==
  /\ At("sweep") /\ watch.todo = {} /\ \A r \in Rooms : cap[r] = Off
  /\ watch' = [watch EXCEPT !.pc = "idle"]
  /\ pinned' = pinned \cup {r \in gone \cap goneRows : row[r] = 0}
  /\ UNCHANGED <<sdkVars, upd, noteVars, row, told, last, gone, cap, faults, restarts,
                 left, ok, late>>

-----------------------------------------------------------------------------
(* The periodic re-sweep: probe the suspects, read the verdicts, prune and  *)
(* sweep. The SDK has loaded its rooms five minutes after a start.          *)

Tick ==
  /\ At("idle") /\ loaded = Rooms
  /\ \/ /\ NoFault
        /\ watch' = [watch EXCEPT
             !.pc = "probe",
             !.list = SubSeq(suspects, 1, IF Len(suspects) < ProbesPerSweep
                                          THEN Len(suspects) ELSE ProbesPerSweep)]
     \/ /\ suspects # <<>> /\ Fault
        /\ watch' = [watch EXCEPT !.pc = "probe"]
  /\ UNCHANGED <<sdkVars, upd, noteVars, row, told, last, gone, cap, restarts, left,
                 pinned, ok, late>>

VerdictOf(r) == IF r \in served THEN "reachable" ELSE "absent"

\* A permit and the homeserver's answer; without a permit the pass ends.
Probe ==
  /\ At("probe") /\ watch.list # <<>>
  /\ LET r == Head(watch.list)
     IN \/ /\ NoFault
           /\ watch' = [watch EXCEPT !.pc = "verdict",
                !.verdict = IF r \in Stubborn THEN "inconclusive" ELSE VerdictOf(r)]
        \/ /\ Fault
           /\ \/ watch' = [watch EXCEPT !.pc = "verdict", !.verdict = "inconclusive"]
              \/ watch' = [watch EXCEPT !.list = <<>>]
  /\ UNCHANGED <<sdkVars, upd, noteVars, row, told, last, gone, cap, restarts, left,
                 pinned, ok, late>>

Settle(r, verdict) ==
  CASE verdict = "absent" -> MarkGone(r) /\ UNCHANGED pinned
    [] verdict = "reachable" -> ClearReconcile(r)
    [] verdict = "inconclusive" -> UNCHANGED <<suspects, goneRows, pinned>>

ApplyVerdict ==
  /\ At("verdict")
  /\ watch' = [watch EXCEPT !.pc = "probe", !.list = Tail(@), !.verdict = "none"]
  /\ \/ NoFault /\ Settle(Head(watch.list), watch.verdict)
     \/ /\ watch.verdict # "inconclusive" /\ Fault
        /\ UNCHANGED <<suspects, goneRows, pinned>>
  /\ UNCHANGED <<sdkVars, upd, send, sends, row, told, last, gone, cap, restarts, left,
                 ok, late>>

\* A failed read keeps the previous set.
ApplyGoneRefresh(read) == gone' = IF read THEN goneRows ELSE gone

Refresh ==
  /\ At("probe") /\ watch.list = <<>>
  /\ \E read \in BOOLEAN :
       /\ IF read THEN NoFault ELSE Fault
       /\ ApplyGoneRefresh(read)
  /\ watch' = [watch EXCEPT !.pc = "prune", !.joined = Joined]
  /\ UNCHANGED <<sdkVars, upd, noteVars, row, told, last, cap, restarts, left, pinned,
                 ok, late>>

Prune ==
  /\ At("prune")
  /\ watch' = [watch EXCEPT !.pc = "sweep", !.todo = watch.joined, !.joined = {}]
  /\ LET stale == IF watch.joined = {} THEN {} ELSE Rooms \ watch.joined
         Without(f) == [r \in Rooms |-> IF r \in stale THEN None ELSE f[r]]
     IN /\ last' = Without(last)
        /\ \/ row' = Without(row) /\ NoFault
           \/ stale # {} /\ UNCHANGED row /\ Fault
  /\ UNCHANGED <<sdkVars, upd, noteVars, told, gone, cap, restarts, left, pinned, ok, late>>

\* The process is killed; clients load the list again when they come back.
Restart ==
  /\ restarts < MaxRestarts /\ ~At("seed")
  /\ restarts' = restarts + 1
  /\ loaded' = {} /\ upd' = {}
  /\ send' = [s \in Senders |-> NoSend]
  /\ told' = row
  /\ last' = [r \in Rooms |-> None] /\ gone' = {}
  /\ watch' = Starting
  /\ cap' = [r \in Rooms |-> Off]
  /\ UNCHANGED <<room, served, changes, sends, suspects, goneRows, row, faults, left,
                 pinned, ok, late>>

-----------------------------------------------------------------------------
RoomSteps(r) ==
  \/ Hydrate(r) \/ Sweep(r) \/ HeardUpdate(r) \/ Evidence(r) \/ Write(r)

WatchSteps ==
  \/ Seed \/ BeginStartup \/ SweepDone \/ Tick \/ Probe \/ ApplyVerdict
  \/ Refresh \/ Prune

Next ==
  \/ \E r \in Rooms :
       \/ Message(r) \/ Read(r) \/ Unmatched(r, "ahead") \/ Unmatched(r, "behind")
       \/ Reload(r) \/ Tombstone(r) \/ Leave(r) \/ Rejoin(r) \/ Purge(r) \/ Restore(r)
       \/ RoomSteps(r)
       \/ \E s \in Senders : SendReadReceipt(s, r)
  \/ \E s \in Senders : NoteReachability(s)
  \/ WatchSteps \/ Lagged \/ Restart

Spec == Init /\ [][Next]_vars

\* The SDK loads its rooms, the watcher's timer fires, its task and
\* the requests are polled. Faults need not happen, and the re-sweep's branch of
\* the loop is taken again and again although updates keep coming.
Fairness ==
  /\ \A r \in Rooms : WF_vars(RoomSteps(r))
  /\ \A s \in Senders : WF_vars(NoteReachability(s))
  /\ WF_vars(WatchSteps)
  /\ SF_vars(Tick)

FairSpec == Spec /\ Fairness

-----------------------------------------------------------------------------
(* Properties. *)

Counts == 0..Phantom

\* Every variable has the shape the code gives it, suspect and gone rows are
\* exclusive, and the watcher's set never holds a room twice probed.
TypeOK ==
  /\ room \in [Rooms -> [joined : BOOLEAN, tomb : BOOLEAN, truth : 0..MaxCount,
                         count : Counts, chunk : BOOLEAN,
                         pend : {"none", "behind", "ahead"}]]
  /\ {upd, loaded, served, goneRows, gone, left, pinned, ok, late} \subseteq SUBSET Rooms
  /\ suspects \in Seq(Rooms) /\ IsInjective(suspects)
  /\ ToSet(suspects) \cap goneRows = {}
  /\ row \in [Rooms -> Counts \cup {None}]
  /\ told \in [Rooms -> Counts \cup {None}]
  /\ last \in [Rooms -> Counts \cup {None}]
  /\ \A r \in Rooms : cap[r].pc \in {"off", "evidence", "write"}
  /\ watch.todo \subseteq Rooms /\ watch.joined \subseteq Rooms

\* An increase is never written beside a receipt that is ahead of all the SDK
\* holds, although the room, its chunk and the watcher's cache change between the
\* snapshot, the evidence and the write (unread_after's hold).
HeldIsNotWritten ==
  \A r \in Rooms :
    cap[r].pc = "write" /\ cap[r].pend = "ahead" => ~Increased(last[r], cap[r].pair)

\* A room that is confirmed absent upstream and whose badge a sweep has cleared
\* keeps it cleared for as long as the verdict stands
\* (apply_gone_upstream_refresh).
PinnedStaysZero == \A r \in pinned : row[r] \in {0, None}

\* A verdict that a room is gone never stands over a receipt that the homeserver
\* has accepted since it last dropped the room: a success beats a probe that
\* was already in flight (mark_room_upstream_gone).
GoneIsBacked == goneRows \cap ok = {}

\* The row of a room that was never left is not pruned
\* (sweep_unread_counts, while the SDK is still loading its rooms).
JoinedRowsKept == \A r \in Rooms \ left : told[r] # None => row[r] # None

\* What clients should see of a room once all is quiet.
Shown(r) ==
  \/ ~room[r].joined
  \/ LET due == IF r \in goneRows \/ room[r].tomb THEN 0 ELSE room[r].count
     IN \/ row[r] = due /\ told[r] = due
        \/ room[r].pend # "none" /\ r \notin goneRows /\ ~room[r].tomb

\* In the end every joined room shows the SDK's count, or zero when it is
\* replaced or gone, whatever updates, writes and reads were lost, unless a
\* receipt the SDK cannot match holds it (watch_unread_counts).
Converges == \A r \in Rooms : <>[]Shown(r)

\* In the end no room is suspect (reconcile_upstream_rooms: the backlog drains).
Drains == <>[](suspects = <<>>)

\* A suspicion of a room the homeserver does not serve ends in the verdict that
\* the room is gone and in nothing else, however often the probe is not answered,
\* unless the room comes back or an answer from before the purge is applied
\* after it (ProbeVerdict, crash-safe suspicion).
PurgedIsFoundStep ==
  \A r \in Rooms :
    /\ Contains(suspects, r) /\ ~Contains(suspects', r)
    /\ r \notin served \cup late'
    => r \in goneRows'

\* PurgedIsFoundStep, of every step.
PurgedIsFound == [][PurgedIsFoundStep]_vars
=============================================================================
