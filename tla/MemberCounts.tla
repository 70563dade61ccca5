---------------------------- MODULE MemberCounts ----------------------------
(***************************************************************************)
(* The reconciler that copies the SDK's member counts and display names to  *)
(* room_summaries (axon-sync/src/member_counts.rs, display_names.rs and     *)
(* room_sweep.rs over axon-store/src/member_counts.rs, display_names.rs):   *)
(* hints from a broadcast channel, a bounded queue of retries, the sweep    *)
(* behind both, and the fence of the leave trigger.                         *)
(*                                                                          *)
(* The SDK is external. Every value it takes gets a number of its own; 0 is *)
(* an unknown count. Its changes are at least a millisecond apart, so each  *)
(* ticks Postgres's clock. The write is one statement: the snapshot of its  *)
(* CTE, then the update on the newest row.                                  *)
(***************************************************************************)
EXTENDS Naturals, Sequences, FiniteSets, SequencesExt

CONSTANTS
  NumRooms,     \* rooms are numbered in the order of their ids
  Listed,       \* rooms with a summary at the start
  MaxChanges,   \* changes of the SDK's room infos
  MaxLeaves,
  MaxFaults,    \* steps that fail or run out of time
  MaxRestarts,
  ChannelCap,   \* capacity of the SDK's broadcast channel
  HintRooms,    \* rooms a tick takes from it (4)
  PendingCap,   \* rooms in the queue (32)
  Drain,        \* rooms a tick takes from it (4)
  PageSize,     \* rooms of a page of the sweep (4)
  MaxAttempts,  \* 4
  LateDeadline  \* whether the deadline can fall between a commit and its mark

Rooms == 1..NumRooms

MemberCountsAssumption ==
  /\ {MaxChanges, MaxLeaves, MaxFaults, MaxRestarts} \subseteq Nat
  /\ {NumRooms, ChannelCap, HintRooms, PendingCap, Drain, PageSize, MaxAttempts}
       \subseteq Nat \ {0}
  /\ Listed \subseteq Rooms
  /\ LateDeadline \in BOOLEAN

VARIABLES
  sdk,      \* per room, the SDK's RoomInfo
  clock,    \* Postgres's clock, and the number of changes of the SDK so far
  leaves,
  queued,   \* rooms whose own membership event is still to be projected
  row,      \* per room, its row of room_summaries
  fenced,   \* per room, the clock when its last leave was projected
  hints,    \* the broadcast channel
  lagged,   \* the channel has overrun the worker
  pending,  \* Pending
  sweep,    \* RoomSweep
  work,     \* the rooms of this step, and the room at work
  dropped,  \* rooms a full queue or a last attempt left to the sweep
  faults,
  restarts,
  owed      \* changed columns that were not announced

vars == <<sdk, clock, leaves, queued, row, fenced, hints, lagged, pending, sweep,
          work, dropped, faults, restarts, owed>>

Halves == {"counts", "name"}

Unread == [at |-> 0, counts |-> 0, clear |-> FALSE, name |-> 0,
           same |-> FALSE, late |-> FALSE]
NoWork == [pc |-> "idle", rooms |-> <<>>, retry |-> {}, got |-> Unread]
NewSweep == [cursor |-> 0, due |-> TRUE, repeat |-> FALSE]

Init ==
  /\ sdk = [r \in Rooms |-> [joined |-> TRUE, counts |-> 0, inval |-> FALSE, name |-> 0]]
  /\ clock = 0 /\ leaves = 0
  /\ queued = {}
  /\ row = [r \in Rooms |-> [there |-> r \in Listed, left |-> FALSE, counts |-> 0,
                             at |-> 0, name |-> 0]]
  /\ fenced = [r \in Rooms |-> 0]
  /\ hints = <<>> /\ lagged = FALSE
  /\ pending = <<>>
  /\ sweep = NewSweep
  /\ work = NoWork
  /\ dropped = {} /\ owed = {}
  /\ faults = 0 /\ restarts = 0

-----------------------------------------------------------------------------
(* The SDK, and the handlers that project memberships and first events. *)

Notify(r) ==
  IF Len(hints) = ChannelCap
  THEN hints' = Append(Tail(hints), r) /\ lagged' = TRUE
  ELSE hints' = Append(hints, r) /\ UNCHANGED lagged

Change(r, info) ==
  /\ clock < MaxChanges
  /\ clock' = clock + 1
  /\ sdk' = [sdk EXCEPT ![r] = info]
  /\ Notify(r)
  /\ UNCHANGED <<row, fenced, pending, sweep, work, dropped, faults, restarts, owed>>

Counted(r) ==
  /\ sdk[r].joined
  /\ Change(r, [sdk[r] EXCEPT !.counts = clock + 1])
  /\ UNCHANGED <<leaves, queued>>

Named(r) ==
  /\ sdk[r].joined
  /\ Change(r, [sdk[r] EXCEPT !.name = clock + 1])
  /\ UNCHANGED <<leaves, queued>>

\* An initial response without counts.
Replaced(r) ==
  /\ sdk[r].joined
  /\ Change(r, [sdk[r] EXCEPT !.counts = 0, !.inval = TRUE])
  /\ UNCHANGED <<leaves, queued>>

\* The next response is processed after the handlers of the last one.
Leave(r) ==
  /\ sdk[r].joined /\ r \notin queued /\ leaves < MaxLeaves
  /\ leaves' = leaves + 1
  /\ queued' = queued \cup {r}
  /\ Change(r, [sdk[r] EXCEPT !.joined = FALSE, !.counts = 0, !.inval = TRUE])

Rejoin(r) ==
  /\ ~sdk[r].joined /\ r \notin queued
  /\ queued' = queued \cup {r}
  /\ \E c \in {0, clock + 1} :
       Change(r, [sdk[r] EXCEPT !.joined = TRUE, !.counts = c])
  /\ UNCHANGED leaves

\* Mutant: the trigger of the first migration, which left no watermark.
ClearedUnfenced(s) == [s EXCEPT !.left = TRUE, !.counts = 0, !.at = 0]

\* clear_left_room_member_counts
Cleared(s) == [s EXCEPT !.left = TRUE, !.counts = 0, !.at = clock]

\* The member event is stored too, so the room has a summary from here on.
Project(r) ==
  LET left == ~sdk[r].joined
      s == [row[r] EXCEPT !.there = TRUE]
  IN
  /\ r \in queued
  /\ queued' = queued \ {r}
  /\ row' = [row EXCEPT ![r] =
       IF left /\ ~s.left THEN Cleared(s) ELSE [s EXCEPT !.left = left]]
  /\ fenced' = IF left THEN [fenced EXCEPT ![r] = clock] ELSE fenced
  /\ owed' = IF row[r].counts /= row'[r].counts THEN owed \cup {<<r, "counts">>} ELSE owed
  /\ UNCHANGED <<sdk, clock, leaves, hints, lagged, pending, sweep, work, dropped,
                 faults, restarts>>

FirstEvent(r) ==
  /\ ~row[r].there
  /\ row' = [row EXCEPT ![r].there = TRUE]
  /\ UNCHANGED <<sdk, clock, leaves, queued, fenced, hints, lagged, pending, sweep,
                 work, dropped, faults, restarts, owed>>

-----------------------------------------------------------------------------
(* RoomSweep and Pending. *)

\* RoomSweep::wake
Woken(s) == [s EXCEPT !.repeat = @ \/ s.cursor /= 0, !.due = TRUE]

Resting(s) == s.cursor = 0 /\ ~s.due

\* state_reconciliation_rooms
PageOf(s) ==
  LET rest == {r \in Rooms : row[r].there /\ r > s.cursor} IN
  IF Resting(s) THEN {}
  ELSE {r \in rest : Cardinality({q \in rest : q < r}) < PageSize}

\* Mutant: the cursor stays at the end.
AdvancedStuck(s, page) ==
  IF page /= {}
  THEN [s EXCEPT !.cursor = CHOOSE r \in page : \A q \in page : q <= r]
  ELSE [s EXCEPT !.due = s.repeat, !.repeat = FALSE]

\* RoomSweep::advance
Advanced(s, page) ==
  IF page /= {}
  THEN [s EXCEPT !.cursor = CHOOSE r \in page : \A q \in page : q <= r]
  ELSE [cursor |-> 0, due |-> s.repeat, repeat |-> FALSE]

Item(r, steps, attempts) == [room |-> r, steps |-> steps, attempts |-> attempts]

Where(q, r) == {i \in DOMAIN q : q[i].room = r}

\* Pending::push
Pushed(q, i) ==
  LET at == Where(q, i.room) IN
  IF i.steps = {} THEN q
  ELSE IF at /= {}
       THEN [k \in DOMAIN q |-> IF k \in at THEN [q[k] EXCEPT !.steps = @ \cup i.steps]
                                ELSE q[k]]
       ELSE IF i.attempts < MaxAttempts /\ Len(q) < PendingCap THEN Append(q, i) ELSE q

Refused(q, i) == IF i.steps /= {} /\ Where(Pushed(q, i), i.room) = {} THEN {i.room} ELSE {}

\* The hints of a tick: the channel's head, up to HintRooms rooms of it.
Batch == CHOOSE n \in 0..Len(hints) :
  LET seen(k) == Cardinality({hints[j] : j \in 1..k}) IN
  /\ seen(n) <= HintRooms
  /\ (n < Len(hints) => seen(n) = HintRooms) /\ (n > 0 => seen(n - 1) < HintRooms)

Queue(rooms) ==
  FoldSeq(LAMBDA r, q : Pushed(q, Item(r, Halves, 0)), pending, SetToSortSeq(rooms, <))

-----------------------------------------------------------------------------
(* Worker::step *)

\* Of the hints, the queue and the page: what this step has to visit.
Visit(taken, page) ==
  LET drained == [i \in DOMAIN taken |->
        IF taken[i].room \in page THEN [taken[i] EXCEPT !.steps = Halves] ELSE taken[i]]
      others == {r \in page : Where(taken, r) = {}}
  IN drained \o [i \in 1..Cardinality(others) |->
                   Item(SetToSortSeq(others, <)[i], Halves, 0)]

Tick ==
  LET n == IF lagged THEN 0 ELSE Batch
      hinted == {hints[j] : j \in 1..n}
      q == Queue(hinted)
      k == IF Len(q) < Drain THEN Len(q) ELSE Drain
      s == IF lagged THEN Woken(sweep) ELSE sweep
  IN
  /\ work.pc = "idle"
  /\ hints' = SubSeq(hints, n + 1, Len(hints)) /\ lagged' = FALSE
  /\ pending' = SubSeq(q, k + 1, Len(q))
  /\ \E failed \in BOOLEAN :
       LET page == IF failed THEN {} ELSE PageOf(s)
           rooms == Visit(SubSeq(q, 1, k), page)
       IN
       /\ failed => faults < MaxFaults /\ ~Resting(s)
       /\ faults' = IF failed THEN faults + 1 ELSE faults
       /\ sweep' = IF failed \/ Resting(s) THEN s ELSE Advanced(s, page)
       /\ work' = IF rooms = <<>> THEN NoWork
                  ELSE [NoWork EXCEPT !.pc = "room", !.rooms = rooms]
       /\ dropped' = (dropped \cup {r \in hinted : Where(q, r) = {}})
                       \ {rooms[i].room : i \in DOMAIN rooms}
  /\ UNCHANGED <<sdk, clock, leaves, queued, row, fenced, restarts, owed>>

\* Five minutes after a pass.
SweepDue ==
  /\ Resting(sweep)
  /\ sweep' = [sweep EXCEPT !.due = TRUE]
  /\ UNCHANGED <<sdk, clock, leaves, queued, row, fenced, hints, lagged, pending,
                 work, dropped, faults, restarts, owed>>

\* The sync service is back.
BackOnline ==
  /\ work.pc = "idle"
  /\ sweep' = Woken(sweep)
  /\ UNCHANGED <<sdk, clock, leaves, queued, row, fenced, hints, lagged, pending,
                 work, dropped, faults, restarts, owed>>

Room == Head(work.rooms).room
Steps == Head(work.rooms).steps

At(pc) == work.pc = pc

working == <<sdk, clock, leaves, queued, fenced, hints, lagged, sweep, restarts>>

\* member_count_observation_time, before the SDK is read.
Capture ==
  /\ At("room")
  /\ work' = IF "counts" \in Steps
             THEN [work EXCEPT !.pc = "read", !.got.at = clock]
             ELSE [work EXCEPT !.pc = "display"]
  /\ UNCHANGED <<working, row, pending, dropped, faults, owed>>

\* snapshot: known counts, evidence that there are none, or neither.
ReadInfo ==
  LET info == sdk[Room]
      known == info.joined /\ info.counts /= 0
  IN
  /\ At("read")
  /\ work' = IF known \/ ~info.joined \/ info.inval
             THEN [work EXCEPT !.pc = "write", !.got.clear = ~known,
                               !.got.counts = IF known THEN info.counts ELSE 0]
             ELSE [work EXCEPT !.pc = "display", !.got = Unread]
  /\ UNCHANGED <<working, row, pending, dropped, faults, owed>>

\* member_counts_observed_at < $5; clearing may be as old.
Newer(s, got) == s.at < got.at \/ (got.clear /\ s.at = got.at) \/ s.at = 0

Eligible(s, got) == s.there /\ (got.clear \/ ~s.left)

Same(s, got) == Eligible(s, got) /\ s.counts = got.counts

Superseded(s, got) == Eligible(s, got) /\ s.at /= 0 /\ s.at >= got.at

\* The statement's snapshot.
Snapshot ==
  /\ At("write")
  /\ work' = [work EXCEPT !.pc = "update", !.got.same = Same(row[Room], work.got),
                          !.got.late = Superseded(row[Room], work.got)]
  /\ UNCHANGED <<working, row, pending, dropped, faults, owed>>

Marks(applied, got) == applied

\* write_member_counts, and the mark after it.
WriteCounts ==
  LET s == row[Room]
      got == work.got
      applied == Eligible(s, got) /\ Newer(s, got) /\ s.counts /= got.counts
      retry == ~applied /\ ~got.same /\ ~got.late
  IN
  /\ At("update")
  /\ row' = IF applied
            THEN [row EXCEPT ![Room].counts = got.counts, ![Room].at = got.at]
            ELSE row
  /\ \E missed \in BOOLEAN :
       /\ missed => LateDeadline /\ applied /\ faults < MaxFaults
       /\ faults' = IF missed THEN faults + 1 ELSE faults
       /\ owed' = IF ~applied THEN owed
                  ELSE IF missed \/ ~Marks(applied, got)
                       THEN owed \cup {<<Room, "counts">>} ELSE owed \ {<<Room, "counts">>}
       /\ work' = [work EXCEPT !.pc = "display", !.got = Unread,
                    !.retry = IF retry \/ missed THEN {"counts"} ELSE {}]
  /\ UNCHANGED <<working, pending, dropped>>

\* display_names::reconcile
ReadName ==
  LET info == sdk[Room] IN
  /\ At("display")
  /\ work' = IF "name" \in Steps /\ info.joined
             THEN [work EXCEPT !.pc = "name", !.got.name = info.name]
             ELSE [work EXCEPT !.pc = "next"]
  /\ UNCHANGED <<working, row, pending, dropped, faults, owed>>

\* set_room_display_name, and the frame after it.
WriteName ==
  LET s == row[Room]
      applied == s.there /\ s.name /= work.got.name
  IN
  /\ At("name")
  /\ row' = IF applied THEN [row EXCEPT ![Room].name = work.got.name] ELSE row
  /\ \E missed \in BOOLEAN :
       /\ missed => LateDeadline /\ applied /\ faults < MaxFaults
       /\ faults' = IF missed THEN faults + 1 ELSE faults
       /\ owed' = IF missed THEN owed \cup {<<Room, "name">>}
                  ELSE IF applied THEN owed \ {<<Room, "name">>} ELSE owed
       /\ work' = [work EXCEPT !.pc = "next", !.got = Unread,
                    !.retry = IF missed \/ ~s.there THEN @ \cup {"name"} ELSE @]
  /\ UNCHANGED <<working, pending, dropped>>

\* A half fails, or its two seconds pass.
StepFails ==
  LET half == IF work.pc \in {"read", "write", "update"} THEN "counts" ELSE "name" IN
  /\ work.pc \in {"read", "write", "update", "name"}
  /\ faults < MaxFaults
  /\ faults' = faults + 1
  /\ work' = [work EXCEPT !.pc = IF half = "counts" THEN "display" ELSE "next",
                          !.got = Unread, !.retry = @ \cup {half}]
  /\ UNCHANGED <<working, row, pending, dropped, owed>>

NextRoom ==
  LET i == Item(Room, work.retry, Head(work.rooms).attempts + 1)
      left == Tail(work.rooms)
  IN
  /\ At("next")
  /\ pending' = Pushed(pending, i)
  /\ dropped' = dropped \cup Refused(pending, i)
  /\ work' = IF left = <<>> THEN NoWork ELSE [NoWork EXCEPT !.pc = "room", !.rooms = left]
  /\ UNCHANGED <<working, row, faults, owed>>

\* The run ends; the next one subscribes before its first page.
Restart ==
  /\ restarts < MaxRestarts
  /\ restarts' = restarts + 1
  /\ hints' = <<>> /\ lagged' = FALSE /\ pending' = <<>>
  /\ sweep' = NewSweep /\ work' = NoWork
  /\ dropped' = {}
  /\ UNCHANGED <<sdk, clock, leaves, queued, row, fenced, faults, owed>>

Worker ==
  \/ Capture \/ ReadInfo \/ Snapshot \/ WriteCounts
  \/ ReadName \/ WriteName \/ NextRoom

Next ==
  \/ \E r \in Rooms :
       Counted(r) \/ Named(r) \/ Replaced(r) \/ Leave(r) \/ Rejoin(r)
         \/ Project(r) \/ FirstEvent(r)
  \/ Tick \/ SweepDue \/ BackOnline
  \/ Worker \/ StepFails
  \/ Restart

Spec == Init /\ [][Next]_vars

\* The worker ticks every second and each of its steps has a deadline, the
\* sweep's timer fires, and the sync handlers run.
Fairness ==
  /\ WF_vars(Tick) /\ WF_vars(SweepDue) /\ WF_vars(Worker)
  /\ \A r \in Rooms : WF_vars(Project(r))

FairSpec == Spec /\ Fairness

-----------------------------------------------------------------------------

Pcs == {"idle", "room", "read", "write", "update", "display", "name", "next"}

\* Shapes of the variables; the queue holds each room once and within its
\* bound, with halves to do and attempts left (Pending), and the worker no
\* room twice (Worker::step).
TypeOK ==
  /\ sdk \in [Rooms -> [joined : BOOLEAN, counts : 0..clock, inval : BOOLEAN,
                        name : 0..clock]]
  /\ clock \in 0..MaxChanges /\ leaves \in 0..MaxLeaves
  /\ queued \subseteq Rooms
  /\ row \in [Rooms -> [there : BOOLEAN, left : BOOLEAN, counts : 0..clock,
                        at : 0..clock, name : 0..clock]]
  /\ fenced \in [Rooms -> 0..clock]
  /\ hints \in Seq(Rooms) /\ Len(hints) <= ChannelCap
  /\ Len(pending) <= PendingCap
  /\ \A i \in DOMAIN pending :
       /\ pending[i].steps \in SUBSET Halves \ {{}}
       /\ pending[i].attempts < MaxAttempts
  /\ \A q \in {pending, work.rooms}, r \in Rooms : Cardinality(Where(q, r)) <= 1
  /\ sweep \in [cursor : Rooms \cup {0}, due : BOOLEAN, repeat : BOOLEAN]
  /\ work.pc \in Pcs /\ (work.rooms = <<>>) = (work.pc = "idle")
  /\ work.retry \subseteq Halves
  /\ dropped \subseteq Rooms

\* Counts that were read before a leave never stand after it, not even when
\* the room was joined again in the meantime: the trigger's watermark fences
\* what was observed before it (member_count_observation_time).
NoOldMembership ==
  \A r \in Rooms : row[r].counts /= 0 => row[r].counts > fenced[r]

\* What a room's row lacks of the SDK's info.
Stale(r) ==
  LET info == sdk[r] IN
  (IF /\ row[r].there /\ ~row[r].left /\ info.joined
      /\ info.counts /= 0 \/ info.inval
      /\ row[r].counts /= info.counts
   THEN {"counts"} ELSE {})
  \cup (IF row[r].there /\ info.joined /\ row[r].name /= info.name THEN {"name"} ELSE {})

\* A visit of the room is on its way that will do this half.
Coming(r, half) ==
  \/ r \in Range(hints) \/ lagged
  \/ \E i \in Where(pending, r) : half \in pending[i].steps
  \/ \E i \in Where(work.rooms, r) :
       half \in work.rooms[i].steps /\ (i > 1 \/ half \in work.retry \/ work.pc /= "next")
  \/ sweep.due /\ sweep.cursor = 0
  \/ sweep.cursor < r /\ sweep.cursor /= 0
  \/ sweep.repeat

\* However hints are lost, queues are full and halves fail: a row that is
\* behind the SDK has its visit hinted, queued or before the sweep's cursor,
\* or it was left to the next pass after its attempts (Pending, RoomSweep).
NothingForgotten ==
  queued = {} => \A r \in Rooms : \A h \in Stale(r) : Coming(r, h) \/ r \in dropped

\* Every change of the counts or the name is announced by the one who made
\* it (ADR 0126, ADR 0118).
ChangeIsAnnounced == owed = {}

\* Once the SDK is quiet, every listed room comes to show its counts and its
\* name.
Converges == <>[](\A r \in Rooms : Stale(r) = {})

=============================================================================
