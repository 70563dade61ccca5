------------------------------- MODULE PushRouter -------------------------------
(***************************************************************************)
(* The push router: room memory and the case list of ADR 0113                *)
(* (crates/axon-sync/src/push/decision.rs), the router task with its control *)
(* flags and its send scheduler (push/router.rs), the sends it spawns        *)
(* (push/deliver.rs) and its two producers, the unread watcher (engine.rs)   *)
(* and the room-update reader (push/observe.rs).                             *)
(*                                                                         *)
(* Observations are numbered in the order they are made; an alert is the       *)
(* number of the observation that brought its message.  A count change is      *)
(* stored before it is observed, so a total read once `clock` is n covers      *)
(* every change up to n.                                                       *)
(***************************************************************************)
EXTENDS Integers, Sequences, FiniteSets

CONSTANTS
  Rooms,      \* rooms, each of one account
  Accounts,
  Account,    \* the account of each room
  Apns, Fcm,  \* registrations: badge-enabled APNs devices and FCM devices
  NoRoom,     \* the room of a badge-only push
  Permits,    \* SEND_PERMITS
  Capacity,   \* OBSERVATION_CAPACITY
  MaxCount, MaxHighlight,  \* bounds: the highest notification and highlight counts
  MaxObs      \* bound: observations made

PushAssumption ==
  /\ Account \in [Rooms -> Accounts]
  /\ NoRoom \notin Rooms
  /\ Apns \cap Fcm = {}
  /\ Permits \in Nat \ {0} /\ Capacity \in Nat \ {0}
  /\ MaxCount \in Nat /\ MaxHighlight \in Nat /\ MaxObs \in Nat

VARIABLES
  clock,     \* observations made so far
  count,     \* the pair the unread watcher last published of each room, NoPair once pruned
  gone,      \* accounts whose task has ended and that account_removed was called for
  chan,      \* the observation channel
  lost,      \* history: observations dropped at a full channel
  mem,       \* the router's memory of each room
  inFlight,  \* Scheduler.in_flight
  waiting,   \* Scheduler.waiting: key -> job
  order,     \* Scheduler.order
  todo,      \* the router's locals: jobs to enqueue, finished keys to release, whether to pump
  control,   \* the Control flags
  sends,     \* the spawned sends
  posted,    \* history: the newest job sent to the provider of each key
  owed,      \* history: per device, the newest fall a badge-only push was queued for
  shown,     \* history: per device, the newest total a badge-only push tried to read
  woken      \* history: messages an alert was decided for

producers == <<clock, count, gone>>
scheduler == <<inFlight, waiting, order>>
history == <<posted, owed, shown, woken>>
vars == <<clock, count, gone, chan, lost, mem, inFlight, waiting, order, todo, control, sends,
          posted, owed, shown, woken>>

Devices == Apns \cup Fcm
Pairs == (0..MaxCount) \X (0..MaxHighlight)
NoPair == <<-1, -1>>
Serials == 0..MaxObs

\* FlightKey: alerts and room-read messages of a room share one, badge-only pushes
\* of a device another.
Keys == [device : Devices, room : Rooms] \cup [device : Apns, room : {NoRoom}]

Jobs == [device : Devices, room : Rooms \cup {NoRoom},
         work : {"Alert", "RoomRead", "Badge"}, at : Serials]

KeyOf(job) == [device |-> job.device, room |-> job.room]

Observations == [at : Serials, room : Rooms, after : Pairs \cup {NoPair}, class : {"Notify", "Other"}]

Absent == [known |-> FALSE, seeded |-> FALSE, pair |-> <<0, 0>>, slot |-> 0, unpaired |-> NoPair]

Memories == [known : BOOLEAN, seeded : BOOLEAN, pair : Pairs, slot : Serials,
             unpaired : Pairs \cup {NoPair}]

Idle == [jobs |-> {}, finished |-> <<>>, pump |-> FALSE]

Sends == [job : Jobs, cancelled : BOOLEAN, phase : {"check", "post", "done"}]

TypeOK ==
  /\ clock \in Serials
  /\ count \in [Rooms -> Pairs \cup {NoPair}]
  /\ gone \subseteq Accounts
  /\ chan \in Seq(Observations) /\ Len(chan) <= Capacity
  /\ lost \in BOOLEAN
  /\ mem \in [Rooms -> Memories]
  /\ inFlight \subseteq Keys
  /\ DOMAIN waiting \subseteq Keys /\ \A k \in DOMAIN waiting : waiting[k] \in Jobs
  /\ order \in Seq(Keys)
  /\ todo.jobs \subseteq Jobs /\ todo.finished \in Seq(Keys) /\ todo.pump \in BOOLEAN
  /\ control.finished \in Seq(Keys) /\ control.drop \subseteq Accounts
  /\ control.rooms \subseteq Rooms /\ control.unseed \subseteq Accounts
  /\ sends \subseteq Sends
  /\ posted \in [Keys -> Serials]
  /\ owed \in [Apns -> Serials] /\ shown \in [Apns -> Serials]
  /\ woken \subseteq Serials

NoControl == [finished |-> <<>>, drop |-> {}, rooms |-> {}, unseed |-> {}]

Init ==
  /\ clock = 0 /\ gone = {} /\ chan = <<>> /\ lost = FALSE
  /\ count = [r \in Rooms |-> <<0, 0>>]
  /\ mem = [r \in Rooms |-> Absent]
  /\ inFlight = {} /\ waiting = <<>> /\ order = <<>>
  /\ todo = Idle
  /\ control = NoControl
  /\ sends = {}
  /\ posted = [k \in Keys |-> 0]
  /\ owed = [d \in Apns |-> 0] /\ shown = [d \in Apns |-> 0]
  /\ woken = {}

-----------------------------------------------------------------------------
(* The producers *)

\* Mutant: the channel has no bound.
observe_Unbounded(r, after, class) ==
  /\ clock < MaxObs /\ Account[r] \notin gone
  /\ clock' = clock + 1
  /\ chan' = Append(chan, [at |-> clock + 1, room |-> r, after |-> after, class |-> class])
  /\ UNCHANGED lost

\* PushIngress::observe: try_send, which drops the observation at a full channel.
observe(r, after, class) ==
  /\ clock < MaxObs /\ Account[r] \notin gone
  /\ clock' = clock + 1
  /\ LET o == [at |-> clock + 1, room |-> r, after |-> after, class |-> class]
     IN IF Len(chan) < Capacity
        THEN chan' = Append(chan, o) /\ UNCHANGED lost
        ELSE lost' = TRUE /\ UNCHANGED chan

\* capture_unread_counts: a pair that differs from the cached one is stored, cached
\* and observed.  The cache keeps it even if the observation is dropped.
Count(r, pair) ==
  /\ pair # count[r]
  /\ count' = [count EXCEPT ![r] = pair]
  /\ observe(r, pair, "Other")
  /\ UNCHANGED <<gone, mem, scheduler, todo, control, sends, history>>

\* watch_room_updates: the messages of a room update, the latest of which notifies.
\* Messages with no push actions, or with none that notify, change nothing below.
Message(r) ==
  /\ observe(r, NoPair, "Notify")
  /\ UNCHANGED <<count, gone, mem, scheduler, todo, control, sends, history>>

\* watch_room_updates, a lagged subscription: unseed_account.
Lagged(a) ==
  /\ a \notin gone
  /\ control' = [control EXCEPT !.unseed = @ \cup {a}]
  /\ UNCHANGED <<producers, chan, lost, mem, scheduler, todo, sends, history>>

\* sweep_unread_counts prunes a room the account is no longer in: room_dropped.
RoomDropped(r) ==
  /\ Account[r] \notin gone /\ count[r] # NoPair
  /\ count' = [count EXCEPT ![r] = NoPair]
  /\ control' = [control EXCEPT !.rooms = @ \cup {r}]
  /\ UNCHANGED <<clock, gone, chan, lost, mem, scheduler, todo, sends, history>>

\* AccountLifecycle::delete: the account's tasks have ended, then account_removed.
AccountRemoved(a) ==
  /\ a \notin gone
  /\ gone' = gone \cup {a}
  /\ control' = [control EXCEPT !.drop = @ \cup {a}]
  /\ UNCHANGED <<clock, count, chan, lost, mem, scheduler, todo, sends, history>>

-----------------------------------------------------------------------------
(* The case list *)

Rose(before, after) == after[1] > before[1] \/ after[2] > before[2]
Fell(before, after) == ~Rose(before, after) /\ after # before

\* The memory once a message was sent or released, or the room was caught up.
Release(m, pair) == [m EXCEPT !.pair = pair, !.slot = 0, !.unpaired = NoPair]

\* The memory once a pair was stored and nothing sent.
Stored(m, pair) == [m EXCEPT !.pair = pair]

Decision(m, send, fell) == [mem |-> m, send |-> send, fell |-> fell]

\* decide: an unseeded room only learns; a rise releases the slot or is remembered as
\* unpaired; a message with the count unchanged claims an unpaired rise or fills the
\* slot; a fall to zero forgets both.  `fell` is notification_fell_to, -1 for none.
decide(m, o) ==
  LET notifying == o.class = "Notify"
      after     == IF o.after = NoPair THEN m.pair ELSE o.after
      fell      == IF after[1] < m.pair[1] THEN after[1] ELSE -1
      kept      == Stored(m, after)
  IN CASE ~m.seeded ->
            Decision([Absent EXCEPT !.known = TRUE, !.seeded = (o.after # NoPair), !.pair = after,
                                    !.slot = IF notifying THEN o.at ELSE m.slot],
                     0, -1)
       [] m.seeded /\ Rose(m.pair, after) ->
            IF notifying THEN Decision(Release(m, after), o.at, fell)
            ELSE IF m.slot # 0 THEN Decision(Release(m, after), m.slot, fell)
            ELSE Decision([kept EXCEPT !.unpaired = after], 0, fell)
       [] m.seeded /\ after = m.pair ->
            IF ~notifying THEN Decision(kept, 0, fell)
            ELSE IF m.unpaired = after THEN Decision(Release(m, after), o.at, fell)
            ELSE Decision([kept EXCEPT !.slot = o.at], 0, fell)
       [] m.seeded /\ Fell(m.pair, after) ->
            IF after[1] = 0 THEN Decision(Release(m, after), 0, fell)
            ELSE IF notifying THEN Decision(Release(m, after), o.at, fell)
            ELSE Decision(kept, 0, fell)

\* Memory::expire: a slot or an unpaired rise older than SLOT_TTL is dropped, by the
\* ticker or before an observation.
Expire(r) ==
  /\ todo = Idle
  /\ mem' \in {[mem EXCEPT ![r].slot = 0], [mem EXCEPT ![r].unpaired = NoPair],
               [mem EXCEPT ![r].slot = 0, ![r].unpaired = NoPair]}
  /\ mem' # mem
  /\ UNCHANGED <<producers, chan, lost, scheduler, todo, control, sends, history>>

-----------------------------------------------------------------------------
(* The scheduler *)

\* The waiting jobs without k's, and with k's replaced.
Without(f, k) == [x \in DOMAIN f \ {k} |-> f[x]]
With(f, k, v) == [x \in DOMAIN f \cup {k} |-> IF x = k THEN v ELSE f[x]]
Queued(k) == \E i \in 1..Len(order) : order[i] = k

\* VecDeque::retain: q without what is not in `keep`, in the order of q.
retain(q, keep) ==
  LET kept[i \in 0..Len(q)] == IF i = 0 THEN <<>>
                               ELSE IF q[i] \in keep THEN Append(kept[i - 1], q[i])
                               ELSE kept[i - 1]
  IN kept[Len(q)]

\* start_job: the key is in flight, and a task is spawned for the job.
start_job(job) ==
  /\ inFlight' = inFlight \cup {KeyOf(job)}
  /\ sends' = sends \cup {[job |-> job, cancelled |-> FALSE, phase |-> "check"]}

\* Scheduler::enqueue: start the job, or let it wait in place of an older one.
enqueue(job) ==
  LET k == KeyOf(job)
  IN \/ /\ k \in inFlight
        /\ waiting' = With(waiting, k, job)
        /\ UNCHANGED <<inFlight, order, sends>>
     \/ /\ k \notin inFlight /\ Cardinality(inFlight) >= Permits
        /\ order' = IF Queued(k) THEN order ELSE Append(order, k)
        /\ waiting' = With(waiting, k, job)
        /\ UNCHANGED <<inFlight, sends>>
     \/ /\ k \notin inFlight /\ Cardinality(inFlight) < Permits
        /\ start_job(job)
        /\ UNCHANGED <<waiting, order>>

\* jobs_for: an alert for every device; without one, a badge-only push for a fall and
\* a room-read message for a fall to zero.
jobs_for(o, d) ==
  LET job(device, room, work, at) == [device |-> device, room |-> room, work |-> work, at |-> at]
  IN IF d.send # 0 THEN {job(t, o.room, "Alert", o.at) : t \in Devices}
     ELSE IF d.fell = -1 THEN {}
     ELSE {job(t, NoRoom, "Badge", o.at) : t \in Apns}
          \cup (IF d.fell = 0 THEN {job(t, o.room, "RoomRead", o.at) : t \in Fcm} ELSE {})

\* apply_observation: decide, remember, and list the jobs, which the router then
\* enqueues one by one.
ApplyObservation ==
  /\ todo = Idle /\ control = NoControl /\ chan # <<>>
  /\ LET o == Head(chan)
         d == decide(mem[o.room], o)
         jobs == jobs_for(o, d)
     IN /\ mem' = [mem EXCEPT ![o.room] = d.mem]
        /\ todo' = [Idle EXCEPT !.jobs = jobs]
        /\ woken' = IF d.send = 0 THEN woken ELSE woken \cup {d.send}
        /\ owed' = [t \in Apns |-> IF \E j \in jobs : j.work = "Badge" /\ j.device = t
                                   THEN o.at ELSE owed[t]]
  /\ chan' = Tail(chan)
  /\ UNCHANGED <<producers, lost, scheduler, control, sends, posted, shown>>

EnqueueJob ==
  /\ \E job \in todo.jobs : enqueue(job) /\ todo' = [todo EXCEPT !.jobs = @ \ {job}]
  /\ UNCHANGED <<producers, chan, lost, mem, control, history>>

\* What drop_account and drop_room leave of the keys in flight: all of them.
Dropped(accounts, rooms) == inFlight

\* What they leave waiting: badge-only pushes and the jobs of other rooms.
KeptJob(job, accounts, rooms) ==
  job.room = NoRoom \/ (job.room \notin rooms /\ Account[job.room] \notin accounts)

\* apply_control: take the flags, forget dropped accounts and rooms, cancel the sends
\* of dropped accounts, unseed, and leave the finished keys to be released.
ApplyControl ==
  /\ todo = Idle /\ control # NoControl
  /\ mem' = [r \in Rooms |->
               IF r \in control.rooms \/ Account[r] \in control.drop THEN Absent
               ELSE IF Account[r] \in control.unseed
               THEN [mem[r] EXCEPT !.seeded = FALSE, !.unpaired = NoPair]
               ELSE mem[r]]
  /\ waiting' = [k \in {x \in DOMAIN waiting : KeptJob(waiting[x], control.drop, control.rooms)}
                 |-> waiting[k]]
  /\ inFlight' = Dropped(control.drop, control.rooms)
  /\ order' = retain(order, DOMAIN waiting' \cup inFlight)
  /\ sends' = {[s EXCEPT !.cancelled = @ \/ (s.job.room # NoRoom
                                             /\ Account[s.job.room] \in control.drop)] : s \in sends}
  /\ todo' = [Idle EXCEPT !.finished = control.finished]
  /\ control' = NoControl
  /\ UNCHANGED <<producers, chan, lost, history>>

\* Mutant: a finished key does not look at the jobs that wait for a permit.
Finished_NoPump ==
  /\ todo.finished # <<>> /\ todo.jobs = {} /\ ~todo.pump
  /\ LET k == Head(todo.finished)
     IN /\ inFlight' = inFlight \ {k}
        /\ todo' = [todo EXCEPT !.finished = Tail(@),
                                !.jobs = IF k \in DOMAIN waiting THEN {waiting[k]} ELSE {}]
        /\ waiting' = Without(waiting, k)
        /\ order' = retain(order, Keys \ {k})
  /\ UNCHANGED <<producers, chan, lost, mem, control, sends, history>>

\* Scheduler::finished: free the key, enqueue the job that waited for it, then pump.
Finished ==
  /\ todo.finished # <<>> /\ todo.jobs = {} /\ ~todo.pump
  /\ LET k == Head(todo.finished)
     IN /\ inFlight' = inFlight \ {k}
        /\ todo' = [todo EXCEPT !.finished = Tail(@), !.pump = TRUE,
                                !.jobs = IF k \in DOMAIN waiting THEN {waiting[k]} ELSE {}]
        /\ waiting' = Without(waiting, k)
        /\ order' = IF k \in DOMAIN waiting THEN retain(order, Keys \ {k}) ELSE order
  /\ UNCHANGED <<producers, chan, lost, mem, control, sends, history>>

\* Scheduler::pump: start the jobs first in order while permits are free.
Pump ==
  /\ todo.pump /\ todo.jobs = {}
  /\ IF Cardinality(inFlight) < Permits /\ order # <<>>
     THEN LET k == Head(order)
          IN /\ order' = Tail(order)
             /\ waiting' = Without(waiting, k)
             /\ todo' = [todo EXCEPT !.jobs = IF k \in DOMAIN waiting THEN {waiting[k]} ELSE {}]
     ELSE todo' = [todo EXCEPT !.pump = FALSE] /\ UNCHANGED <<order, waiting>>
  /\ UNCHANGED <<producers, chan, lost, mem, inFlight, control, sends, history>>

-----------------------------------------------------------------------------
(* The sends *)

\* resolve_target, and for a badge-only push the read of the total: the send goes on
\* to the provider or ends.  A total that could not be read is not sent.
Check(s) ==
  /\ s.phase = "check" /\ ~s.cancelled
  /\ shown' = IF s.job.work = "Badge" THEN [shown EXCEPT ![s.job.device] = clock] ELSE shown
  /\ \E phase \in {"post", "done"} :
       /\ sends' = (sends \ {s}) \cup {[s EXCEPT !.phase = phase]}
       /\ posted' = IF phase = "post" THEN [posted EXCEPT ![KeyOf(s.job)] = s.job.at] ELSE posted
  /\ UNCHANGED <<producers, chan, lost, mem, scheduler, todo, control, owed, woken>>

\* The provider answered, failed or timed out; or the send was cancelled.  Dropping
\* the Finish guard reports the key.
Finish(s) ==
  /\ s.phase # "check" \/ s.cancelled
  /\ sends' = sends \ {s}
  /\ control' = [control EXCEPT !.finished = Append(@, KeyOf(s.job))]
  /\ UNCHANGED <<producers, chan, lost, mem, scheduler, todo, history>>

Produce ==
  \/ \E r \in Rooms, p \in Pairs : Count(r, p)
  \/ \E r \in Rooms : Message(r) \/ RoomDropped(r)
  \/ \E a \in Accounts : Lagged(a) \/ AccountRemoved(a)

Route == ApplyObservation \/ EnqueueJob \/ ApplyControl \/ Finished \/ Pump

Next ==
  \/ Produce
  \/ Route
  \/ \E r \in Rooms : Expire(r)
  \/ \E s \in sends : Check(s) \/ Finish(s)

Spec == Init /\ [][Next]_vars

\* The router task runs, and every send ends: each of its calls has a timeout.
Fairness == WF_vars(Route) /\ WF_vars(\E s \in sends : Check(s) \/ Finish(s))

FairSpec == Spec /\ Fairness

-----------------------------------------------------------------------------
(* Properties *)

\* Permits and keys: the sends in the air never exceed the permits and no two share a
\* key, although keys are freed by reports that arrive after the sends have ended and
\* accounts are dropped in between.  Each send's key is held until its report is taken.
OneSendPerKey ==
  /\ Cardinality(sends) <= Permits
  /\ \A s \in sends : KeyOf(s.job) \in inFlight
  /\ \A s, t \in sends : KeyOf(s.job) = KeyOf(t.job) => s = t

\* No job is stranded: while the router rests, a job waits behind a send of its own
\* key or in the queue, each key is queued once and only with a job, and nobody is
\* queued while a permit is free.
NoneStranded ==
  todo = Idle =>
    /\ \A k \in DOMAIN waiting : k \in inFlight \/ Queued(k)
    /\ \A i, j \in 1..Len(order) : order[i] = order[j] => i = j
    /\ \A i \in 1..Len(order) : order[i] \in DOMAIN waiting /\ order[i] \notin inFlight
    /\ order # <<>> => Cardinality(inFlight) = Permits

\* A device hears of a room in the order the router decided: no job reaches the
\* provider after a newer one of its key, so that a read is not followed by the alert it
\* cleared.
InOrderStep == \A k \in Keys : posted'[k] >= posted[k]

\* InOrderStep, of every step.
InOrder == [][InOrderStep]_vars

\* The badge follows falls: a total no older than the last fall a badge-only push was
\* queued for has been read, or a push that will read one waits or has yet to read.
BadgeFollows ==
  \A t \in Apns :
    owed[t] > shown[t] =>
      \/ \E s \in sends : s.job.work = "Badge" /\ s.job.device = t /\ s.phase = "check"
      \/ [device |-> t, room |-> NoRoom] \in DOMAIN waiting
      \/ \E j \in todo.jobs : j.work = "Badge" /\ j.device = t

\* One wake per message: a message an alert was decided for is not remembered for
\* another one.
SentOnce == \A r \in Rooms : mem[r].slot \notin woken \ {0}

\* While nothing was dropped at the channel, the router's counts catch up with the
\* published ones once it has read everything, except where it was told to forget.
CountsFollow ==
  (chan = <<>> /\ ~lost) =>
    \A r \in Rooms : (mem[r].seeded /\ count[r] # NoPair /\ r \notin control.rooms) => mem[r].pair = count[r]

\* Once observations stop, a waiting job starts or is dropped: a finished send lets
\* the next one go.
WaitingStarts == \A k \in Keys : []<>(k \notin DOMAIN waiting)

\* Removing an account drops its queued wakes (lifecycle.rs, ADR 0113): once the
\* router has seen the removal, no send of the account starts.
RemovedIsQuietStep ==
  \A s \in sends' \ sends :
       (s.phase = "check" /\ ~s.cancelled /\ s.job.room # NoRoom)
          => Account[s.job.room] \notin (gone \ control.drop)

\* RemovedIsQuietStep, of every step.
RemovedIsQuiet == [][RemovedIsQuietStep]_vars

=============================================================================
