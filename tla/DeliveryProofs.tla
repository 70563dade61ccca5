--------------------------- MODULE DeliveryProofs ---------------------------
(***************************************************************************)
(* What goes out to the clients, for any numbers of rooms, devices,        *)
(* accounts, sessions and clients.                                         *)
(*                                                                         *)
(* PushRouter, with any number of permits and any capacity of its channel: *)
(* a key has one send at a time, a device hears of a room in the order the *)
(* router decided, the badge follows every fall, a message wakes a device  *)
(* once, and the remembered counts follow the published ones.              *)
(*                                                                         *)
(* PushDelivery, with any bounds on time, bearers and errors: the sends    *)
(* follow the registration as it is, and so do the answers to them.        *)
(*                                                                         *)
(* LiveFanout, with any cap of the pending map and any capacity of the     *)
(* channel: no wake-up of the flusher is lost, and no change on its way    *)
(* from a write to a connected client's screen.                            *)
(***************************************************************************)
EXTENDS PushRouter, SequenceTheorems, FiniteSetTheorems, NaturalsInduction,
        WellFoundedInduction, TLAPS

CONSTANTS Sessions, Tasks, MaxClock, MaxBearer, MaxErrors, PushApns, PushFcm

CONSTANTS Listed, Clients, MaxPending, Backlog, Busy, MaxChanges, MaxConnects, MaxFaults

VARIABLES session, rows, died, snap, changed, errors, task, bearer, minted, refused, lapses,
          refusals

VARIABLES hand, taken, pend, closed, fresh, wake, flusher, flushing, late, cancelled, sock,
          backlog, lagged, out, reading, dirty, stuck, token, changes, connects, faults

\* The sends and the registrations. They share no state with the router: the variables
\* `clock` and `gone` are theirs in the theorems about them.
Push == INSTANCE PushDelivery WITH Apns <- PushApns, Fcm <- PushFcm

\* The live updates of the room list.
Fanout == INSTANCE LiveFanout WITH Rooms <- Listed, Capacity <- Backlog

-----------------------------------------------------------------------------
(* Types.  The queue `order` is left out: it decides which job is next, and  *)
(* none of the properties below depend on that.                              *)

\* A job has a key, and a badge-only push has no room.
Sound(j) == j \in Jobs /\ KeyOf(j) \in Keys /\ (j.room = NoRoom <=> j.work = "Badge")

SoundJobs == {j \in Jobs : Sound(j)}

Typed ==
  /\ clock \in Serials
  /\ chan \in Seq(Observations)
  /\ mem \in [Rooms -> Memories]
  /\ DOMAIN waiting \subseteq Keys
  /\ \A k \in DOMAIN waiting : waiting[k] \in SoundJobs /\ KeyOf(waiting[k]) = k
  /\ todo \in [jobs : SUBSET SoundJobs, finished : Seq(Keys), pump : BOOLEAN]
  /\ control \in [finished : Seq(Keys), drop : SUBSET Accounts, rooms : SUBSET Rooms,
                  unseed : SUBSET Accounts]
  /\ sends \subseteq [job : SoundJobs, cancelled : BOOLEAN, phase : {"check", "post", "done"}]
  /\ posted \in [Keys -> Serials]
  /\ owed \in [Apns -> Serials] /\ shown \in [Apns -> Serials]
  /\ woken \subseteq Serials

LEMMA InitTyped == PushAssumption /\ Init => Typed
<1> SUFFICES ASSUME PushAssumption, Init PROVE Typed
  OBVIOUS
<1>1. 0 \in Serials /\ <<0, 0>> \in Pairs
  BY DEF PushAssumption, Serials, Pairs
<1>2. Absent \in Memories
  BY <1>1 DEF Absent, Memories
<1>3. todo \in [jobs : SUBSET SoundJobs, finished : Seq(Keys), pump : BOOLEAN]
  BY DEF Init, Idle
<1>4. control \in [finished : Seq(Keys), drop : SUBSET Accounts, rooms : SUBSET Rooms,
                   unseed : SUBSET Accounts]
  BY DEF Init, NoControl
<1>5. DOMAIN waiting = {}
  BY DEF Init
<1> QED
  BY <1>1, <1>2, <1>3, <1>4, <1>5 DEF Init, Typed

\* What the case list makes of a memory and an observation.
LEMMA DecideTyped ==
  ASSUME PushAssumption, NEW m \in Memories, NEW o \in Observations
  PROVE  /\ decide(m, o).mem \in Memories
         /\ decide(m, o).send \in {0, o.at, m.slot}
<1> DEFINE notifying == o.class = "Notify"
           after == IF o.after = NoPair THEN m.pair ELSE o.after
           fell == IF after[1] < m.pair[1] THEN after[1] ELSE -1
           kept == Stored(m, after)
<1>1. after \in Pairs
  BY DEF Memories, Observations
<1>2. 0 \in Serials /\ o.at \in Serials /\ m.slot \in Serials /\ Absent \in Memories
  BY DEF PushAssumption, Serials, Memories, Observations, Absent, Pairs
<1> HIDE DEF after
<1>3. kept \in Memories /\ Release(m, after) \in Memories
  BY <1>1, <1>2 DEF Stored, Release, Memories
<1> HIDE DEF kept
<1>4. [kept EXCEPT !.unpaired = after] \in Memories /\ [kept EXCEPT !.slot = o.at] \in Memories
  BY <1>1, <1>2, <1>3 DEF Memories
<1>5. [Absent EXCEPT !.known = TRUE, !.seeded = (o.after # NoPair), !.pair = after,
                     !.slot = IF notifying THEN o.at ELSE m.slot] \in Memories
  BY <1>1, <1>2 DEF Memories, Absent
<1> QED
  BY <1>3, <1>4, <1>5 DEF decide, Decision, Fell, after, kept

LEMMA JobsTyped ==
  ASSUME PushAssumption, NEW o \in Observations, NEW d
  PROVE  /\ jobs_for(o, d) \subseteq SoundJobs
         /\ \A j \in jobs_for(o, d) : j.at = o.at
<1> DEFINE job(device, room, work) == [device |-> device, room |-> room, work |-> work, at |-> o.at]
<1>1. o.room \in Rooms /\ o.at \in Serials /\ o.room # NoRoom
  BY DEF Observations, PushAssumption
<1>2. \A t \in Devices : job(t, o.room, "Alert") \in SoundJobs
  BY <1>1 DEF SoundJobs, Sound, Jobs, Keys, KeyOf
<1>3. \A t \in Apns : job(t, NoRoom, "Badge") \in SoundJobs
  BY <1>1 DEF SoundJobs, Sound, Jobs, Keys, KeyOf, Devices
<1>4. \A t \in Fcm : job(t, o.room, "RoomRead") \in SoundJobs
  BY <1>1 DEF SoundJobs, Sound, Jobs, Keys, KeyOf, Devices
<1>5. jobs_for(o, d) \subseteq {job(t, o.room, "Alert") : t \in Devices}
                                  \cup {job(t, NoRoom, "Badge") : t \in Apns}
                                  \cup {job(t, o.room, "RoomRead") : t \in Fcm}
  BY DEF jobs_for
<1> QED
  BY <1>2, <1>3, <1>4, <1>5

LEMMA ObserveTyped ==
  ASSUME PushAssumption, Typed, NEW r \in Rooms, NEW after \in Pairs \cup {NoPair},
         NEW class \in {"Notify", "Other"}, observe(r, after, class)
  PROVE  /\ clock' \in Serials /\ clock' = clock + 1
         /\ chan' \in Seq(Observations)
         /\ \/ chan' = Append(chan, [at |-> clock + 1, room |-> r, after |-> after, class |-> class])
               /\ lost' = lost
            \/ chan' = chan /\ lost' = TRUE
<1>1. clock + 1 \in Serials
  BY DEF observe, Typed, Serials, PushAssumption
<1>2. [at |-> clock + 1, room |-> r, after |-> after, class |-> class] \in Observations
  BY <1>1 DEF Observations
<1>3. \/ chan' = Append(chan, [at |-> clock + 1, room |-> r, after |-> after, class |-> class])
         /\ lost' = lost
      \/ chan' = chan /\ lost' = TRUE
  BY Zenon DEF observe
<1>4. chan' \in Seq(Observations)
  <2> DEFINE o == [at |-> clock + 1, room |-> r, after |-> after, class |-> class]
  <2>1. chan' = chan \/ chan' = Append(chan, o)
    BY <1>3, Zenon
  <2>2. o \in Observations /\ chan \in Seq(Observations)
    BY <1>2 DEF Typed
  <2> HIDE DEF o
  <2> QED
    BY <2>1, <2>2
<1> QED
  BY <1>1, <1>3, <1>4, Zenon DEF observe

\* The steps of the producers but for what they observe.
LEMMA ProduceTyped ==
  ASSUME PushAssumption, Typed, Produce
  PROVE  /\ Typed'
         /\ UNCHANGED <<mem, scheduler, todo, sends, history>> /\ control'.finished = control.finished
<1>1. ASSUME NEW r \in Rooms, NEW p \in Pairs, Count(r, p)
      PROVE  /\ Typed'
             /\ UNCHANGED <<mem, scheduler, todo, control, sends, history>>
  <2>1. UNCHANGED <<mem, scheduler, todo, control, sends, history>>
    BY <1>1 DEF Count
  <2>2. clock' \in Serials /\ chan' \in Seq(Observations)
    BY <1>1, ObserveTyped DEF Count
  <2> QED
    BY <2>1, <2>2 DEF Typed, scheduler, history
<1>2. ASSUME NEW r \in Rooms, Message(r)
      PROVE  /\ Typed'
             /\ UNCHANGED <<mem, scheduler, todo, control, sends, history>>
  <2>1. UNCHANGED <<mem, scheduler, todo, control, sends, history>>
    BY <1>2 DEF Message
  <2>2. clock' \in Serials /\ chan' \in Seq(Observations)
    BY <1>2, ObserveTyped DEF Message
  <2> QED
    BY <2>1, <2>2 DEF Typed, scheduler, history
<1>3. ASSUME NEW r \in Rooms, RoomDropped(r)
      PROVE  /\ Typed'
             /\ UNCHANGED <<mem, scheduler, todo, sends, history>> /\ control'.finished = control.finished
  <2>1. /\ UNCHANGED <<clock, chan, mem, scheduler, todo, sends, history>>
        /\ control' = [control EXCEPT !.rooms = @ \cup {r}]
    BY <1>3 DEF RoomDropped
  <2>2. /\ control' \in [finished : Seq(Keys), drop : SUBSET Accounts, rooms : SUBSET Rooms,
                         unseed : SUBSET Accounts]
        /\ control'.finished = control.finished
    BY <2>1 DEF Typed
  <2> QED
    BY <2>1, <2>2 DEF Typed, scheduler, history
<1>4. ASSUME NEW a \in Accounts, Lagged(a) \/ AccountRemoved(a)
      PROVE  /\ Typed'
             /\ UNCHANGED <<mem, scheduler, todo, sends, history>> /\ control'.finished = control.finished
  <2>1. /\ UNCHANGED <<clock, chan, mem, scheduler, todo, sends, history>>
        /\ control' \in {[control EXCEPT !.unseed = @ \cup {a}], [control EXCEPT !.drop = @ \cup {a}]}
    BY <1>4 DEF Lagged, AccountRemoved, producers
  <2>2. /\ control' \in [finished : Seq(Keys), drop : SUBSET Accounts, rooms : SUBSET Rooms,
                         unseed : SUBSET Accounts]
        /\ control'.finished = control.finished
    BY <2>1 DEF Typed
  <2> QED
    BY <2>1, <2>2 DEF Typed, scheduler, history
<1> QED
  BY <1>1, <1>2, <1>3, <1>4 DEF Produce

LEMMA ExpireTyped ==
  ASSUME PushAssumption, Typed, NEW r \in Rooms, Expire(r)
  PROVE  /\ Typed'
         /\ UNCHANGED <<producers, chan, lost, scheduler, todo, control, sends, history>>
         /\ \A x \in Rooms : /\ mem'[x].slot \in {0, mem[x].slot}
                             /\ mem'[x].seeded = mem[x].seeded /\ mem'[x].pair = mem[x].pair
<1>1. UNCHANGED <<producers, chan, lost, scheduler, todo, control, sends, history>>
  BY DEF Expire
<1>2. PICK m : /\ m \in {[mem[r] EXCEPT !.slot = 0], [mem[r] EXCEPT !.unpaired = NoPair],
                         [mem[r] EXCEPT !.slot = 0, !.unpaired = NoPair]}
               /\ mem' = [mem EXCEPT ![r] = m]
  <2>1. mem \in [Rooms -> Memories]
    BY DEF Typed
  <2> QED
    BY <2>1 DEF Expire
<1>3. 0 \in Serials /\ mem[r] \in Memories
  BY DEF Typed, Serials, PushAssumption
<1>4. m \in Memories /\ m.slot \in {0, mem[r].slot} /\ m.seeded = mem[r].seeded /\ m.pair = mem[r].pair
  BY <1>2, <1>3 DEF Memories
<1>5. mem' \in [Rooms -> Memories]
  BY <1>2, <1>4 DEF Typed
<1>6. \A x \in Rooms : mem'[x] = IF x = r THEN m ELSE mem[x]
  BY <1>2 DEF Typed
<1> QED
  BY <1>1, <1>4, <1>5, <1>6 DEF Typed, producers, scheduler, history

LEMMA ApplyObservationTyped ==
  ASSUME PushAssumption, Typed, ApplyObservation
  PROVE  Typed'
<1> DEFINE o == Head(chan)
           d == decide(mem[o.room], o)
<1>1. /\ mem' = [mem EXCEPT ![o.room] = d.mem]
      /\ todo' = [Idle EXCEPT !.jobs = jobs_for(o, d)]
      /\ woken' = IF d.send = 0 THEN woken ELSE woken \cup {d.send}
      /\ owed' = [t \in Apns |-> IF \E j \in jobs_for(o, d) : j.work = "Badge" /\ j.device = t
                                 THEN o.at ELSE owed[t]]
      /\ chan' = Tail(chan) /\ chan # <<>>
      /\ UNCHANGED <<producers, scheduler, control, sends, posted, shown>>
  BY DEF ApplyObservation
<1>2. o \in Observations /\ Tail(chan) \in Seq(Observations)
  BY <1>1 DEF Typed
<1>3. o.room \in Rooms /\ o.at \in Serials /\ mem[o.room] \in Memories
  BY <1>2 DEF Typed, Observations
<1>4. mem[o.room].slot \in Serials /\ 0 \in Serials
  BY <1>3 DEF Memories, Serials, PushAssumption
<1> HIDE DEF o, d
<1>5. d.mem \in Memories /\ d.send \in Serials
  BY <1>2, <1>3, <1>4, DecideTyped DEF d
<1>6. jobs_for(o, d) \subseteq SoundJobs
  BY <1>2, JobsTyped
<1>7. todo' \in [jobs : SUBSET SoundJobs, finished : Seq(Keys), pump : BOOLEAN]
  <2>1. todo' = [jobs |-> jobs_for(o, d), finished |-> <<>>, pump |-> FALSE]
    BY <1>1 DEF Idle
  <2> QED
    BY <1>6, <2>1
<1>8. mem' \in [Rooms -> Memories] /\ woken' \subseteq Serials /\ owed' \in [Apns -> Serials]
  BY <1>1, <1>3, <1>5 DEF Typed
<1> QED
  BY <1>1, <1>2, <1>7, <1>8 DEF Typed, producers, scheduler

\* What a step that enqueues a job does.
LEMMA EnqueueJobTyped ==
  ASSUME PushAssumption, Typed, NEW job \in todo.jobs, enqueue(job),
         todo' = [todo EXCEPT !.jobs = @ \ {job}],
         UNCHANGED <<producers, chan, lost, mem, control, history>>
  PROVE  /\ Typed' /\ job \in SoundJobs
         /\ todo'.jobs = todo.jobs \ {job} /\ todo'.finished = todo.finished
         /\ \/ UNCHANGED <<inFlight, sends>> /\ waiting' = With(waiting, KeyOf(job), job)
            \/ /\ KeyOf(job) \notin inFlight /\ Cardinality(inFlight) < Permits
               /\ inFlight' = inFlight \cup {KeyOf(job)}
               /\ sends' = sends \cup {[job |-> job, cancelled |-> FALSE, phase |-> "check"]}
               /\ waiting' = waiting
<1>1. job \in SoundJobs /\ KeyOf(job) \in Keys
  BY DEF Typed, SoundJobs, Sound
<1>2. /\ todo' \in [jobs : SUBSET SoundJobs, finished : Seq(Keys), pump : BOOLEAN]
      /\ todo'.jobs = todo.jobs \ {job} /\ todo'.finished = todo.finished
  BY DEF Typed
<1>3. \/ UNCHANGED <<inFlight, sends>> /\ waiting' = With(waiting, KeyOf(job), job)
      \/ /\ KeyOf(job) \notin inFlight /\ Cardinality(inFlight) < Permits
         /\ inFlight' = inFlight \cup {KeyOf(job)}
         /\ sends' = sends \cup {[job |-> job, cancelled |-> FALSE, phase |-> "check"]}
         /\ waiting' = waiting
  BY DEF enqueue, start_job
<1>4. /\ DOMAIN waiting' \subseteq Keys
      /\ \A k \in DOMAIN waiting' : waiting'[k] \in SoundJobs /\ KeyOf(waiting'[k]) = k
  <2>1. CASE waiting' = waiting
    BY <2>1 DEF Typed
  <2>2. CASE waiting' = With(waiting, KeyOf(job), job)
    BY <1>1, <2>2 DEF Typed, With
  <2> QED
    BY <1>3, <2>1, <2>2
<1>5. sends' \subseteq [job : SoundJobs, cancelled : BOOLEAN, phase : {"check", "post", "done"}]
  <2>1. [job |-> job, cancelled |-> FALSE, phase |-> "check"]
          \in [job : SoundJobs, cancelled : BOOLEAN, phase : {"check", "post", "done"}]
    BY <1>1
  <2> QED
    BY <1>3, <2>1 DEF Typed
<1>6. /\ clock' \in Serials /\ chan' \in Seq(Observations) /\ mem' \in [Rooms -> Memories]
      /\ control' \in [finished : Seq(Keys), drop : SUBSET Accounts, rooms : SUBSET Rooms,
                       unseed : SUBSET Accounts]
      /\ posted' \in [Keys -> Serials]
      /\ owed' \in [Apns -> Serials] /\ shown' \in [Apns -> Serials] /\ woken' \subseteq Serials
  BY DEF Typed, producers, history
<1> QED
  BY <1>1, <1>2, <1>3, <1>4, <1>5, <1>6 DEF Typed

\* The sends once the dropped accounts' are cancelled.
LEMMA ApplyControlTyped ==
  ASSUME PushAssumption, Typed, ApplyControl
  PROVE  /\ Typed'
         /\ UNCHANGED <<clock, chan, lost, inFlight, posted, owed, shown, woken>>
         /\ todo = Idle /\ todo'.jobs = {} /\ todo'.finished = control.finished
         /\ control' = NoControl
         /\ \A r \in Rooms : \/ mem'[r] = mem[r] /\ r \notin control.rooms
                             \/ mem'[r] = Absent
                             \/ ~mem'[r].seeded /\ mem'[r].slot = mem[r].slot /\ r \notin control.rooms
         /\ \A k \in DOMAIN waiting' : k \in DOMAIN waiting /\ waiting'[k] = waiting[k]
         /\ \A k \in DOMAIN waiting : waiting[k].room = NoRoom => k \in DOMAIN waiting'
         /\ \A s \in sends' : \E t \in sends : /\ s.job = t.job /\ s.phase = t.phase
                                               /\ s.cancelled => t.cancelled \/ s.job.room # NoRoom
         /\ \A t \in sends : \E s \in sends' : s.job = t.job /\ s.phase = t.phase
         /\ \A s, t \in sends' : KeyOf(s.job) = KeyOf(t.job) =>
              s = t \/ \E x, y \in sends : x # y /\ KeyOf(x.job) = KeyOf(y.job)
<1> DEFINE hit(s) == s.job.room # NoRoom /\ Account[s.job.room] \in control.drop
           cut(s) == [s EXCEPT !.cancelled = @ \/ hit(s)]
           S == [job : SoundJobs, cancelled : BOOLEAN, phase : {"check", "post", "done"}]
<1>1. /\ UNCHANGED <<producers, chan, lost, history>> /\ inFlight' = inFlight
      /\ todo = Idle /\ control' = NoControl
      /\ todo' = [Idle EXCEPT !.finished = control.finished]
      /\ mem' = [r \in Rooms |->
               IF r \in control.rooms \/ Account[r] \in control.drop THEN Absent
               ELSE IF Account[r] \in control.unseed
               THEN [mem[r] EXCEPT !.seeded = FALSE, !.unpaired = NoPair]
               ELSE mem[r]]
      /\ waiting' = [k \in {x \in DOMAIN waiting : KeptJob(waiting[x], control.drop, control.rooms)}
                 |-> waiting[k]]
      /\ sends' = {cut(s) : s \in sends}
  BY DEF ApplyControl, Dropped
<1>2. Absent \in Memories
  BY DEF Absent, Memories, PushAssumption, Serials, Pairs
<1>3. \A r \in Rooms : LET m == [mem[r] EXCEPT !.seeded = FALSE, !.unpaired = NoPair]
                       IN m \in Memories /\ ~m.seeded /\ m.slot = mem[r].slot
  <2> SUFFICES ASSUME NEW r \in Rooms
               PROVE  LET m == [mem[r] EXCEPT !.seeded = FALSE, !.unpaired = NoPair]
                      IN m \in Memories /\ ~m.seeded /\ m.slot = mem[r].slot
    OBVIOUS
  <2>1. mem[r] \in Memories
    BY DEF Typed
  <2> QED
    BY <2>1 DEF Memories
<1>4. /\ mem' \in [Rooms -> Memories]
      /\ \A r \in Rooms : \/ mem'[r] = mem[r] /\ r \notin control.rooms
                          \/ mem'[r] = Absent
                          \/ ~mem'[r].seeded /\ mem'[r].slot = mem[r].slot /\ r \notin control.rooms
  BY <1>1, <1>2, <1>3 DEF Typed
<1>5. /\ DOMAIN waiting' \subseteq DOMAIN waiting
      /\ \A k \in DOMAIN waiting' : waiting'[k] = waiting[k]
      /\ \A k \in DOMAIN waiting : waiting[k].room = NoRoom => k \in DOMAIN waiting'
  BY <1>1 DEF KeptJob
<1>6. /\ todo' \in [jobs : SUBSET SoundJobs, finished : Seq(Keys), pump : BOOLEAN]
      /\ todo'.jobs = {} /\ todo'.finished = control.finished
  BY <1>1 DEF Idle, Typed
<1>7. control' \in [finished : Seq(Keys), drop : SUBSET Accounts, rooms : SUBSET Rooms,
                    unseed : SUBSET Accounts]
  <2>1. control' = NoControl
    BY <1>1
  <2> QED
    BY <2>1 DEF NoControl
<1>8. ASSUME NEW s \in sends
      PROVE  /\ cut(s) \in S
             /\ cut(s).job = s.job /\ cut(s).phase = s.phase
             /\ cut(s).cancelled => s.cancelled \/ s.job.room # NoRoom
  <2>1. s \in S
    BY DEF Typed
  <2>2. DOMAIN s = {"job", "cancelled", "phase"} /\ s.job \in SoundJobs /\ s.cancelled \in BOOLEAN
        /\ s.phase \in {"check", "post", "done"}
    BY <2>1
  <2>3. cut(s) = [job |-> s.job, cancelled |-> s.cancelled \/ hit(s), phase |-> s.phase]
    BY <2>1, <2>2
  <2>4. (s.cancelled \/ hit(s)) \in BOOLEAN
    OBVIOUS
  <2> HIDE DEF cut
  <2>5. cut(s) \in S
    BY <2>2, <2>3, <2>4
  <2>6. cut(s).job = s.job /\ cut(s).phase = s.phase
    BY <2>3
  <2>7. cut(s).cancelled = (s.cancelled \/ hit(s))
    <3> DEFINE c == s.cancelled \/ hit(s)
    <3>1. cut(s) = [job |-> s.job, cancelled |-> c, phase |-> s.phase]
      BY <2>3
    <3> HIDE DEF c
    <3>2. cut(s).cancelled = c
      BY <3>1
    <3> QED
      BY <3>2 DEF c
  <2>8. cut(s).cancelled => s.cancelled \/ s.job.room # NoRoom
    BY <2>7, Zenon
  <2> QED
    BY <2>5, <2>6, <2>8
<1>13. sends' = {cut(s) : s \in sends}
  BY <1>1
<1> HIDE DEF cut
<1>9. /\ sends' \subseteq S
      /\ \A s \in sends' : \E t \in sends : /\ s.job = t.job /\ s.phase = t.phase
                                            /\ s.cancelled => t.cancelled \/ s.job.room # NoRoom
      /\ \A t \in sends : \E s \in sends' : s.job = t.job /\ s.phase = t.phase
  BY <1>8, <1>13
<1>10. \A s, t \in sends' : KeyOf(s.job) = KeyOf(t.job) =>
              s = t \/ \E x, y \in sends : x # y /\ KeyOf(x.job) = KeyOf(y.job)
  BY <1>8, <1>13
<1>11. UNCHANGED <<clock, posted, owed, shown, woken>>
  BY <1>1 DEF producers, history
<1>12. Typed'
  BY <1>1, <1>4, <1>5, <1>6, <1>7, <1>9, <1>11 DEF Typed
<1> QED
  BY <1>1, <1>4, <1>5, <1>6, <1>9, <1>10, <1>11, <1>12

\* The job that waited for key k, if there was one.
Waited(k) == IF k \in DOMAIN waiting THEN {waiting[k]} ELSE {}

LEMMA WaitedTyped ==
  ASSUME Typed, NEW k
  PROVE  /\ Waited(k) \subseteq SoundJobs /\ \A j \in Waited(k) : KeyOf(j) = k
         /\ DOMAIN Without(waiting, k) = DOMAIN waiting \ {k}
         /\ \A x \in DOMAIN Without(waiting, k) : Without(waiting, k)[x] = waiting[x]
BY DEF Typed, Waited, Without

LEMMA FinishedTyped ==
  ASSUME PushAssumption, Typed, Finished
  PROVE  /\ Typed'
         /\ UNCHANGED <<producers, chan, lost, mem, control, sends, history>>
         /\ todo.finished # <<>> /\ todo.jobs = {}
         /\ inFlight' = inFlight \ {Head(todo.finished)}
         /\ todo'.jobs = Waited(Head(todo.finished)) /\ todo'.finished = Tail(todo.finished)
         /\ waiting' = Without(waiting, Head(todo.finished))
<1> DEFINE k == Head(todo.finished)
<1>1. /\ UNCHANGED <<producers, chan, lost, mem, control, sends, history>>
      /\ todo.finished # <<>> /\ todo.jobs = {}
      /\ inFlight' = inFlight \ {k}
      /\ waiting' = Without(waiting, k)
      /\ todo' = [todo EXCEPT !.finished = Tail(@), !.pump = TRUE, !.jobs = Waited(k)]
  BY DEF Finished, Waited
<1>2. todo \in [jobs : SUBSET SoundJobs, finished : Seq(Keys), pump : BOOLEAN]
  BY DEF Typed
<1>3. Tail(todo.finished) \in Seq(Keys) /\ k \in Keys
  BY <1>1, <1>2
<1> HIDE DEF k
<1>4. Waited(k) \subseteq SoundJobs
  BY WaitedTyped
<1>5. /\ todo' \in [jobs : SUBSET SoundJobs, finished : Seq(Keys), pump : BOOLEAN]
      /\ todo'.jobs = Waited(k) /\ todo'.finished = Tail(todo.finished)
  BY <1>1, <1>2, <1>3, <1>4
<1>6. Typed'
  <2>1. /\ DOMAIN waiting' \subseteq DOMAIN waiting
        /\ \A x \in DOMAIN waiting' : waiting'[x] = waiting[x]
    BY <1>1, WaitedTyped
  <2> QED
    BY <1>1, <1>5, <2>1 DEF Typed, producers, history
<1> QED
  BY <1>1, <1>5, <1>6 DEF k

LEMMA PumpTyped ==
  ASSUME PushAssumption, Typed, Pump
  PROVE  /\ Typed'
         /\ UNCHANGED <<producers, chan, lost, mem, inFlight, control, sends, history>>
         /\ todo.jobs = {} /\ todo'.finished = todo.finished
         /\ \/ todo'.jobs = {} /\ waiting' = waiting
            \/ \E k : todo'.jobs = Waited(k) /\ waiting' = Without(waiting, k)
<1>1. /\ UNCHANGED <<producers, chan, lost, mem, inFlight, control, sends, history>>
      /\ todo.jobs = {}
  BY DEF Pump
<1>2. todo \in [jobs : SUBSET SoundJobs, finished : Seq(Keys), pump : BOOLEAN]
  BY DEF Typed
<1>3. CASE todo' = [todo EXCEPT !.pump = FALSE] /\ UNCHANGED <<order, waiting>>
  <2>1. /\ todo' \in [jobs : SUBSET SoundJobs, finished : Seq(Keys), pump : BOOLEAN]
        /\ todo'.jobs = {} /\ todo'.finished = todo.finished
    BY <1>1, <1>2, <1>3
  <2>2. Typed'
    BY <1>1, <1>3, <2>1 DEF Typed, producers, history
  <2> QED
    BY <1>1, <1>3, <2>1, <2>2
<1>4. ASSUME NEW k, waiting' = Without(waiting, k), todo' = [todo EXCEPT !.jobs = Waited(k)]
      PROVE  /\ Typed' /\ todo'.finished = todo.finished /\ todo'.jobs = Waited(k)
  <2>1. Waited(k) \subseteq SoundJobs
    BY WaitedTyped
  <2>2. /\ todo' \in [jobs : SUBSET SoundJobs, finished : Seq(Keys), pump : BOOLEAN]
        /\ todo'.jobs = Waited(k) /\ todo'.finished = todo.finished
    BY <1>2, <1>4, <2>1
  <2>3. /\ DOMAIN waiting' \subseteq DOMAIN waiting
        /\ \A x \in DOMAIN waiting' : waiting'[x] = waiting[x]
    BY <1>4, WaitedTyped
  <2>4. Typed'
    BY <1>1, <2>2, <2>3 DEF Typed, producers, history
  <2> QED
    BY <2>2, <2>4
<1> QED
  BY <1>1, <1>3, <1>4 DEF Pump, Waited

LEMMA CheckTyped ==
  ASSUME PushAssumption, Typed, NEW s \in sends, Check(s)
  PROVE  \E t : /\ Typed'
                /\ UNCHANGED <<producers, chan, lost, mem, scheduler, todo, control, owed, woken>>
                /\ sends' = (sends \ {s}) \cup {t} /\ t.job = s.job /\ ~t.cancelled
                /\ s.phase = "check" /\ t.phase # "check"
                /\ posted' \in {posted, [posted EXCEPT ![KeyOf(s.job)] = s.job.at]}
                /\ shown' = IF s.job.work = "Badge" THEN [shown EXCEPT ![s.job.device] = clock]
                            ELSE shown
<1>1. PICK phase \in {"post", "done"} :
        /\ UNCHANGED <<producers, chan, lost, mem, scheduler, todo, control, owed, woken>>
        /\ s.phase = "check" /\ ~s.cancelled
        /\ shown' = IF s.job.work = "Badge" THEN [shown EXCEPT ![s.job.device] = clock] ELSE shown
        /\ sends' = (sends \ {s}) \cup {[s EXCEPT !.phase = phase]}
        /\ posted' = IF phase = "post" THEN [posted EXCEPT ![KeyOf(s.job)] = s.job.at] ELSE posted
  BY DEF Check
<1> DEFINE t == [s EXCEPT !.phase = phase]
           S == [job : SoundJobs, cancelled : BOOLEAN, phase : {"check", "post", "done"}]
<1>2. s \in S
  BY DEF Typed
<1>3. t \in S /\ t.job = s.job /\ t.cancelled = s.cancelled /\ t.phase = phase
  BY <1>2
<1>4. s.job \in Jobs /\ s.job.at \in Serials /\ KeyOf(s.job) \in Keys
  BY <1>2 DEF SoundJobs, Sound, Jobs
<1>5. s.job.work = "Badge" => s.job.device \in Apns
  BY <1>2, <1>4 DEF SoundJobs, Sound, Keys, KeyOf, PushAssumption
<1> HIDE DEF t
<1>6. sends' \subseteq S
  BY <1>1, <1>3 DEF Typed, t
<1>7. posted' \in [Keys -> Serials] /\ shown' \in [Apns -> Serials]
  BY <1>1, <1>4, <1>5 DEF Typed
<1>8. Typed'
  BY <1>1, <1>6, <1>7 DEF Typed, producers, scheduler
<1>9. ~t.cancelled
  BY <1>1, <1>3
<1>10. /\ sends' = (sends \ {s}) \cup {t} /\ t.phase # "check" /\ s.phase = "check"
       /\ posted' \in {posted, [posted EXCEPT ![KeyOf(s.job)] = s.job.at]}
  BY <1>1, <1>3 DEF t
<1> QED
  BY <1>1, <1>3, <1>8, <1>9, <1>10

LEMMA FinishTyped ==
  ASSUME PushAssumption, Typed, NEW s \in sends, Finish(s)
  PROVE  /\ Typed'
         /\ UNCHANGED <<producers, chan, lost, mem, scheduler, todo, history>>
         /\ sends' = sends \ {s} /\ (s.phase # "check" \/ s.cancelled)
         /\ control' = [control EXCEPT !.finished = Append(@, KeyOf(s.job))]
         /\ control'.finished = Append(control.finished, KeyOf(s.job))
         /\ control'.rooms = control.rooms
<1>1. /\ UNCHANGED <<producers, chan, lost, mem, scheduler, todo, history>>
      /\ sends' = sends \ {s} /\ (s.phase # "check" \/ s.cancelled)
      /\ control' = [control EXCEPT !.finished = Append(@, KeyOf(s.job))]
  BY DEF Finish
<1>2. KeyOf(s.job) \in Keys
  BY DEF Typed, SoundJobs, Sound
<1>3. control \in [finished : Seq(Keys), drop : SUBSET Accounts, rooms : SUBSET Rooms,
                   unseed : SUBSET Accounts]
  BY DEF Typed
<1>4. Append(control.finished, KeyOf(s.job)) \in Seq(Keys)
  BY <1>2, <1>3
<1>5. /\ control' \in [finished : Seq(Keys), drop : SUBSET Accounts, rooms : SUBSET Rooms,
                       unseed : SUBSET Accounts]
      /\ control'.finished = Append(control.finished, KeyOf(s.job))
      /\ control'.rooms = control.rooms
  BY <1>1, <1>3, <1>4
<1>6. Typed'
  BY <1>1, <1>5 DEF Typed, producers, scheduler, history
<1> QED
  BY <1>1, <1>5, <1>6

LEMMA StutterTyped ==
  ASSUME UNCHANGED vars
  PROVE  /\ Typed => Typed'
         /\ UNCHANGED <<producers, chan, lost, mem, scheduler, todo, control, sends, history>>
BY DEF vars, Typed, producers, scheduler, history

LEMMA NextTyped == PushAssumption /\ Typed /\ [Next]_vars => Typed'
<1> SUFFICES ASSUME PushAssumption, Typed, [Next]_vars PROVE Typed'
  OBVIOUS
<1>1. CASE EnqueueJob
  BY <1>1, EnqueueJobTyped DEF EnqueueJob
<1>2. ASSUME NEW s \in sends, Check(s) PROVE Typed'
  BY <1>2, CheckTyped
<1> QED
  BY <1>1, <1>2, ProduceTyped, ApplyObservationTyped, ApplyControlTyped, FinishedTyped,
     PumpTyped, ExpireTyped, FinishTyped, StutterTyped
  DEF Next, Route

-----------------------------------------------------------------------------
(* A key has one owner *)

Within(q, k) == \E i \in DOMAIN q : q[i] = k
Once(q) == \A i, j \in DOMAIN q : q[i] = q[j] => i = j

LEMMA AppendOnce ==
  ASSUME NEW S, NEW q \in Seq(S), NEW x \in S
  PROVE  /\ \A k : Within(Append(q, x), k) <=> Within(q, k) \/ k = x
         /\ Once(q) /\ ~Within(q, x) => Once(Append(q, x))
<1>1. /\ Len(q) \in Nat /\ DOMAIN q = 1..Len(q) /\ DOMAIN Append(q, x) = 1..(Len(q) + 1)
      /\ \A i \in 1..Len(q) : Append(q, x)[i] = q[i]
      /\ Append(q, x)[Len(q) + 1] = x
  OBVIOUS
<1>2. \A i \in 1..(Len(q) + 1) : i \in 1..Len(q) \/ i = Len(q) + 1
  BY <1>1
<1>3. 1..Len(q) \subseteq 1..(Len(q) + 1) /\ Len(q) + 1 \in 1..(Len(q) + 1)
  BY <1>1
<1> QED
  BY <1>1, <1>2, <1>3, Zenon DEF Within, Once

LEMMA TailOnce ==
  ASSUME NEW S, NEW q \in Seq(S), q # <<>>
  PROVE  /\ \A k : Within(q, k) <=> Within(Tail(q), k) \/ k = Head(q)
         /\ Once(q) => Once(Tail(q)) /\ ~Within(Tail(q), Head(q))
<1>1. /\ Len(q) \in Nat /\ Len(q) > 0 /\ DOMAIN q = 1..Len(q) /\ DOMAIN Tail(q) = 1..(Len(q) - 1)
      /\ \A i \in 1..(Len(q) - 1) : Tail(q)[i] = q[i + 1]
      /\ Head(q) = q[1]
  OBVIOUS
<1>2. ASSUME NEW k PROVE Within(q, k) <=> Within(Tail(q), k) \/ k = Head(q)
  <2>1. ASSUME NEW i \in 1..Len(q), q[i] = k, i # 1 PROVE Within(Tail(q), k)
    <3>1. i - 1 \in 1..(Len(q) - 1) /\ Tail(q)[i - 1] = q[i]
      BY <1>1, <2>1
    <3> QED
      BY <1>1, <2>1, <3>1 DEF Within
  <2>2. ASSUME NEW i \in 1..(Len(q) - 1), Tail(q)[i] = k PROVE Within(q, k)
    <3>1. i + 1 \in 1..Len(q) /\ Tail(q)[i] = q[i + 1]
      BY <1>1, <2>2
    <3> QED
      BY <1>1, <2>2, <3>1 DEF Within
  <2>3. 1 \in 1..Len(q)
    BY <1>1
  <2> QED
    BY <1>1, <2>1, <2>2, <2>3 DEF Within
<1>3. ASSUME Once(q) PROVE Once(Tail(q)) /\ ~Within(Tail(q), Head(q))
  <2>1. \A i \in 1..(Len(q) - 1) : i + 1 \in 1..Len(q) /\ i + 1 # 1 /\ 1 \in 1..Len(q)
    BY <1>1
  <2>2. ~Within(Tail(q), Head(q))
    BY <1>1, <1>3, <2>1 DEF Once, Within
  <2>3. \A i, j \in 1..(Len(q) - 1) : i + 1 = j + 1 => i = j
    BY <1>1
  <2>4. Once(Tail(q))
    BY <1>1, <1>3, <2>1, <2>3 DEF Once
  <2> QED
    BY <2>2, <2>4
<1> QED
  BY <1>2, <1>3

\* Where a key is: its send is in the air, its end is reported, or it is being released.
InAir(k) == \E s \in sends : KeyOf(s.job) = k
Reported(k) == Within(control.finished, k)
Releasing(k) == Within(todo.finished, k)

\* A key in flight has one owner at most, and what owns a key is in flight.
Owners ==
  /\ \A k : InAir(k) => k \in inFlight /\ ~Reported(k) /\ ~Releasing(k)
  /\ \A k : Reported(k) => k \in inFlight /\ ~Releasing(k)
  /\ \A k : Releasing(k) => k \in inFlight
  /\ \A s, t \in sends : KeyOf(s.job) = KeyOf(t.job) => s = t
  /\ Once(control.finished) /\ Once(todo.finished)

Bounded == IsFiniteSet(inFlight) /\ Cardinality(inFlight) <= Permits

OwnInv == Typed /\ Owners /\ Bounded

LEMMA InitOwn == PushAssumption /\ Init => OwnInv
<1> SUFFICES ASSUME PushAssumption, Init PROVE OwnInv
  OBVIOUS
<1>1. control.finished = <<>> /\ todo.finished = <<>> /\ sends = {} /\ inFlight = {}
  BY DEF Init, NoControl, Idle
<1>2. Owners
  BY <1>1 DEF Owners, InAir, Reported, Releasing, Within, Once
<1>3. Bounded
  BY <1>1, FS_EmptySet DEF Bounded, PushAssumption
<1> QED
  BY <1>2, <1>3, InitTyped DEF OwnInv

LEMMA NextOwn == PushAssumption /\ OwnInv /\ [Next]_vars => OwnInv'
<1> SUFFICES ASSUME PushAssumption, OwnInv, [Next]_vars PROVE Owners' /\ Bounded'
  BY NextTyped DEF OwnInv
<1>0. Typed /\ Owners /\ Bounded
  BY DEF OwnInv
<1>1. ASSUME sends' = sends, todo'.finished = todo.finished,
             control'.finished = control.finished,
             inFlight' = inFlight
      PROVE  Owners' /\ Bounded'
  BY <1>0, <1>1 DEF Owners, Bounded, InAir, Reported, Releasing
<1>2. CASE Produce
  <2>1. UNCHANGED <<scheduler, todo, sends>> /\ control'.finished = control.finished
    BY <1>0, <1>2, ProduceTyped
  <2> QED
    BY <1>1, <2>1 DEF scheduler
<1>3. CASE ApplyObservation
  <2>1. todo.finished = <<>> /\ todo'.finished = <<>> /\ UNCHANGED <<scheduler, control, sends>>
    BY <1>3 DEF ApplyObservation, Idle
  <2> QED
    BY <1>1, <2>1 DEF scheduler
<1>4. CASE EnqueueJob
  <2>1. UNCHANGED control
    BY <1>4 DEF EnqueueJob
  <2>2. PICK job \in todo.jobs : enqueue(job) /\ todo' = [todo EXCEPT !.jobs = @ \ {job}]
    BY <1>4 DEF EnqueueJob
  <2> DEFINE k == KeyOf(job)
             new == [job |-> job, cancelled |-> FALSE, phase |-> "check"]
  <2>3. /\ todo'.finished = todo.finished
        /\ \/ UNCHANGED <<inFlight, sends>>
           \/ /\ k \notin inFlight /\ Cardinality(inFlight) < Permits
              /\ inFlight' = inFlight \cup {k} /\ sends' = sends \cup {new}
    BY <1>0, <1>4, <2>2, EnqueueJobTyped DEF EnqueueJob
  <2>4. CASE UNCHANGED <<inFlight, sends>>
    BY <1>1, <2>1, <2>3, <2>4
  <2>5. CASE /\ k \notin inFlight /\ Cardinality(inFlight) < Permits
             /\ inFlight' = inFlight \cup {k} /\ sends' = sends \cup {new}
    <3>1. KeyOf(new.job) = k
      OBVIOUS
    <3> HIDE DEF k, new
    <3>2. Bounded'
      <4>1. IsFiniteSet(inFlight \cup {k}) /\ Cardinality(inFlight \cup {k}) = Cardinality(inFlight) + 1
        BY <1>0, <2>5, FS_AddElement DEF Bounded
      <4>2. Cardinality(inFlight) \in Nat
        BY <1>0, FS_CardinalityType DEF Bounded
      <4> QED
        BY <2>5, <4>1, <4>2 DEF Bounded, PushAssumption
    <3>3. \A x : InAir(x)' <=> InAir(x) \/ x = k
      BY <2>5, <3>1 DEF InAir
    <3>4. \A x : (Reported(x)' <=> Reported(x)) /\ (Releasing(x)' <=> Releasing(x))
      BY <2>1, <2>3 DEF Reported, Releasing
    <3>5. \A s \in sends : KeyOf(s.job) # k
      BY <1>0, <2>5 DEF Owners, InAir
    <3>6. \A s, t \in sends' : KeyOf(s.job) = KeyOf(t.job) => s = t
      BY <1>0, <2>5, <3>1, <3>5 DEF Owners
    <3>7. \A x : (InAir(x) \/ Reported(x) \/ Releasing(x)) => x \in inFlight /\ x # k
      BY <1>0, <2>5 DEF Owners
    <3>8. Once(control.finished)' /\ Once(todo.finished)'
      BY <1>0, <2>1, <2>3 DEF Owners
    <3>9. Owners'
      BY <1>0, <2>5, <3>3, <3>4, <3>6, <3>7, <3>8 DEF Owners
    <3> QED
      BY <3>2, <3>9
  <2> QED
    BY <2>3, <2>4, <2>5
<1>5. CASE ApplyControl
  <2>1. /\ inFlight' = inFlight /\ todo.finished = <<>> /\ todo'.finished = control.finished
        /\ control'.finished = <<>>
        /\ \A s \in sends' : \E t \in sends : s.job = t.job
        /\ \A s, t \in sends' : KeyOf(s.job) = KeyOf(t.job) =>
              s = t \/ \E x, y \in sends : x # y /\ KeyOf(x.job) = KeyOf(y.job)
    BY <1>0, <1>5, ApplyControlTyped DEF Idle, NoControl
  <2>2. \A k : InAir(k)' => InAir(k)
    BY <2>1 DEF InAir
  <2>3. \A k : (Releasing(k)' <=> Reported(k)) /\ ~Reported(k)'
    BY <2>1 DEF Reported, Releasing, Within
  <2>4. Once(control.finished)' /\ Once(todo.finished)'
    BY <1>0, <2>1 DEF Owners, Once
  <2>5. \A s, t \in sends' : KeyOf(s.job) = KeyOf(t.job) => s = t
    BY <1>0, <2>1 DEF Owners
  <2>6. Owners'
    BY <1>0, <2>1, <2>2, <2>3, <2>4, <2>5 DEF Owners
  <2> QED
    BY <1>0, <2>1, <2>6 DEF Bounded
<1>6. CASE Finished
  <2>0. PICK k : k = Head(todo.finished)
    OBVIOUS
  <2>1. /\ UNCHANGED <<control, sends>> /\ todo.finished # <<>>
        /\ inFlight' = inFlight \ {k} /\ todo'.finished = Tail(todo.finished)
    BY <1>0, <1>6, <2>0, FinishedTyped
  <2>2. todo.finished \in Seq(Keys)
    BY <1>0 DEF Typed
  <2>3. /\ \A x : Releasing(x) <=> Releasing(x)' \/ x = k
        /\ Once(todo.finished)' /\ ~Releasing(k)'
    BY <1>0, <2>0, <2>1, <2>2, TailOnce DEF Releasing, Owners
  <2>4. \A x : (InAir(x)' <=> InAir(x)) /\ (Reported(x)' <=> Reported(x))
    BY <2>1 DEF InAir, Reported
  <2>5. Owners'
    BY <1>0, <2>1, <2>3, <2>4 DEF Owners
  <2>6. Bounded'
    <3>1. IsFiniteSet(inFlight \ {k}) /\ Cardinality(inFlight \ {k}) <= Cardinality(inFlight)
      <4>1. inFlight \ {k} \in SUBSET inFlight /\ IsFiniteSet(inFlight)
        BY <1>0 DEF Bounded
      <4> QED
        BY <4>1, FS_Subset
    <3>2. Cardinality(inFlight) \in Nat /\ Cardinality(inFlight \ {k}) \in Nat /\ Permits \in Nat
      BY <1>0, <3>1, FS_CardinalityType DEF Bounded, PushAssumption
    <3> QED
      BY <1>0, <2>1, <3>1, <3>2 DEF Bounded
  <2> QED
    BY <2>5, <2>6
<1>7. CASE Pump
  BY <1>0, <1>1, <1>7, PumpTyped
<1>8. ASSUME NEW r \in Rooms, Expire(r) PROVE Owners' /\ Bounded'
  BY <1>0, <1>1, <1>8, ExpireTyped DEF scheduler
<1>9. ASSUME NEW s \in sends, Check(s) PROVE Owners' /\ Bounded'
  <2>1. PICK t : /\ UNCHANGED <<scheduler, todo, control>>
                 /\ sends' = (sends \ {s}) \cup {t} /\ t.job = s.job
    BY <1>0, <1>9, CheckTyped
  <2>2. \A k : InAir(k)' <=> InAir(k)
    BY <2>1 DEF InAir
  <2>3. \A x, y \in sends' : KeyOf(x.job) = KeyOf(y.job) => x = y
    BY <1>0, <2>1 DEF Owners
  <2> QED
    BY <1>0, <2>1, <2>2, <2>3 DEF Owners, Bounded, scheduler, Reported, Releasing
<1>10. ASSUME NEW s \in sends, Finish(s) PROVE Owners' /\ Bounded'
  <2> DEFINE k == KeyOf(s.job)
  <2>1. /\ UNCHANGED <<scheduler, todo>> /\ sends' = sends \ {s}
        /\ control'.finished = Append(control.finished, k)
    BY <1>0, <1>10, FinishTyped
  <2>2. control.finished \in Seq(Keys) /\ k \in Keys
    BY <1>0 DEF Typed, SoundJobs, Sound
  <2>3. InAir(k)
    BY DEF InAir
  <2> HIDE DEF k
  <2>4. k \in inFlight /\ ~Reported(k) /\ ~Releasing(k)
    BY <1>0, <2>3 DEF Owners
  <2>5. /\ \A x : Reported(x)' <=> Reported(x) \/ x = k
        /\ Once(control.finished)'
    BY <1>0, <2>1, <2>2, <2>4, AppendOnce DEF Reported, Owners
  <2>6. \A x : InAir(x)' => InAir(x) /\ x # k
    BY <1>0, <2>1 DEF InAir, Owners, k
  <2>7. \A x : Releasing(x)' <=> Releasing(x)
    BY <2>1 DEF Releasing
  <2>8. Owners'
    BY <1>0, <2>1, <2>4, <2>5, <2>6, <2>7 DEF Owners, scheduler
  <2> QED
    BY <1>0, <2>1, <2>8 DEF Bounded, scheduler
<1>11. CASE UNCHANGED vars
  BY <1>1, <1>11, StutterTyped DEF scheduler
<1> QED
  BY <1>2, <1>3, <1>4, <1>5, <1>6, <1>7, <1>8, <1>9, <1>10, <1>11 DEF Next, Route

\* The sends map one to one to keys in flight.
LEMMA OwnBounds == ASSUME PushAssumption, OwnInv PROVE OneSendPerKey
<1>0. Owners /\ Bounded
  BY DEF OwnInv
<1> DEFINE f == [s \in sends |-> KeyOf(s.job)]
<1>1. f \in Injection(sends, inFlight)
  BY <1>0 DEF Injection, IsInjective, Owners, InAir
<1>2. Cardinality(sends) <= Cardinality(inFlight) /\ IsFiniteSet(sends)
  BY <1>0, <1>1, FS_Injection DEF Bounded
<1>3. Cardinality(sends) \in Nat /\ Cardinality(inFlight) \in Nat /\ Permits \in Nat
  BY <1>0, <1>2, FS_CardinalityType DEF Bounded, PushAssumption
<1>4. Cardinality(sends) <= Permits
  BY <1>0, <1>2, <1>3 DEF Bounded
<1> QED
  BY <1>0, <1>4 DEF OneSendPerKey, Owners, InAir

\* The sends in the air stay within the permits and no two share a key, although a key is freed by
\* a report that arrives after its send has ended and accounts are dropped in between
\* (Scheduler::enqueue, finished and pump).
THEOREM SendsCorrect == ASSUME PushAssumption PROVE Spec => []OneSendPerKey
<1>1. Init => OwnInv
  BY InitOwn
<1>2. OwnInv /\ [Next]_vars => OwnInv'
  BY NextOwn
<1>3. OwnInv => OneSendPerKey
  BY OwnBounds
<1> QED
  BY <1>1, <1>2, <1>3, PTL DEF Spec

-----------------------------------------------------------------------------
(* The queue of keys that wait for a permit *)

\* A nonempty set of naturals has a least element: induction without a parameter.
LEMMA Least == ASSUME NEW T \in SUBSET Nat, T # {} PROVE \E n \in T : \A m \in T : n <= m
<1> DEFINE R == OpToRel(<, Nat)
<1>1. ASSUME NEW x \in Nat, NEW y \in Nat, y < x PROVE <<y, x>> \in R
  <2>1. <<y, x>>[1] = y /\ <<y, x>>[2] = x /\ <<y, x>> \in Nat \X Nat
    OBVIOUS
  <2> QED
    BY <1>1, <2>1, Zenon DEF OpToRel
<1>2. \E x \in T : \A y \in T : ~(<<y, x>> \in R)
  BY NatLessThanWellFounded, WFMin, Zenon
<1>3. \E x \in T : \A y \in T : ~(y < x)
  BY <1>1, <1>2, Zenon
<1> QED
  BY <1>3

\* One step of retain, and the function that is defined by it.
Keeping(keep, before, x) == IF x \in keep THEN Append(before, x) ELSE before
Keeps(q, keep, n, f) ==
  f = [i \in 0..n |-> IF i = 0 THEN <<>> ELSE Keeping(keep, f[i - 1], q[i])]

LEMMA KeepsExists ==
  ASSUME NEW q, NEW keep, NEW n \in Nat PROVE \E f : Keeps(q, keep, n, f)
<1> DEFINE T == {m \in Nat : ~\E f : Keeps(q, keep, m, f)}
<1> SUFFICES ASSUME T # {} PROVE FALSE
  OBVIOUS
<1>1. PICK m \in T : \A l \in T : m <= l
  BY Least
<1>2. m \in Nat
  OBVIOUS
<1>3. CASE m = 0
  <2>1. Keeps(q, keep, 0, [i \in 0..0 |-> <<>>])
    BY DEF Keeps
  <2> QED
    BY <1>3, <2>1
<1>4. CASE m # 0
  <2>1. m - 1 \in Nat /\ ~(m <= m - 1)
    BY <1>2, <1>4
  <2>2. PICK f : Keeps(q, keep, m - 1, f)
    BY <1>1, <2>1
  <2>3. /\ f = [i \in 0..(m - 1) |-> IF i = 0 THEN <<>> ELSE Keeping(keep, f[i - 1], q[i])]
    BY <2>2 DEF Keeps
  <2> DEFINE g == [i \in 0..m |-> IF i < m THEN f[i] ELSE Keeping(keep, f[i - 1], q[i])]
  <2>4. ASSUME NEW i \in 0..m, i # 0
        PROVE  i - 1 \in 0..m /\ i - 1 < m /\ (i < m => i \in 0..(m - 1))
    BY <1>2, <2>4
  <2>5. \A i \in 0..m : i # 0 => g[i - 1] = f[i - 1]
    BY <2>4
  <2>6. 0 \in 0..m /\ 0 < m /\ 0 \in 0..(m - 1)
    BY <1>2, <1>4
  <2>7. f[0] = <<>> /\ \A i \in 0..(m - 1) : i # 0 => f[i] = Keeping(keep, f[i - 1], q[i])
    BY <2>3, <2>6
  <2>8. \A i \in 0..m : g[i] = IF i = 0 THEN <<>> ELSE Keeping(keep, g[i - 1], q[i])
    BY <2>4, <2>5, <2>6, <2>7
  <2>9. g = [i \in 0..m |-> g[i]]
    OBVIOUS
  <2> HIDE DEF g
  <2>10. g = [i \in 0..m |-> IF i = 0 THEN <<>> ELSE Keeping(keep, g[i - 1], q[i])]
    BY <2>8, <2>9
  <2> QED
    BY <2>10 DEF Keeps
<1> QED
  BY <1>3, <1>4

LEMMA RetainIs ==
  ASSUME NEW q, NEW keep, Len(q) \in Nat
  PROVE  \E f : Keeps(q, keep, Len(q), f) /\ retain(q, keep) = f[Len(q)]
<1>1. \E f : Keeps(q, keep, Len(q), f)
  BY KeepsExists
<1> QED
  BY <1>1 DEF Keeps, Keeping, retain

\* retain takes out what it does not keep, and nothing else.
LEMMA Retained ==
  ASSUME NEW A, NEW q \in Seq(A), NEW keep
  PROVE  /\ retain(q, keep) \in Seq(A)
         /\ \A k : Within(retain(q, keep), k) <=> Within(q, k) /\ k \in keep
         /\ Once(q) => Once(retain(q, keep))
<1>0. Len(q) \in Nat /\ DOMAIN q = 1..Len(q) /\ \A i \in 1..Len(q) : q[i] \in A
  OBVIOUS
<1>1. PICK f : Keeps(q, keep, Len(q), f) /\ retain(q, keep) = f[Len(q)]
  BY <1>0, RetainIs
<1>2. /\ f[0] = <<>>
      /\ \A i \in 1..Len(q) : f[i] = IF q[i] \in keep THEN Append(f[i - 1], q[i]) ELSE f[i - 1]
  <2>1. \A i \in 0..Len(q) : f[i] = IF i = 0 THEN <<>> ELSE Keeping(keep, f[i - 1], q[i])
    BY <1>1 DEF Keeps
  <2>2. 0 \in 0..Len(q) /\ \A i \in 1..Len(q) : i \in 0..Len(q) /\ i # 0
    BY <1>0
  <2> QED
    BY <2>1, <2>2 DEF Keeping
<1> DEFINE before(i, k) == \E j \in 1..i : q[j] = k /\ k \in keep
           P(i) == /\ f[i] \in Seq(A)
                   /\ \A k : Within(f[i], k) <=> before(i, k)
                   /\ Once(q) => Once(f[i])
           T == {i \in 0..Len(q) : ~P(i)}
<1>3. ASSUME T # {} PROVE FALSE
  <2>1. T \in SUBSET Nat
    BY <1>0
  <2>2. PICK i \in T : \A l \in T : i <= l
    BY <1>3, <2>1, Least
  <2>3. i \in 0..Len(q) /\ ~P(i)
    OBVIOUS
  <2>4. CASE i = 0
    <3>1. f[i] = <<>> /\ 1..i = {}
      BY <1>2, <2>4
    <3>2. P(i)
      BY <3>1 DEF Within, Once
    <3> QED
      BY <2>3, <3>2
  <2>5. CASE i # 0
    <3>1. i - 1 \in 0..Len(q) /\ ~(i <= i - 1) /\ i \in 1..Len(q)
      BY <1>0, <2>3, <2>5
    <3>2. P(i - 1)
      BY <2>2, <3>1
    <3>3. \A k : before(i, k) <=> before(i - 1, k) \/ (q[i] = k /\ k \in keep)
      <4>1. \A j : j \in 1..i <=> j \in 1..(i - 1) \/ j = i
        BY <2>3, <2>5
      <4> QED
        BY <4>1
    <3>4. q[i] \in A
      BY <1>0, <3>1
    <3>5. f[i] = IF q[i] \in keep THEN Append(f[i - 1], q[i]) ELSE f[i - 1]
      BY <1>2, <3>1
    <3>6. CASE q[i] \notin keep
      BY <2>3, <3>2, <3>3, <3>5, <3>6
    <3>7. CASE q[i] \in keep
      <4> HIDE DEF before
      <4>1. Append(f[i - 1], q[i]) \in Seq(A)
        BY <3>2, <3>4
      <4>2. \A k : Within(Append(f[i - 1], q[i]), k) <=> Within(f[i - 1], k) \/ k = q[i]
        BY <3>2, <3>4, AppendOnce
      <4>3. ASSUME Once(q) PROVE Once(Append(f[i - 1], q[i]))
        <5>1. ~before(i - 1, q[i])
          <6>1. \A j \in 1..(i - 1) : j # i /\ j \in DOMAIN q /\ i \in DOMAIN q
            BY <1>0, <2>3, <2>5
          <6> QED
            BY <4>3, <6>1 DEF before, Once
        <5>2. ~Within(f[i - 1], q[i]) /\ Once(f[i - 1]) /\ f[i - 1] \in Seq(A)
          BY <3>2, <4>3, <5>1
        <5> QED
          BY <3>4, <5>2, AppendOnce
      <4> QED
        BY <2>3, <3>2, <3>3, <3>5, <3>7, <4>1, <4>2, <4>3
    <3> QED
      BY <3>6, <3>7
  <2> QED
    BY <2>4, <2>5
<1>4. P(Len(q))
  <2>1. Len(q) \in 0..Len(q)
    BY <1>0
  <2> QED
    BY <1>3, <2>1
<1> QED
  BY <1>0, <1>1, <1>4 DEF Within

\* What waits is behind a send of its key or queued; what is queued waits and is not in flight; the
\* queue is empty while a permit is free, until the router is about to pump.
Line ==
  /\ order \in Seq(Keys) /\ Once(order)
  /\ \A k \in DOMAIN waiting : k \in inFlight \/ Within(order, k)
  /\ \A k : Within(order, k) => k \in DOMAIN waiting /\ k \notin inFlight
  /\ ~todo.pump /\ order # <<>> => Cardinality(inFlight) = Permits

\* What pump and finished hand to enqueue is one job, and nothing of its key waits.
Handed ==
  todo.pump => /\ \A j, l \in todo.jobs : j = l
               /\ \A j \in todo.jobs : KeyOf(j) \notin DOMAIN waiting

LineInv == OwnInv /\ Line /\ Handed

LEMMA InitLine == PushAssumption /\ Init => LineInv
<1> SUFFICES ASSUME PushAssumption, Init PROVE Line /\ Handed
  BY InitOwn DEF LineInv
<1>1. order = <<>> /\ DOMAIN waiting = {} /\ todo.jobs = {}
  BY DEF Init, Idle
<1> QED
  BY <1>1 DEF Line, Handed, Within, Once

\* The key of a job that starts does not wait.
LEMMA StartsAlone ==
  ASSUME LineInv, PushAssumption, NEW job \in todo.jobs, KeyOf(job) \notin inFlight,
         Cardinality(inFlight) < Permits
  PROVE  KeyOf(job) \notin DOMAIN waiting /\ (~todo.pump => order = <<>>)
<1>1. Line /\ Handed /\ Bounded
  BY DEF LineInv, OwnInv
<1>2. Cardinality(inFlight) # Permits
  BY <1>1, FS_CardinalityType DEF Bounded, PushAssumption
<1>3. ~todo.pump => order = <<>>
  BY <1>1, <1>2 DEF Line
<1>4. CASE todo.pump
  BY <1>1, <1>3, <1>4 DEF Handed
<1>5. CASE ~todo.pump
  <2>1. \A k : ~Within(order, k)
    BY <1>3, <1>5 DEF Within
  <2> QED
    BY <1>1, <1>3, <2>1 DEF Line
<1> QED
  BY <1>4, <1>5

LEMMA EnqueueLine ==
  ASSUME PushAssumption, LineInv, EnqueueJob PROVE Line' /\ Handed'
<1>0. Typed /\ Line /\ Handed /\ Bounded /\ Bounded'
  BY NextOwn DEF LineInv, OwnInv, Next, Route
<1>1. PICK job \in todo.jobs : enqueue(job) /\ todo' = [todo EXCEPT !.jobs = @ \ {job}]
  BY DEF EnqueueJob
<1> DEFINE k == KeyOf(job)
<1>2. todo'.jobs = todo.jobs \ {job} /\ todo'.pump = todo.pump /\ k \in Keys
  BY <1>0, <1>1 DEF Typed, SoundJobs, Sound
<1>3. DOMAIN With(waiting, k, job) = DOMAIN waiting \cup {k}
  BY DEF With
<1> HIDE DEF k
<1>4. ASSUME DOMAIN waiting' \subseteq DOMAIN waiting \cup {k}, k = KeyOf(job) PROVE Handed'
  <2>1. ASSUME todo.pump PROVE todo'.jobs = {}
    BY <1>0, <1>2, <2>1 DEF Handed
  <2> QED
    BY <1>2, <2>1 DEF Handed
<1>5. CASE /\ k \in inFlight /\ waiting' = With(waiting, k, job)
           /\ UNCHANGED <<inFlight, order, sends>>
  <2>1. Line'
    BY <1>0, <1>2, <1>3, <1>5 DEF Line
  <2> QED
    BY <1>3, <1>4, <1>5, <2>1 DEF k
<1>6. CASE /\ k \notin inFlight /\ Cardinality(inFlight) >= Permits
           /\ order' = IF Queued(k) THEN order ELSE Append(order, k)
           /\ waiting' = With(waiting, k, job)
           /\ UNCHANGED <<inFlight, sends>>
  <2>1. Queued(k) <=> Within(order, k)
    BY <1>0 DEF Queued, Within, Line
  <2>2. /\ order' \in Seq(Keys) /\ Once(order)'
        /\ \A x : Within(order, x)' <=> Within(order, x) \/ x = k
    <3>1. CASE Queued(k)
      BY <1>0, <1>6, <2>1, <3>1 DEF Line
    <3>2. CASE ~Queued(k)
      <4>1. order' = Append(order, k)
        BY <1>6, <3>2
      <4> QED
        BY <1>0, <1>2, <2>1, <3>2, <4>1, AppendOnce DEF Line
    <3> QED
      BY <3>1, <3>2
  <2>3. Cardinality(inFlight) = Permits
    BY <1>0, <1>6, FS_CardinalityType DEF Bounded, PushAssumption
  <2>4. \A x \in DOMAIN waiting' : x \in inFlight' \/ Within(order, x)'
    BY <1>0, <1>3, <1>6, <2>2 DEF Line
  <2>5. \A x : Within(order, x)' => x \in DOMAIN waiting' /\ x \notin inFlight'
    BY <1>0, <1>3, <1>6, <2>2 DEF Line
  <2>6. Line'
    BY <1>6, <2>2, <2>3, <2>4, <2>5 DEF Line
  <2> QED
    BY <1>3, <1>4, <1>6, <2>6 DEF k
<1>7. CASE /\ k \notin inFlight /\ Cardinality(inFlight) < Permits
           /\ inFlight' = inFlight \cup {k}
           /\ UNCHANGED <<waiting, order>>
  <2>1. k \notin DOMAIN waiting /\ (~todo.pump => order = <<>>)
    BY <1>7, StartsAlone DEF k
  <2>2. Line'
    BY <1>0, <1>2, <1>7, <2>1 DEF Line
  <2> QED
    BY <1>4, <1>7, <2>2 DEF k
<1> QED
  BY <1>1, <1>5, <1>6, <1>7 DEF enqueue, start_job, k

LEMMA NextLine == PushAssumption /\ LineInv /\ [Next]_vars => LineInv'
<1> SUFFICES ASSUME PushAssumption, LineInv, [Next]_vars PROVE Line' /\ Handed'
  BY NextOwn DEF LineInv
<1>0. Typed /\ Line /\ Handed /\ Bounded /\ Owners
  BY DEF LineInv, OwnInv
<1>1. ASSUME UNCHANGED <<scheduler, todo>> PROVE Line' /\ Handed'
  BY <1>0, <1>1 DEF Line, Handed, scheduler
<1>2. CASE Produce
  BY <1>0, <1>1, <1>2, ProduceTyped
<1>3. CASE ApplyObservation
  <2>1. ~todo.pump /\ ~todo'.pump /\ UNCHANGED scheduler
    BY <1>3 DEF ApplyObservation, Idle
  <2> QED
    BY <1>0, <2>1 DEF Line, Handed, scheduler
<1>4. CASE EnqueueJob
  BY <1>4, EnqueueLine
<1>5. CASE ApplyControl
  <2>1. /\ inFlight' = inFlight /\ ~todo.pump /\ ~todo'.pump
        /\ order' = retain(order, DOMAIN waiting' \cup inFlight)
    BY <1>5 DEF ApplyControl, Idle, Dropped
  <2>2. DOMAIN waiting' \subseteq DOMAIN waiting
    BY <1>0, <1>5, ApplyControlTyped
  <2>3. /\ order' \in Seq(Keys) /\ Once(order)'
        /\ \A k : Within(order, k)' <=> Within(order, k) /\ k \in DOMAIN waiting' \cup inFlight
    <3>1. order \in Seq(Keys) /\ Once(order)
      BY <1>0 DEF Line
    <3> QED
      BY <2>1, <3>1, Retained
  <2>4. order = <<>> => order' = <<>>
    <3>1. \A q : q \in Seq(Keys) /\ q # <<>> => Within(q, Head(q))
      <4> SUFFICES ASSUME NEW q, q \in Seq(Keys), q # <<>> PROVE Within(q, Head(q))
        OBVIOUS
      <4>1. 1 \in DOMAIN q /\ q[1] = Head(q)
        OBVIOUS
      <4> QED
        BY <4>1 DEF Within
    <3>2. order = <<>> => \A k : ~Within(order, k)
      BY DEF Within
    <3> QED
      BY <2>3, <3>1, <3>2
  <2>5. Line'
    BY <1>0, <2>1, <2>2, <2>3, <2>4 DEF Line
  <2> QED
    BY <2>1, <2>5 DEF Handed
<1>6. CASE Finished
  <2>0. PICK k : k = Head(todo.finished)
    OBVIOUS
  <2>1. /\ inFlight' = inFlight \ {k} /\ todo.finished # <<>>
        /\ todo'.jobs = Waited(k) /\ waiting' = Without(waiting, k)
    BY <1>0, <1>6, <2>0, FinishedTyped
  <2>2. /\ order' = IF k \in DOMAIN waiting THEN retain(order, Keys \ {k}) ELSE order
        /\ todo' = [todo EXCEPT !.finished = Tail(@), !.pump = TRUE, !.jobs = Waited(k)]
    BY <1>6, <2>0 DEF Finished, Waited
  <2>3. todo'.pump
    BY <1>0, <2>2 DEF Typed
  <2>4. Releasing(k)
    <3>1. todo.finished \in Seq(Keys)
      BY <1>0 DEF Typed
    <3>2. 1 \in DOMAIN todo.finished /\ todo.finished[1] = k
      BY <2>0, <2>1, <3>1
    <3> QED
      BY <3>2 DEF Releasing, Within
  <2>5. k \in inFlight /\ ~Within(order, k)
    BY <1>0, <2>4 DEF Owners, Line
  <2>6. /\ order' \in Seq(Keys) /\ Once(order)'
        /\ \A x : Within(order, x)' <=> Within(order, x)
    <3>1. order \in Seq(Keys) /\ Once(order)
      BY <1>0 DEF Line
    <3>2. \A x : Within(order, x) => x \in Keys \ {k}
      BY <2>5, <3>1 DEF Within
    <3>3. CASE order' = order
      BY <3>1, <3>3
    <3>4. CASE order' = retain(order, Keys \ {k})
      BY <3>1, <3>2, <3>4, Retained
    <3> QED
      BY <2>2, <3>3, <3>4
  <2>7. DOMAIN waiting' = DOMAIN waiting \ {k} /\ \A j \in todo'.jobs : KeyOf(j) = k
    BY <1>0, <2>1, WaitedTyped
  <2>8. Line'
    BY <1>0, <2>1, <2>3, <2>5, <2>6, <2>7 DEF Line
  <2>9. \A j, l \in todo'.jobs : j = l
    BY <2>1 DEF Waited
  <2> QED
    BY <2>7, <2>8, <2>9 DEF Handed
<1>7. CASE Pump
  <2>1. /\ todo.pump /\ inFlight' = inFlight
        /\ \/ /\ todo' = [todo EXCEPT !.pump = FALSE] /\ UNCHANGED <<order, waiting>>
              /\ ~(Cardinality(inFlight) < Permits /\ order # <<>>)
           \/ /\ order # <<>> /\ order' = Tail(order) /\ waiting' = Without(waiting, Head(order))
              /\ todo' = [todo EXCEPT !.jobs = Waited(Head(order))]
    BY <1>7 DEF Pump, Waited
  <2>2. CASE /\ todo' = [todo EXCEPT !.pump = FALSE] /\ UNCHANGED <<order, waiting>>
             /\ ~(Cardinality(inFlight) < Permits /\ order # <<>>)
    <3>1. ~todo'.pump
      BY <1>0, <2>2 DEF Typed
    <3>2. order # <<>> => Cardinality(inFlight) = Permits
      BY <1>0, <2>2, FS_CardinalityType DEF Bounded, PushAssumption
    <3> QED
      BY <1>0, <2>1, <2>2, <3>1, <3>2 DEF Line, Handed
  <2>3. CASE /\ order # <<>> /\ order' = Tail(order) /\ waiting' = Without(waiting, Head(order))
             /\ todo' = [todo EXCEPT !.jobs = Waited(Head(order))]
    <3>0. PICK k : k = Head(order)
      OBVIOUS
    <3>1. todo'.pump /\ todo'.jobs = Waited(k)
      BY <1>0, <2>1, <2>3, <3>0 DEF Typed
    <3>2. /\ order' \in Seq(Keys) /\ Once(order)' /\ ~Within(order, k)'
          /\ \A x : Within(order, x) <=> Within(order, x)' \/ x = k
      <4>1. order \in Seq(Keys) /\ Once(order)
        BY <1>0 DEF Line
      <4> QED
        BY <2>3, <3>0, <4>1, TailOnce
    <3>3. DOMAIN waiting' = DOMAIN waiting \ {k} /\ \A j \in todo'.jobs : KeyOf(j) = k
      BY <1>0, <2>3, <3>0, <3>1, WaitedTyped
    <3>4. Line'
      BY <1>0, <2>1, <3>1, <3>2, <3>3 DEF Line
    <3>5. \A j, l \in todo'.jobs : j = l
      BY <3>1 DEF Waited
    <3> QED
      BY <3>3, <3>4, <3>5 DEF Handed
  <2> QED
    BY <2>1, <2>2, <2>3
<1>8. ASSUME NEW r \in Rooms, Expire(r) PROVE Line' /\ Handed'
  BY <1>0, <1>1, <1>8, ExpireTyped
<1>9. ASSUME NEW s \in sends, Check(s) PROVE Line' /\ Handed'
  BY <1>0, <1>1, <1>9, CheckTyped
<1>10. ASSUME NEW s \in sends, Finish(s) PROVE Line' /\ Handed'
  BY <1>0, <1>1, <1>10, FinishTyped
<1>11. CASE UNCHANGED vars
  BY <1>1, <1>11, StutterTyped
<1> QED
  BY <1>2, <1>3, <1>4, <1>5, <1>6, <1>7, <1>8, <1>9, <1>10, <1>11 DEF Next, Route

LEMMA LineStrandsNone == LineInv => NoneStranded
<1> SUFFICES ASSUME Line, todo = Idle PROVE NoneStranded
  BY DEF LineInv, NoneStranded
<1>1. ~todo.pump /\ DOMAIN order = 1..Len(order)
  BY DEF Idle, Line
<1> QED
  BY <1>1 DEF NoneStranded, Line, Queued, Within, Once

\* No job is stranded: a job waits behind a send of its own key or in the queue, a key is queued once
\* and only with a job, and nobody is queued while a permit is free, whatever sends end, rooms leave
\* or accounts go in between (Scheduler).
THEOREM SchedulerCorrect == ASSUME PushAssumption PROVE Spec => []NoneStranded
<1>1. Init => LineInv
  BY InitLine
<1>2. LineInv /\ [Next]_vars => LineInv'
  BY NextLine
<1> QED
  BY <1>1, <1>2, LineStrandsNone, PTL DEF Spec

-----------------------------------------------------------------------------
(* The order of observations *)

\* The observations in the channel are in the order they were made.
Stamped ==
  /\ \A i \in DOMAIN chan : 0 < chan[i].at /\ chan[i].at <= clock
  /\ \A i, j \in DOMAIN chan : i < j => chan[i].at < chan[j].at

\* Observation n has been applied.
Past(n) == n <= clock /\ \A i \in DOMAIN chan : n < chan[i].at

LEMMA NoneObserved ==
  ASSUME UNCHANGED <<clock, chan>>
  PROVE  (Stamped => Stamped') /\ \A n : Past(n) => Past(n)'
BY DEF Stamped, Past

LEMMA OneObserved ==
  ASSUME PushAssumption, Typed, Stamped, NEW r \in Rooms, NEW after \in Pairs \cup {NoPair},
         NEW class \in {"Notify", "Other"}, observe(r, after, class)
  PROVE  Stamped' /\ \A n \in Serials : Past(n) => Past(n)'
<1> DEFINE o == [at |-> clock + 1, room |-> r, after |-> after, class |-> class]
<1>0. o.at = clock + 1
  OBVIOUS
<1>1. clock' = clock + 1 /\ clock \in Nat /\ (chan' = chan \/ chan' = Append(chan, o))
  <2>1. clock' = clock + 1 /\ (chan' = chan \/ chan' = Append(chan, o))
    BY ObserveTyped, Zenon
  <2>2. clock \in Nat
    BY DEF Typed, Serials
  <2> QED
    BY <2>1, <2>2
<1> HIDE DEF o
<1>2. /\ Len(chan) \in Nat /\ DOMAIN chan = 1..Len(chan)
      /\ \A i \in 1..Len(chan) : chan[i].at \in Int
  <2>1. Len(chan) \in Nat /\ DOMAIN chan = 1..Len(chan) /\ \A i \in 1..Len(chan) : chan[i] \in Observations
    BY DEF Typed
  <2>2. \A x \in Observations : x.at \in Int
    BY DEF Observations, Serials
  <2> QED
    BY <2>1, <2>2
<1>3. CASE chan' = chan
  BY <1>1, <1>2, <1>3 DEF Stamped, Past, Serials
<1>4. CASE chan' = Append(chan, o)
  <2>1. /\ DOMAIN chan' = 1..(Len(chan) + 1)
        /\ \A i \in 1..Len(chan) : chan'[i] = chan[i]
        /\ chan'[Len(chan) + 1] = o
    BY <1>4 DEF Typed
  <2>2. \A i \in 1..(Len(chan) + 1) : i \in 1..Len(chan) \/ (i = Len(chan) + 1 /\ i \notin 1..Len(chan))
    BY <1>2
  <2>4. \A i \in DOMAIN chan' : 0 < chan'[i].at /\ chan'[i].at <= clock'
    BY <1>0, <1>1, <1>2, <2>1, <2>2 DEF Stamped
  <2>5. ASSUME NEW i \in DOMAIN chan', NEW j \in DOMAIN chan',
               i < j PROVE chan'[i].at < chan'[j].at
    <3>1. i \in 1..Len(chan)
      BY <1>2, <2>1, <2>5
    <3>2. CASE j \in 1..Len(chan)
      BY <1>2, <2>1, <2>5, <3>1, <3>2 DEF Stamped
    <3>3. CASE j = Len(chan) + 1
      BY <1>0, <1>1, <1>2, <2>1, <3>1, <3>3 DEF Stamped
    <3> QED
      BY <2>1, <2>2, <3>2, <3>3
  <2>6. Stamped'
    BY <2>4, <2>5 DEF Stamped
  <2>3. ASSUME NEW n \in Serials, Past(n) PROVE Past(n)'
    <3>1. n \in Int
      BY DEF Serials
    <3> QED
      BY <1>0, <1>1, <1>2, <2>1, <2>3, <3>1 DEF Past
  <2> QED
    BY <2>3, <2>6
<1> QED
  BY <1>1, <1>3, <1>4

\* The observation that is applied is past, and all that were.
LEMMA OneApplied ==
  ASSUME Typed, Stamped, ApplyObservation
  PROVE  /\ Stamped'
         /\ \A n : Past(n) => Past(n)' /\ n < Head(chan).at
         /\ \A n : n = Head(chan).at => Past(n)' /\ n > 0
<1>1. chan' = Tail(chan) /\ chan # <<>> /\ clock' = clock
  BY DEF ApplyObservation, producers
<1>2. /\ Len(chan) \in Nat /\ Len(chan) > 0 /\ DOMAIN chan = 1..Len(chan)
      /\ DOMAIN Tail(chan) = 1..(Len(chan) - 1) /\ Head(chan) = chan[1]
      /\ \A i \in 1..(Len(chan) - 1) : Tail(chan)[i] = chan[i + 1]
  BY <1>1 DEF Typed
<1>3. \A i \in 1..(Len(chan) - 1) : i + 1 \in 1..Len(chan) /\ 1 < i + 1
  BY <1>2
<1>4. 1 \in 1..Len(chan)
  BY <1>2
<1>5. \A i, j \in 1..(Len(chan) - 1) : i < j => i + 1 < j + 1
  BY <1>2
<1>6. Stamped'
  BY <1>1, <1>2, <1>3, <1>5 DEF Stamped
<1>7. \A n : Past(n) => Past(n)' /\ n < Head(chan).at
  BY <1>1, <1>2, <1>3, <1>4 DEF Past
<1>8. \A n : n = chan[1].at => Past(n)' /\ n > 0
  BY <1>1, <1>2, <1>3, <1>4 DEF Past, Stamped
<1> QED
  BY <1>2, <1>6, <1>7, <1>8

\* The observations that have been applied.
Applied == {n \in Serials : Past(n)}

\* All that the router knows comes from observations it has applied.
Known ==
  /\ 0 \in Applied
  /\ posted \in [Keys -> Applied]
  /\ \A s \in sends : s.job.at \in Applied
  /\ \A k \in DOMAIN waiting : waiting[k].at \in Applied
  /\ \A j \in todo.jobs : j.at \in Applied
  /\ \A r \in Rooms : mem[r].slot \in Applied
  /\ woken \subseteq Applied
  /\ owed \in [Apns -> Applied]

KnownInv == Typed /\ Stamped /\ Known

LEMMA InitKnown == PushAssumption /\ Init => KnownInv
<1> SUFFICES ASSUME PushAssumption, Init PROVE Stamped /\ Known
  BY InitTyped DEF KnownInv
<1>1. chan = <<>> /\ clock = 0 /\ 0 \in Serials
  BY DEF Init, PushAssumption, Serials
<1>2. Stamped /\ 0 \in Applied
  BY <1>1 DEF Stamped, Applied, Past
<1>3. todo.jobs = {} /\ DOMAIN waiting = {} /\ \A r \in Rooms : mem[r].slot = 0
  BY DEF Init, Idle, Absent
<1> QED
  BY <1>2, <1>3 DEF Init, Known

LEMMA AppliedGrows ==
  ASSUME PushAssumption, Typed, Stamped, [Next]_vars
  PROVE  Stamped' /\ Applied \subseteq Applied'
<1>1. ASSUME Stamped', \A n \in Serials : Past(n) => Past(n)' PROVE Applied \subseteq Applied'
  BY <1>1 DEF Applied
<1>2. ASSUME UNCHANGED <<clock, chan>> PROVE Stamped' /\ Applied \subseteq Applied'
  BY <1>1, <1>2, NoneObserved
<1>3. ASSUME NEW r \in Rooms, NEW p \in Pairs, Count(r,
             p) PROVE Stamped' /\ Applied \subseteq Applied'
  BY <1>1, <1>3, OneObserved DEF Count
<1>4. ASSUME NEW r \in Rooms, Message(r) PROVE Stamped' /\ Applied \subseteq Applied'
  BY <1>1, <1>4, OneObserved DEF Message
<1>5. CASE ApplyObservation
  BY <1>1, <1>5, OneApplied
<1>6. ASSUME NEW r \in Rooms, RoomDropped(r) \/ Expire(r) PROVE UNCHANGED <<clock, chan>>
  BY <1>6 DEF RoomDropped, Expire, producers
<1>7. ASSUME NEW a \in Accounts, Lagged(a) \/ AccountRemoved(a) PROVE UNCHANGED <<clock, chan>>
  BY <1>7 DEF Lagged, AccountRemoved, producers
<1>8. ASSUME EnqueueJob \/ ApplyControl \/ Finished \/ Pump PROVE UNCHANGED <<clock, chan>>
  BY <1>8 DEF EnqueueJob, ApplyControl, Finished, Pump, producers
<1>9. ASSUME NEW s \in sends, Check(s) \/ Finish(s) PROVE UNCHANGED <<clock, chan>>
  BY <1>9 DEF Check, Finish, producers
<1>10. UNCHANGED vars => UNCHANGED <<clock, chan>>
  BY DEF vars
<1> QED
  BY <1>2, <1>3, <1>4, <1>5, <1>6, <1>7, <1>8, <1>9, <1>10 DEF Next, Produce, Route

\* What the case list remembers and sends.
LEMMA DecideSlots ==
  ASSUME NEW m \in Memories, NEW o \in Observations, PushAssumption
  PROVE  LET d == decide(m, o)
         IN /\ d.send \in {0, o.at, m.slot}
            /\ d.send = 0 => d.mem.slot \in {0, o.at, m.slot}
            /\ d.send # 0 => d.mem.slot = 0
<1> DEFINE notifying == o.class = "Notify"
           after == IF o.after = NoPair THEN m.pair ELSE o.after
           kept == Stored(m, after)
           learnt == [Absent EXCEPT !.known = TRUE, !.seeded = (o.after # NoPair), !.pair = after,
                                    !.slot = IF notifying THEN o.at ELSE m.slot]
<1> HIDE DEF after
<1>1. m.slot \in Serials /\ DOMAIN m = {"known", "seeded", "pair", "slot", "unpaired"}
  BY DEF Memories
<1>2. learnt.slot \in {o.at, m.slot}
  BY DEF Absent
<1>3. /\ kept.slot = m.slot /\ Release(m, after).slot = 0
      /\ [kept EXCEPT !.unpaired = after].slot = m.slot
      /\ [kept EXCEPT !.slot = o.at].slot = o.at
  BY <1>1 DEF Stored, Release
<1> HIDE DEF kept, learnt
<1> QED
  BY <1>2, <1>3 DEF decide, Decision, Fell, after, kept, learnt

LEMMA NextKnown == PushAssumption /\ KnownInv /\ [Next]_vars => KnownInv'
<1> SUFFICES ASSUME PushAssumption, KnownInv, [Next]_vars PROVE Known'
  BY NextTyped, AppliedGrows DEF KnownInv
<1>0. Typed /\ Stamped /\ Known /\ Applied \subseteq Applied'
  BY AppliedGrows DEF KnownInv
<1>1. ASSUME UNCHANGED <<mem, scheduler, todo, sends, history>> PROVE Known'
  BY <1>0, <1>1 DEF Known, scheduler, history
<1>2. CASE Produce
  BY <1>0, <1>1, <1>2, ProduceTyped
<1>3. CASE ApplyObservation
  <2>0. PICK o : o = Head(chan)
    OBVIOUS
  <2>1. PICK d : d = decide(mem[o.room], o)
    OBVIOUS
  <2>2. /\ mem' = [mem EXCEPT ![o.room] = d.mem]
        /\ todo' = [Idle EXCEPT !.jobs = jobs_for(o, d)]
        /\ woken' = IF d.send = 0 THEN woken ELSE woken \cup {d.send}
        /\ owed' = [t \in Apns |-> IF \E j \in jobs_for(o, d) : j.work = "Badge" /\ j.device = t
                                   THEN o.at ELSE owed[t]]
        /\ chan # <<>> /\ UNCHANGED <<scheduler, sends, posted>>
    BY <1>3, <2>0, <2>1 DEF ApplyObservation
  <2>3. o \in Observations
    BY <1>0, <2>0, <2>2 DEF Typed
  <2>4. o.room \in Rooms /\ o.at \in Serials /\ mem[o.room] \in Memories /\ 0 \in Serials
    BY <1>0, <2>3 DEF Typed, Observations, PushAssumption, Serials
  <2>5. o.at \in Applied' /\ 0 \in Applied'
    <3>1. Past(o.at)'
      BY <1>0, <1>3, <2>0, OneApplied
    <3> QED
      BY <1>0, <2>4, <3>1 DEF Applied, Known
  <2>6. mem[o.room].slot \in Applied'
    BY <1>0, <2>4 DEF Known
  <2>7. d.send \in Applied' /\ d.mem.slot \in Applied'
    BY <2>1, <2>3, <2>4, <2>5, <2>6, DecideSlots
  <2>8. \A j \in todo'.jobs : j.at \in Applied'
    <3>1. todo'.jobs = jobs_for(o, d)
      BY <2>2 DEF Idle
    <3> QED
      BY <2>3, <2>5, <3>1, JobsTyped
  <2>9. \A r \in Rooms : mem'[r].slot \in Applied'
    <3>1. \A r \in Rooms : mem'[r] = IF r = o.room THEN d.mem ELSE mem[r]
      BY <1>0, <2>2 DEF Typed
    <3> QED
      BY <1>0, <2>7, <3>1 DEF Known
  <2>10. woken' \subseteq Applied' /\ owed' \in [Apns -> Applied']
    BY <1>0, <2>2, <2>5, <2>7 DEF Known
  <2> QED
    BY <1>0, <2>2, <2>8, <2>9, <2>10 DEF Known, scheduler
<1>4. CASE EnqueueJob
  <2>1. PICK job \in todo.jobs : enqueue(job) /\ todo' = [todo EXCEPT !.jobs = @ \ {job}]
    BY <1>4 DEF EnqueueJob
  <2>2. UNCHANGED <<mem, history>>
    BY <1>4 DEF EnqueueJob
  <2>3. /\ todo'.jobs = todo.jobs \ {job}
        /\ \/ sends' = sends /\ waiting' = With(waiting, KeyOf(job), job)
           \/ /\ sends' = sends \cup {[job |-> job, cancelled |-> FALSE, phase |-> "check"]}
              /\ waiting' = waiting
    BY <1>0, <1>4, <2>1, EnqueueJobTyped DEF EnqueueJob
  <2>4. \A k \in DOMAIN waiting' : waiting'[k].at \in Applied'
    BY <1>0, <2>3 DEF Known, With
  <2>5. \A s \in sends' : s.job.at \in Applied'
    BY <1>0, <2>3 DEF Known
  <2> QED
    BY <1>0, <2>2, <2>3, <2>4, <2>5 DEF Known, history
<1>5. CASE ApplyControl
  <2>1. /\ UNCHANGED <<posted, owed, woken>> /\ todo'.jobs = {}
        /\ \A r \in Rooms : mem'[r] = Absent \/ mem'[r].slot = mem[r].slot
        /\ \A k \in DOMAIN waiting' : k \in DOMAIN waiting /\ waiting'[k] = waiting[k]
        /\ \A s \in sends' : \E t \in sends : s.job = t.job
    BY <1>0, <1>5, ApplyControlTyped
  <2>2. Absent.slot = 0
    BY DEF Absent
  <2>3. \A r \in Rooms : mem'[r].slot \in Applied'
    BY <1>0, <2>1, <2>2 DEF Known
  <2> QED
    BY <1>0, <2>1, <2>3 DEF Known
<1>6. CASE Finished
  <2>1. PICK k : /\ UNCHANGED <<mem, sends, history>>
                 /\ todo'.jobs = Waited(k) /\ waiting' = Without(waiting, k)
    BY <1>0, <1>6, FinishedTyped
  <2> QED
    BY <1>0, <2>1 DEF Known, Waited, Without, history
<1>7. CASE Pump
  <2>1. /\ UNCHANGED <<mem, sends, history>>
        /\ \/ todo'.jobs = {} /\ waiting' = waiting
           \/ \E k : todo'.jobs = Waited(k) /\ waiting' = Without(waiting, k)
    BY <1>0, <1>7, PumpTyped
  <2> QED
    BY <1>0, <2>1 DEF Known, Waited, Without, history
<1>8. ASSUME NEW r \in Rooms, Expire(r) PROVE Known'
  <2>1. /\ UNCHANGED <<scheduler, todo, sends, history>>
        /\ \A x \in Rooms : mem'[x].slot \in {0, mem[x].slot}
    BY <1>0, <1>8, ExpireTyped
  <2> QED
    BY <1>0, <2>1 DEF Known, scheduler, history
<1>9. ASSUME NEW s \in sends, Check(s) PROVE Known'
  <2>1. PICK t : /\ UNCHANGED <<mem, scheduler, todo, owed, woken>>
                 /\ sends' = (sends \ {s}) \cup {t} /\ t.job = s.job
                 /\ posted' \in {posted, [posted EXCEPT ![KeyOf(s.job)] = s.job.at]}
    BY <1>0, <1>9, CheckTyped
  <2>2. posted' \in [Keys -> Applied'] /\ \A x \in sends' : x.job.at \in Applied'
    BY <1>0, <2>1 DEF Known
  <2> QED
    BY <1>0, <2>1, <2>2 DEF Known, scheduler
<1>10. ASSUME NEW s \in sends, Finish(s) PROVE Known'
  <2>1. UNCHANGED <<mem, scheduler, todo, history>> /\ sends' = sends \ {s}
    BY <1>0, <1>10, FinishTyped
  <2> QED
    BY <1>0, <2>1 DEF Known, scheduler, history
<1>11. CASE UNCHANGED vars
  BY <1>1, <1>11, StutterTyped
<1> QED
  BY <1>2, <1>3, <1>4, <1>5, <1>6, <1>7, <1>8, <1>9, <1>10, <1>11 DEF Next, Route

-----------------------------------------------------------------------------
(* A device hears of a room in order *)

\* All that was sent or is in the air of key k is no newer than observation n.
UpTo(k, n) == posted[k] <= n /\ \A s \in sends : KeyOf(s.job) = k => s.job.at <= n

\* What is in the air is no older than what was posted of its key; what waits is no older than that,
\* and what is about to be enqueued no older than all of it.
Ordered ==
  /\ \A s \in sends : posted[KeyOf(s.job)] <= s.job.at
  /\ \A k \in DOMAIN waiting : UpTo(k, waiting[k].at)
  /\ \A j \in todo.jobs : /\ UpTo(KeyOf(j), j.at)
                          /\ KeyOf(j) \in DOMAIN waiting => waiting[KeyOf(j)].at <= j.at
  /\ \A j, l \in todo.jobs : j.at = l.at

OrderInv == LineInv /\ KnownInv /\ Ordered

LEMMA InitOrder == PushAssumption /\ Init => OrderInv
<1> SUFFICES ASSUME PushAssumption, Init PROVE Ordered
  BY InitLine, InitKnown DEF OrderInv
<1>1. sends = {} /\ DOMAIN waiting = {} /\ todo.jobs = {}
  BY DEF Init, Idle
<1> QED
  BY <1>1 DEF Ordered

LEMMA NextOrder == PushAssumption /\ OrderInv /\ [Next]_vars => OrderInv' /\ InOrderStep
<1> SUFFICES ASSUME PushAssumption, OrderInv, [Next]_vars PROVE Ordered' /\ InOrderStep
  BY NextLine, NextKnown DEF OrderInv
<1>0. Typed /\ Stamped /\ Known /\ Ordered /\ Owners
  BY DEF OrderInv, LineInv, OwnInv, KnownInv
<1>1. /\ \A s \in sends : s.job \in SoundJobs /\ KeyOf(s.job) \in Keys /\ s.job.at \in Int
      /\ \A k \in Keys : posted[k] \in Int
      /\ \A k \in DOMAIN waiting : waiting[k].at \in Int /\ KeyOf(waiting[k]) = k /\ k \in Keys
      /\ \A j \in todo.jobs : KeyOf(j) \in Keys /\ j.at \in Int
  <2>1. \A j \in SoundJobs : KeyOf(j) \in Keys /\ j.at \in Int
    BY DEF SoundJobs, Sound, Jobs, Serials
  <2>2. \A k \in Keys : posted[k] \in Int
    BY <1>0 DEF Typed, Serials
  <2> QED
    BY <1>0, <2>1, <2>2 DEF Typed
<1>2. UNCHANGED posted => InOrderStep
  BY <1>1 DEF InOrderStep
<1>3. ASSUME UNCHANGED <<scheduler, todo, sends, posted>> PROVE Ordered' /\ InOrderStep
  BY <1>0, <1>2, <1>3 DEF Ordered, UpTo, scheduler
<1>4. CASE Produce
  BY <1>0, <1>3, <1>4, ProduceTyped DEF history
<1>5. CASE ApplyObservation
  <2>0. PICK o : o = Head(chan)
    OBVIOUS
  <2>1. PICK d : d = decide(mem[o.room], o)
    OBVIOUS
  <2>2. /\ todo' = [Idle EXCEPT !.jobs = jobs_for(o, d)]
        /\ chan # <<>> /\ UNCHANGED <<scheduler, sends, posted>>
    BY <1>5, <2>0, <2>1 DEF ApplyObservation
  <2>3. o \in Observations /\ o.at \in Int
    <3>1. o \in Observations
      BY <1>0, <2>0, <2>2 DEF Typed
    <3> QED
      BY <3>1 DEF Observations, Serials
  <2>4. \A n \in Applied : n < o.at
    BY <1>0, <1>5, <2>0, OneApplied DEF Applied
  <2>5. \A n \in Applied : n <= o.at /\ n \in Int
    BY <2>3, <2>4 DEF Applied, Serials
  <2>6. todo'.jobs \subseteq SoundJobs /\ \A j \in todo'.jobs : j.at = o.at
    <3>1. todo'.jobs = jobs_for(o, d)
      BY <2>2 DEF Idle
    <3> QED
      BY <2>3, <3>1, JobsTyped
  <2>7. /\ \A k \in Keys : posted[k] <= o.at
        /\ \A s \in sends : s.job.at <= o.at
        /\ \A k \in DOMAIN waiting : waiting[k].at <= o.at
    BY <1>0, <2>5 DEF Known
  <2>8. \A j \in todo'.jobs : KeyOf(j) \in Keys
    BY <2>6 DEF SoundJobs, Sound
  <2>9. UNCHANGED <<waiting, sends, posted>>
    BY <2>2 DEF scheduler
  <2> QED
    BY <1>0, <1>2, <2>6, <2>7, <2>8, <2>9 DEF Ordered, UpTo
<1>6. CASE EnqueueJob
  <2>1. PICK job \in todo.jobs : enqueue(job) /\ todo' = [todo EXCEPT !.jobs = @ \ {job}]
    BY <1>6 DEF EnqueueJob
  <2>2. PICK k : k = KeyOf(job)
    OBVIOUS
  <2>3. PICK new : new = [job |-> job, cancelled |-> FALSE, phase |-> "check"]
    OBVIOUS
  <2>4. UNCHANGED posted
    BY <1>6 DEF EnqueueJob, history
  <2>5. /\ todo'.jobs = todo.jobs \ {job}
        /\ \/ sends' = sends /\ waiting' = With(waiting, k, job)
           \/ /\ k \notin inFlight /\ Cardinality(inFlight) < Permits
              /\ sends' = sends \cup {new} /\ waiting' = waiting
    BY <1>0, <1>6, <2>1, <2>2, <2>3, EnqueueJobTyped DEF EnqueueJob
  <2>6. /\ posted[k] <= job.at /\ \A s \in sends : KeyOf(s.job) = k => s.job.at <= job.at
        /\ \A j \in todo.jobs : j.at = job.at
        /\ job.at \in Int
    BY <1>0, <1>1, <2>2 DEF Ordered, UpTo
  <2>7. CASE sends' = sends /\ waiting' = With(waiting, k, job)
    <3>1. /\ DOMAIN waiting' = DOMAIN waiting \cup {k} /\ waiting'[k] = job
          /\ \A x \in DOMAIN waiting : x # k => waiting'[x] = waiting[x]
      BY <2>7 DEF With
    <3>2. \A x \in DOMAIN waiting' : UpTo(x, waiting[x].at)'
      BY <1>0, <2>4, <2>6, <2>7, <3>1 DEF Ordered, UpTo
    <3>3. ASSUME NEW j \in todo'.jobs
          PROVE  UpTo(KeyOf(j),
                 j.at)' /\ (KeyOf(j) \in DOMAIN waiting' => waiting'[KeyOf(j)].at <= j.at)
      <4>1. j \in todo.jobs /\ j.at = job.at
        BY <2>5, <2>6
      <4>2. UpTo(KeyOf(j), j.at)'
        BY <1>0, <2>4, <2>7, <4>1 DEF Ordered, UpTo
      <4>3. KeyOf(j) = k => waiting'[KeyOf(j)].at <= j.at
        BY <2>6, <3>1, <4>1
      <4>4. KeyOf(j) # k /\ KeyOf(j) \in DOMAIN waiting' => waiting'[KeyOf(j)].at <= j.at
        BY <1>0, <3>1, <4>1 DEF Ordered
      <4> QED
        BY <4>2, <4>3, <4>4
    <3>4. \A s \in sends' : posted'[KeyOf(s.job)] <= s.job.at
      BY <1>0, <2>4, <2>7 DEF Ordered
    <3>5. \A j, l \in todo'.jobs : j.at = l.at
      BY <1>0, <2>5 DEF Ordered
    <3> QED
      BY <1>2, <2>4, <3>2, <3>3, <3>4, <3>5 DEF Ordered
  <2>8. CASE /\ k \notin inFlight /\ Cardinality(inFlight) < Permits
             /\ sends' = sends \cup {new} /\ waiting' = waiting
    <3>1. k \notin DOMAIN waiting
      BY <2>2, <2>8, StartsAlone DEF OrderInv
    <3>2. new.job = job /\ KeyOf(new.job) = k
      BY <2>2, <2>3
    <3>3. \A s \in sends' : s \in sends \/ s = new
      BY <2>8
    <3>4. \A x \in DOMAIN waiting' : UpTo(x, waiting[x].at)'
      BY <1>0, <2>4, <2>8, <3>1, <3>2, <3>3 DEF Ordered, UpTo
    <3>5. ASSUME NEW j \in todo'.jobs
          PROVE  UpTo(KeyOf(j),
                 j.at)' /\ (KeyOf(j) \in DOMAIN waiting' => waiting'[KeyOf(j)].at <= j.at)
      <4>1. j \in todo.jobs /\ j.at = job.at
        BY <2>5, <2>6
      <4>2. UpTo(KeyOf(j), j.at)'
        BY <1>0, <2>4, <2>6, <3>2, <3>3, <4>1 DEF Ordered, UpTo
      <4> QED
        BY <1>0, <2>8, <4>1, <4>2 DEF Ordered
    <3>6. \A s \in sends' : posted'[KeyOf(s.job)] <= s.job.at
      BY <1>0, <2>4, <2>6, <3>2, <3>3 DEF Ordered
    <3>7. \A j, l \in todo'.jobs : j.at = l.at
      BY <1>0, <2>5 DEF Ordered
    <3> QED
      BY <1>2, <2>4, <3>4, <3>5, <3>6, <3>7 DEF Ordered
  <2> QED
    BY <2>5, <2>7, <2>8
<1>7. CASE ApplyControl
  <2>1. /\ UNCHANGED posted /\ todo'.jobs = {}
        /\ \A k \in DOMAIN waiting' : k \in DOMAIN waiting /\ waiting'[k] = waiting[k]
        /\ \A s \in sends' : \E t \in sends : s.job = t.job
    BY <1>0, <1>7, ApplyControlTyped
  <2> QED
    BY <1>0, <1>2, <2>1 DEF Ordered, UpTo
<1>8. ASSUME NEW k, UNCHANGED <<sends, posted>>, todo'.jobs = Waited(k),
             waiting' = Without(waiting, k)
      PROVE  Ordered' /\ InOrderStep
  <2>1. /\ \A j \in todo'.jobs : k \in DOMAIN waiting /\ j = waiting[k] /\ KeyOf(j) = k
        /\ k \notin DOMAIN waiting'
        /\ \A x \in DOMAIN waiting' : x \in DOMAIN waiting /\ waiting'[x] = waiting[x]
    BY <1>0, <1>1, <1>8 DEF Waited, Without
  <2> QED
    BY <1>0, <1>2, <1>8, <2>1 DEF Ordered, UpTo
<1>9. CASE Finished
  BY <1>0, <1>8, <1>9, FinishedTyped DEF history
<1>10. CASE Pump
  <2>1. /\ UNCHANGED <<sends, posted>> /\ todo.jobs = {}
        /\ \/ todo'.jobs = {} /\ waiting' = waiting
           \/ \E k : todo'.jobs = Waited(k) /\ waiting' = Without(waiting, k)
    BY <1>0, <1>10, PumpTyped DEF history
  <2>2. CASE todo'.jobs = {} /\ waiting' = waiting
    BY <1>0, <1>2, <2>1, <2>2 DEF Ordered, UpTo
  <2> QED
    BY <1>8, <2>1, <2>2
<1>11. ASSUME NEW r \in Rooms, Expire(r) PROVE Ordered' /\ InOrderStep
  BY <1>0, <1>3, <1>11, ExpireTyped DEF history
<1>12. ASSUME NEW s \in sends, Check(s) PROVE Ordered' /\ InOrderStep
  <2>1. PICK t : /\ UNCHANGED <<scheduler, todo>>
                 /\ sends' = (sends \ {s}) \cup {t} /\ t.job = s.job
                 /\ posted' \in {posted, [posted EXCEPT ![KeyOf(s.job)] = s.job.at]}
    BY <1>0, <1>12, CheckTyped
  <2>2. PICK k : k = KeyOf(s.job)
    OBVIOUS
  <2>3. /\ k \in Keys /\ posted[k] <= s.job.at /\ posted'[k] \in {posted[k], s.job.at}
        /\ \A x \in Keys : x # k => posted'[x] = posted[x]
    BY <1>0, <1>1, <2>1, <2>2 DEF Ordered, Typed
  <2>4. \A x \in sends : KeyOf(x.job) = k => x = s
    BY <1>0, <2>2 DEF Owners
  <2>5. \A x \in sends' : x.job = s.job \/ (x \in sends /\ KeyOf(x.job) # k)
    BY <2>1, <2>4
  <2>6. \A x \in sends' : posted'[KeyOf(x.job)] <= x.job.at
    BY <1>0, <1>1, <2>2, <2>3, <2>5 DEF Ordered
  <2>7. ASSUME NEW x \in Keys, NEW n \in Int, UpTo(x, n) PROVE UpTo(x, n)'
    BY <1>1, <2>2, <2>3, <2>5, <2>7 DEF UpTo
  <2>8. /\ UNCHANGED <<waiting, todo>>
        /\ \A x \in DOMAIN waiting : UpTo(x, waiting[x].at)'
        /\ \A j \in todo.jobs : UpTo(KeyOf(j), j.at)'
    <3>1. /\ \A x \in DOMAIN waiting : UpTo(x, waiting[x].at)
          /\ \A j \in todo.jobs : UpTo(KeyOf(j), j.at)
      BY <1>0 DEF Ordered
    <3>2. UNCHANGED <<waiting, todo>>
      BY <2>1 DEF scheduler
    <3> QED
      BY <1>1, <2>7, <3>1, <3>2 DEF UpTo
  <2>9. InOrderStep
    BY <1>1, <2>3 DEF InOrderStep
  <2> QED
    BY <1>0, <2>6, <2>8, <2>9 DEF Ordered
<1>13. ASSUME NEW s \in sends, Finish(s) PROVE Ordered' /\ InOrderStep
  <2>1. UNCHANGED <<waiting, todo, posted>> /\ sends' = sends \ {s}
    BY <1>0, <1>13, FinishTyped DEF scheduler, history
  <2> QED
    BY <1>0, <1>2, <2>1 DEF Ordered, UpTo
<1>14. CASE UNCHANGED vars
  BY <1>3, <1>14, StutterTyped DEF history
<1> QED
  BY <1>4, <1>5, <1>6, <1>7, <1>9, <1>10, <1>11, <1>12, <1>13, <1>14 DEF Next, Route

\* A device hears of a room in the order the router decided: no job reaches the provider after a newer
\* one of its key, so that a read is not followed by the alert it cleared (Scheduler, run_send).
THEOREM OrderCorrect == ASSUME PushAssumption PROVE Spec => InOrder
<1>1. Init => OrderInv
  BY InitOrder
<1>2. OrderInv /\ [Next]_vars => OrderInv' /\ InOrderStep
  BY NextOrder
<1>3. OrderInv /\ [Next]_vars => [InOrderStep]_vars
  BY <1>2
<1> QED
  BY <1>1, <1>2, <1>3, PTL DEF Spec, InOrder

-----------------------------------------------------------------------------
(* One wake per message *)

\* No message is remembered for two rooms, and none that has been sent.
Slots ==
  /\ SentOnce
  /\ \A r, x \in Rooms : r # x /\ mem[r].slot # 0 => mem[r].slot # mem[x].slot

SlotInv == KnownInv /\ Slots

\* A step that forgets messages at most.
LEMMA SlotsForget ==
  ASSUME Slots, woken' = woken, \A r \in Rooms : mem'[r].slot \in {0, mem[r].slot}
  PROVE  Slots'
BY DEF Slots, SentOnce

LEMMA ApplyObservationSlots ==
  ASSUME PushAssumption, SlotInv, ApplyObservation PROVE Slots'
<1>0. Typed /\ Stamped /\ Known /\ Slots
  BY DEF SlotInv, KnownInv
<1>1. PICK o : o = Head(chan)
  OBVIOUS
<1>2. PICK d : d = decide(mem[o.room], o)
  OBVIOUS
<1>3. PICK old : old = mem[o.room].slot
  OBVIOUS
<1>4. /\ mem' = [mem EXCEPT ![o.room] = d.mem] /\ chan # <<>>
      /\ woken' = IF d.send = 0 THEN woken ELSE woken \cup {d.send}
  BY <1>1, <1>2 DEF ApplyObservation
<1>5. o \in Observations
  BY <1>0, <1>1, <1>4 DEF Typed
<1>6. o.room \in Rooms /\ mem[o.room] \in Memories /\ o.at \in Int
  BY <1>0, <1>5 DEF Typed, Observations, Serials
<1>7. /\ d.send \in {0, o.at, old}
      /\ d.send = 0 => d.mem.slot \in {0, o.at, old}
      /\ d.send # 0 => d.mem.slot = 0
  BY <1>2, <1>3, <1>5, <1>6, DecideSlots
<1>8. \A n \in Applied : n # o.at
  <2>1. \A n \in Applied : n < o.at /\ n \in Int
    BY <1>0, <1>1, OneApplied DEF Applied, Serials
  <2> QED
    BY <1>6, <2>1
<1>9. /\ \A r \in Rooms : mem[r].slot # o.at
      /\ o.at \notin woken /\ o.at # 0
  BY <1>0, <1>8 DEF Known
<1>10. \A r \in Rooms : mem'[r] = IF r = o.room THEN d.mem ELSE mem[r]
  BY <1>0, <1>4 DEF Typed
<1>11. CASE d.send = 0
  <2>1. /\ woken' = woken
        /\ \A r \in Rooms : r # o.room => mem'[r].slot = mem[r].slot
        /\ mem'[o.room].slot \in {0, o.at, old}
    BY <1>4, <1>6, <1>7, <1>10, <1>11
  <2> QED
    BY <1>0, <1>3, <1>6, <1>9, <2>1 DEF Slots, SentOnce
<1>12. CASE d.send # 0
  <2>1. /\ woken' = woken \cup {d.send} /\ d.send \in {o.at, old}
        /\ \A r \in Rooms : r # o.room => mem'[r].slot = mem[r].slot
        /\ mem'[o.room].slot = 0
    BY <1>4, <1>6, <1>7, <1>10, <1>12
  <2>2. \A r \in Rooms : r # o.room => mem[r].slot # d.send
    BY <1>0, <1>3, <1>6, <1>9, <1>12, <2>1 DEF Slots
  <2> QED
    BY <1>0, <1>6, <2>1, <2>2 DEF Slots, SentOnce
<1> QED
  BY <1>11, <1>12

LEMMA NextSlots == PushAssumption /\ SlotInv /\ [Next]_vars => SlotInv'
<1> SUFFICES ASSUME PushAssumption, SlotInv, [Next]_vars PROVE Slots'
  BY NextKnown DEF SlotInv
<1>0. Typed /\ Slots
  BY DEF SlotInv, KnownInv
<1>1. ASSUME UNCHANGED <<mem, woken>> PROVE Slots'
  BY <1>0, <1>1, SlotsForget
<1>2. CASE Produce
  BY <1>0, <1>1, <1>2, ProduceTyped DEF history
<1>3. CASE ApplyObservation
  BY <1>3, ApplyObservationSlots
<1>4. CASE ApplyControl
  <2>1. woken' = woken /\ \A r \in Rooms : mem'[r] = Absent \/ mem'[r].slot = mem[r].slot
    BY <1>0, <1>4, ApplyControlTyped
  <2>2. Absent.slot = 0
    BY DEF Absent
  <2> QED
    BY <1>0, <2>1, <2>2, SlotsForget
<1>5. CASE EnqueueJob \/ Finished \/ Pump
  BY <1>1, <1>5 DEF EnqueueJob, Finished, Pump, history
<1>6. ASSUME NEW r \in Rooms, Expire(r) PROVE Slots'
  BY <1>0, <1>6, ExpireTyped, SlotsForget DEF history
<1>7. ASSUME NEW s \in sends, Check(s) \/ Finish(s) PROVE Slots'
  BY <1>1, <1>7 DEF Check, Finish, history
<1>8. CASE UNCHANGED vars
  BY <1>1, <1>8 DEF vars
<1> QED
  BY <1>2, <1>3, <1>4, <1>5, <1>6, <1>7, <1>8 DEF Next, Route

LEMMA InitSlots == PushAssumption /\ Init => SlotInv
<1> SUFFICES ASSUME PushAssumption, Init PROVE Slots
  BY InitKnown DEF SlotInv
<1>1. \A r \in Rooms : mem[r].slot = 0
  BY DEF Init, Absent
<1> QED
  BY <1>1 DEF Slots, SentOnce

\* A message an alert was decided for is not remembered for another one, however counts, messages,
\* lags, expiries and drops interleave (decide, apply_observation).
THEOREM WakesCorrect == ASSUME PushAssumption PROVE Spec => []SentOnce
<1>1. Init => SlotInv
  BY InitSlots
<1>2. SlotInv /\ [Next]_vars => SlotInv'
  BY NextSlots
<1>3. SlotInv => SentOnce
  BY DEF SlotInv, Slots
<1> QED
  BY <1>1, <1>2, <1>3, PTL DEF Spec

-----------------------------------------------------------------------------
(* The badge *)

\* A badge-only push of device t is to come.
BadgeDue(t) ==
  \/ \E s \in sends : s.job.work = "Badge" /\ s.job.device = t /\ s.phase = "check"
  \/ [device |-> t, room |-> NoRoom] \in DOMAIN waiting
  \/ \E j \in todo.jobs : j.work = "Badge" /\ j.device = t

\* Only sends of a room are cancelled.
BadgeInv ==
  /\ KnownInv
  /\ \A s \in sends : s.cancelled => s.job.room # NoRoom
  /\ \A t \in Apns : owed[t] > shown[t] => BadgeDue(t)

LEMMA BadgeJobs ==
  ASSUME PushAssumption, Typed
  PROVE  /\ \A s \in sends : s.job \in SoundJobs
         /\ todo.jobs \subseteq SoundJobs
         /\ \A j \in SoundJobs : /\ j.work = "Badge" <=> j.room = NoRoom
                                 /\ j.work = "Badge" => KeyOf(j) = [device |-> j.device, room |-> NoRoom]
         /\ \A k \in DOMAIN waiting : \A t : k = [device |-> t, room |-> NoRoom] =>
              waiting[k].work = "Badge" /\ waiting[k].device = t /\ waiting[k].room = NoRoom
<1>1. \A j \in SoundJobs : /\ j.work = "Badge" <=> j.room = NoRoom
                           /\ j.work = "Badge" => KeyOf(j) = [device |-> j.device, room |-> NoRoom]
  BY DEF SoundJobs, Sound, KeyOf
<1>2. (\A s \in sends : s.job \in SoundJobs) /\ todo.jobs \subseteq SoundJobs
  BY DEF Typed
<1>3. ASSUME NEW k \in DOMAIN waiting, NEW t, k = [device |-> t, room |-> NoRoom]
      PROVE  waiting[k].work = "Badge" /\ waiting[k].device = t /\ waiting[k].room = NoRoom
  <2>1. waiting[k] \in SoundJobs /\ KeyOf(waiting[k]) = k
    BY DEF Typed
  <2>2. KeyOf(waiting[k]).device = waiting[k].device /\ KeyOf(waiting[k]).room = waiting[k].room
    BY DEF KeyOf
  <2> QED
    BY <1>1, <1>3, <2>1, <2>2
<1> QED
  BY <1>1, <1>2, <1>3

LEMMA NextBadge == PushAssumption /\ BadgeInv /\ [Next]_vars => BadgeInv'
<1> DEFINE Uncut == \A s \in sends : s.cancelled => s.job.room # NoRoom
           Due == \A t \in Apns : owed[t] > shown[t] => BadgeDue(t)
<1> SUFFICES ASSUME PushAssumption, BadgeInv, [Next]_vars PROVE Uncut' /\ Due'
  BY NextKnown DEF BadgeInv
<1>0. Typed /\ Known /\ Uncut /\ Due
  BY DEF BadgeInv, KnownInv
<1>1. ASSUME UNCHANGED <<waiting, todo, sends, owed, shown>> PROVE Uncut' /\ Due'
  BY <1>0, <1>1 DEF BadgeDue
<1>2. ASSUME UNCHANGED <<owed, shown>>, \A t \in Apns : BadgeDue(t) => BadgeDue(t)' PROVE Due'
  BY <1>0, <1>2
<1>3. CASE Produce
  BY <1>0, <1>1, <1>3, ProduceTyped DEF scheduler, history
<1>4. CASE ApplyObservation
  <2>0. PICK o : o = Head(chan)
    OBVIOUS
  <2>1. PICK d : d = decide(mem[o.room], o)
    OBVIOUS
  <2>2. /\ todo' = [Idle EXCEPT !.jobs = jobs_for(o, d)] /\ todo = Idle
        /\ owed' = [t \in Apns |-> IF \E j \in jobs_for(o, d) : j.work = "Badge" /\ j.device = t
                                   THEN o.at ELSE owed[t]]
        /\ UNCHANGED <<waiting, sends, shown>>
    BY <1>4, <2>0, <2>1 DEF ApplyObservation, scheduler
  <2>3. todo.jobs = {} /\ todo'.jobs = jobs_for(o, d)
    BY <2>2 DEF Idle
  <2>4. ASSUME NEW t \in Apns, owed'[t] > shown'[t] PROVE BadgeDue(t)'
    <3>1. CASE \E j \in jobs_for(o, d) : j.work = "Badge" /\ j.device = t
      BY <2>3, <3>1 DEF BadgeDue
    <3>2. CASE ~\E j \in jobs_for(o, d) : j.work = "Badge" /\ j.device = t
      <4>1. owed'[t] = owed[t] /\ shown'[t] = shown[t]
        BY <2>2, <3>2
      <4>2. BadgeDue(t)
        BY <1>0, <2>4, <4>1
      <4> QED
        BY <2>2, <2>3, <4>2 DEF BadgeDue
    <3> QED
      BY <3>1, <3>2
  <2> QED
    BY <1>0, <2>2, <2>4
<1>5. CASE EnqueueJob
  <2>1. PICK job \in todo.jobs : enqueue(job) /\ todo' = [todo EXCEPT !.jobs = @ \ {job}]
    BY <1>5 DEF EnqueueJob
  <2>2. UNCHANGED <<owed, shown>>
    BY <1>5 DEF EnqueueJob, history
  <2>3. PICK new : new = [job |-> job, cancelled |-> FALSE, phase |-> "check"]
    OBVIOUS
  <2>4. /\ todo'.jobs = todo.jobs \ {job}
        /\ \/ sends' = sends /\ waiting' = With(waiting, KeyOf(job), job)
           \/ sends' = sends \cup {new} /\ waiting' = waiting
    BY <1>0, <1>5, <2>1, <2>3, EnqueueJobTyped DEF EnqueueJob
  <2>5. ~new.cancelled /\ new.job = job /\ new.phase = "check"
    BY <2>3
  <2>6. Uncut'
    BY <1>0, <2>4, <2>5
  <2>7. ASSUME NEW t \in Apns, BadgeDue(t) PROVE BadgeDue(t)'
    <3>1. CASE job.work = "Badge" /\ job.device = t
      <4>1. KeyOf(job) = [device |-> t, room |-> NoRoom]
        BY <1>0, <3>1, BadgeJobs
      <4> QED
        BY <2>4, <2>5, <3>1, <4>1 DEF BadgeDue, With
    <3>2. CASE ~(job.work = "Badge" /\ job.device = t)
      BY <2>4, <2>7, <3>2 DEF BadgeDue, With
    <3> QED
      BY <3>1, <3>2
  <2> QED
    BY <1>2, <2>2, <2>6, <2>7
<1>6. CASE ApplyControl
  <2>1. /\ UNCHANGED <<owed, shown>> /\ todo = Idle
        /\ \A k \in DOMAIN waiting : waiting[k].room = NoRoom => k \in DOMAIN waiting'
        /\ \A s \in sends' : \E t \in sends : /\ s.job = t.job /\ s.phase = t.phase
                                              /\ s.cancelled => t.cancelled \/ s.job.room # NoRoom
        /\ \A t \in sends : \E s \in sends' : s.job = t.job /\ s.phase = t.phase
    BY <1>0, <1>6, ApplyControlTyped
  <2>2. Uncut'
    BY <1>0, <2>1
  <2>3. todo.jobs = {}
    BY <2>1 DEF Idle
  <2>4. \A t \in Apns : BadgeDue(t) => BadgeDue(t)'
    BY <1>0, <2>1, <2>3, BadgeJobs DEF BadgeDue
  <2> QED
    BY <1>2, <2>1, <2>2, <2>4
<1>7. ASSUME NEW k, UNCHANGED <<sends, owed, shown>>, todo.jobs = {}, todo'.jobs = Waited(k),
             waiting' = Without(waiting, k)
      PROVE  Uncut' /\ Due'
  <2>1. ASSUME NEW t \in Apns, BadgeDue(t) PROVE BadgeDue(t)'
    <3> DEFINE b == [device |-> t, room |-> NoRoom]
    <3>1. CASE \E s \in sends : s.job.work = "Badge" /\ s.job.device = t /\ s.phase = "check"
      BY <1>7, <3>1 DEF BadgeDue
    <3>2. CASE b \in DOMAIN waiting /\ b = k
      <4>1. todo'.jobs = {waiting[b]}
        BY <1>7, <3>2 DEF Waited
      <4>2. waiting[b].work = "Badge" /\ waiting[b].device = t
        BY <1>0, <3>2, BadgeJobs
      <4> QED
        BY <4>1, <4>2 DEF BadgeDue
    <3>3. CASE b \in DOMAIN waiting /\ b # k
      BY <1>7, <3>3 DEF BadgeDue, Without
    <3> QED
      BY <1>7, <2>1, <3>1, <3>2, <3>3 DEF BadgeDue
  <2> QED
    BY <1>0, <1>2, <1>7, <2>1
<1>8. CASE Finished
  BY <1>0, <1>7, <1>8, FinishedTyped DEF history
<1>9. CASE Pump
  <2>1. /\ UNCHANGED <<sends, owed, shown>> /\ todo.jobs = {}
        /\ \/ todo'.jobs = {} /\ waiting' = waiting
           \/ \E k : todo'.jobs = Waited(k) /\ waiting' = Without(waiting, k)
    BY <1>0, <1>9, PumpTyped DEF history
  <2>2. CASE todo'.jobs = {} /\ waiting' = waiting
    BY <1>0, <2>1, <2>2 DEF BadgeDue
  <2> QED
    BY <1>7, <2>1, <2>2
<1>10. ASSUME NEW r \in Rooms, Expire(r) PROVE Uncut' /\ Due'
  BY <1>0, <1>1, <1>10, ExpireTyped DEF scheduler, history
<1>11. ASSUME NEW s \in sends, Check(s) PROVE Uncut' /\ Due'
  <2>1. PICK x : /\ UNCHANGED <<waiting, todo, owed>>
                 /\ sends' = (sends \ {s}) \cup {x} /\ ~x.cancelled
                 /\ shown' = IF s.job.work = "Badge" THEN [shown EXCEPT ![s.job.device] = clock]
                             ELSE shown
    BY <1>0, <1>11, CheckTyped DEF scheduler
  <2>2. Uncut'
    BY <1>0, <2>1
  <2>3. ASSUME NEW t \in Apns, owed'[t] > shown'[t] PROVE BadgeDue(t)'
    <3>1. owed[t] \in Int /\ clock \in Int /\ owed[t] <= clock
      BY <1>0 DEF Known, Applied, Past, Typed, Serials
    <3>2. ~(s.job.work = "Badge" /\ s.job.device = t)
      <4> SUFFICES ASSUME s.job.work = "Badge", s.job.device = t PROVE FALSE
        OBVIOUS
      <4>1. shown'[t] = clock /\ owed'[t] = owed[t]
        BY <1>0, <2>1 DEF Typed
      <4> QED
        BY <2>3, <3>1, <4>1
    <3>3. shown'[t] = shown[t] /\ owed'[t] = owed[t]
      BY <1>0, <2>1, <3>2 DEF Typed
    <3>4. BadgeDue(t)
      BY <1>0, <2>3, <3>3
    <3> QED
      BY <2>1, <3>2, <3>4 DEF BadgeDue
  <2> QED
    BY <2>2, <2>3
<1>12. ASSUME NEW s \in sends, Finish(s) PROVE Uncut' /\ Due'
  <2>1. /\ UNCHANGED <<waiting, todo, owed, shown>> /\ sends' = sends \ {s}
        /\ s.phase # "check" \/ s.cancelled
    BY <1>0, <1>12, FinishTyped DEF scheduler, history
  <2>2. ~(s.job.work = "Badge" /\ s.phase = "check")
    BY <1>0, <2>1, BadgeJobs
  <2>3. \A t \in Apns : BadgeDue(t) => BadgeDue(t)'
    BY <2>1, <2>2 DEF BadgeDue
  <2> QED
    BY <1>0, <1>2, <2>1, <2>3
<1>13. CASE UNCHANGED vars
  BY <1>1, <1>13 DEF vars
<1> QED
  BY <1>3, <1>4, <1>5, <1>6, <1>8, <1>9, <1>10, <1>11, <1>12, <1>13 DEF Next, Route

LEMMA InitBadge == PushAssumption /\ Init => BadgeInv
<1> SUFFICES ASSUME PushAssumption, Init PROVE BadgeInv
  OBVIOUS
<1>1. KnownInv /\ sends = {} /\ \A t \in Apns : owed[t] = 0 /\ shown[t] = 0
  BY InitKnown DEF Init
<1> QED
  BY <1>1 DEF BadgeInv

\* The badge follows falls: a total no older than the last fall a badge-only push was queued for has
\* been read, or a push that will read one is to come, whatever is coalesced, queued or dropped
\* (Scheduler::enqueue, deliver_badge).
THEOREM BadgeCorrect == ASSUME PushAssumption PROVE Spec => []BadgeFollows
<1>1. Init => BadgeInv
  BY InitBadge
<1>2. BadgeInv /\ [Next]_vars => BadgeInv'
  BY NextBadge
<1>3. BadgeInv => BadgeFollows
  BY DEF BadgeInv, BadgeFollows, BadgeDue
<1> QED
  BY <1>1, <1>2, <1>3, PTL DEF Spec

-----------------------------------------------------------------------------
(* The counts *)

\* Observation i is a count of room r.
Counts(r, i) == chan[i].room = r /\ chan[i].after # NoPair

\* While nothing was dropped, the newest count of a room on its way is the one published, and with none
\* on its way the remembered one is, unless the router is about to forget the room.
Follows(r) ==
  count[r] # NoPair =>
    /\ \A i \in DOMAIN chan :
         Counts(r, i) /\ (\A j \in DOMAIN chan : i < j => ~Counts(r, j)) => chan[i].after = count[r]
    /\ (\A i \in DOMAIN chan : ~Counts(r, i)) /\ mem[r].seeded /\ r \notin control.rooms =>
         mem[r].pair = count[r]

CountInv == /\ Typed /\ count \in [Rooms -> Pairs \cup {NoPair}]
            /\ (~lost => \A r \in Rooms : Follows(r))

\* A seeded room remembers the pair it was last told.
LEMMA DecidePair ==
  ASSUME NEW m \in Memories, NEW o \in Observations
  PROVE  LET d == decide(m, o)
         IN d.mem.seeded => /\ m.seeded \/ o.after # NoPair
                            /\ d.mem.pair = IF o.after = NoPair THEN m.pair ELSE o.after
<1> DEFINE notifying == o.class = "Notify"
           after == IF o.after = NoPair THEN m.pair ELSE o.after
           kept == Stored(m, after)
           learnt == [Absent EXCEPT !.known = TRUE, !.seeded = (o.after # NoPair), !.pair = after,
                                    !.slot = IF notifying THEN o.at ELSE m.slot]
<1>0. DOMAIN m = {"known", "seeded", "pair", "slot", "unpaired"}
  BY DEF Memories
<1> HIDE DEF after
<1>1. learnt.pair = after /\ (learnt.seeded <=> o.after # NoPair)
  BY DEF Absent
<1>2. /\ kept.pair = after /\ Release(m, after).pair = after
      /\ [kept EXCEPT !.unpaired = after].pair = after
      /\ [kept EXCEPT !.slot = o.at].pair = after
  BY <1>0 DEF Stored, Release
<1> HIDE DEF kept, learnt
<1>3. decide(m, o).mem.pair = after
  BY <1>1, <1>2 DEF decide, Decision, Fell, after, kept, learnt
<1>4. ~m.seeded => decide(m, o).mem = learnt
  BY DEF decide, Decision, after, learnt
<1> QED
  BY <1>1, <1>3, <1>4 DEF after

\* An observation of room q that is not dropped.
LEMMA ObservedFollows ==
  ASSUME Typed, NEW q \in Rooms, NEW r \in Rooms, Follows(r), NEW p, NEW class,
         chan' = Append(chan, [at |-> clock + 1, room |-> q, after |-> p, class |-> class]),
         UNCHANGED <<mem, control>>,
         IF p = NoPair THEN count' = count ELSE count' = [count EXCEPT ![q] = p],
         count \in [Rooms -> Pairs \cup {NoPair}]
  PROVE  Follows(r)'
<1> DEFINE o == [at |-> clock + 1, room |-> q, after |-> p, class |-> class]
<1>1. o.room = q /\ o.after = p
  OBVIOUS
<1>2. /\ Len(chan) \in Nat /\ DOMAIN chan = 1..Len(chan) /\ DOMAIN chan' = 1..(Len(chan) + 1)
      /\ \A i \in 1..Len(chan) : chan'[i] = chan[i]
      /\ chan'[Len(chan) + 1] = o
  BY DEF Typed
<1> HIDE DEF o
<1>3. \A i \in 1..(Len(chan) + 1) : i \in 1..Len(chan) \/ i = Len(chan) + 1
  BY <1>2
<1>4. \A i \in 1..Len(chan) : i \in 1..(Len(chan) + 1) /\ i < Len(chan) + 1
  BY <1>2
<1>5. PICK n : n = Len(chan) + 1
  OBVIOUS
<1>6. /\ \A i \in DOMAIN chan : Counts(r, i)' <=> Counts(r, i)
      /\ Counts(r, n)' <=> q = r /\ p # NoPair
  BY <1>1, <1>2, <1>5 DEF Counts
<1>7. CASE q = r /\ p # NoPair
  <2>1. count'[r] = p
    BY <1>7
  <2>2. Counts(r, n)' /\ n \in DOMAIN chan' /\ chan'[n].after = p
    BY <1>1, <1>2, <1>5, <1>6, <1>7
  <2>3. \A i \in DOMAIN chan' : i # n => i < n
    BY <1>2, <1>5
  <2> QED
    BY <2>1, <2>2, <2>3 DEF Follows
<1>8. CASE ~(q = r /\ p # NoPair)
  <2>1. count'[r] = count[r] /\ ~Counts(r, n)'
    BY <1>6, <1>8
  <2>2. \A i \in DOMAIN chan' : Counts(r, i)' => i \in DOMAIN chan /\ Counts(r, i) /\ chan'[i] = chan[i]
    BY <1>2, <1>3, <1>5, <1>6, <2>1
  <2>3. DOMAIN chan \subseteq DOMAIN chan'
    BY <1>2
  <2> QED
    BY <1>6, <2>1, <2>2, <2>3 DEF Follows
<1> QED
  BY <1>7, <1>8

LEMMA AppliedFollows ==
  ASSUME PushAssumption, Typed, ApplyObservation, NEW r \in Rooms, Follows(r)
  PROVE  Follows(r)'
<1>1. PICK o : o = Head(chan)
  OBVIOUS
<1>2. PICK d : d = decide(mem[o.room], o)
  OBVIOUS
<1>3. /\ mem' = [mem EXCEPT ![o.room] = d.mem] /\ chan # <<>> /\ chan' = Tail(chan)
      /\ control = NoControl /\ UNCHANGED <<count, control>>
  BY <1>1, <1>2 DEF ApplyObservation, producers
<1>4. /\ Len(chan) \in Nat /\ Len(chan) > 0 /\ DOMAIN chan = 1..Len(chan)
      /\ DOMAIN chan' = 1..(Len(chan) - 1) /\ o = chan[1]
      /\ \A i \in 1..(Len(chan) - 1) : chan'[i] = chan[i + 1]
      /\ o \in Observations
  BY <1>1, <1>3 DEF Typed
<1>5. o.room \in Rooms /\ mem[o.room] \in Memories
  BY <1>4 DEF Typed, Observations
<1>6. d.mem.seeded => /\ mem[o.room].seeded \/ o.after # NoPair
                      /\ d.mem.pair = IF o.after = NoPair THEN mem[o.room].pair ELSE o.after
  BY <1>2, <1>4, <1>5, DecidePair
<1>7. \A i \in DOMAIN chan' : i + 1 \in DOMAIN chan /\ (Counts(r, i)' <=> Counts(r, i + 1))
  BY <1>4 DEF Counts
<1>8. \A j \in DOMAIN chan : j = 1 \/ (j - 1 \in DOMAIN chan' /\ (j - 1) + 1 = j)
  BY <1>4
<1>9. control.rooms = {}
  BY <1>3 DEF NoControl
<1>10. mem'[r] = IF r = o.room THEN d.mem ELSE mem[r]
  BY <1>3 DEF Typed
<1>11. ASSUME count[r] # NoPair, NEW i \in DOMAIN chan', Counts(r, i)',
              \A j \in DOMAIN chan' : i < j => ~Counts(r, j)'
       PROVE  chan'[i].after = count[r]
  <2>1. Counts(r, i + 1) /\ i + 1 \in DOMAIN chan /\ chan'[i] = chan[i + 1]
    BY <1>4, <1>7, <1>11
  <2>2. ASSUME NEW j \in DOMAIN chan, i + 1 < j PROVE ~Counts(r, j)
    <3>1. j - 1 \in DOMAIN chan' /\ i < j - 1 /\ (j - 1) + 1 = j
      BY <1>4, <2>2
    <3> QED
      BY <1>7, <1>11, <3>1
  <2> QED
    BY <1>11, <2>1, <2>2 DEF Follows
<1>12. ASSUME count[r] # NoPair, \A i \in DOMAIN chan' : ~Counts(r, i)', mem'[r].seeded
       PROVE  mem'[r].pair = count[r]
  <2>1. \A j \in DOMAIN chan : 1 < j => ~Counts(r, j)
    <3> SUFFICES ASSUME NEW j \in DOMAIN chan, 1 < j PROVE ~Counts(r, j)
      OBVIOUS
    <3>1. j - 1 \in DOMAIN chan' /\ (j - 1) + 1 = j
      BY <1>4
    <3> QED
      BY <1>7, <1>12, <3>1
  <2>2. 1 \in DOMAIN chan /\ \A j \in DOMAIN chan : j = 1 \/ 1 < j
    BY <1>4
  <2>3. CASE Counts(r, 1)
    <3>1. o.after = count[r] /\ r = o.room /\ o.after # NoPair
      BY <1>4, <1>12, <2>1, <2>2, <2>3 DEF Follows, Counts
    <3> QED
      BY <1>6, <1>10, <1>12, <3>1
  <2>4. CASE ~Counts(r, 1)
    <3>1. \A i \in DOMAIN chan : ~Counts(r, i)
      BY <2>1, <2>2, <2>4
    <3>2. mem[r].seeded => mem[r].pair = count[r]
      BY <1>9, <1>12, <3>1 DEF Follows
    <3>3. CASE r = o.room
      <4>1. o.after = NoPair
        BY <1>4, <2>4, <3>3 DEF Counts
      <4> QED
        BY <1>6, <1>10, <1>12, <3>2, <3>3, <4>1
    <3>4. CASE r # o.room
      BY <1>10, <1>12, <3>2, <3>4
    <3> QED
      BY <3>3, <3>4
  <2> QED
    BY <2>3, <2>4
<1> QED
  BY <1>3, <1>11, <1>12 DEF Follows

LEMMA NextCount == PushAssumption /\ CountInv /\ [Next]_vars => CountInv'
<1> DEFINE CountsTyped == count \in [Rooms -> Pairs \cup {NoPair}]
           Follow == \A r \in Rooms : Follows(r)
<1> SUFFICES ASSUME PushAssumption, CountInv, [Next]_vars
             PROVE  CountsTyped' /\ (~lost' => Follow')
  BY NextTyped DEF CountInv
<1>0. Typed /\ CountsTyped /\ (~lost => Follow)
  BY DEF CountInv
<1>1. ASSUME UNCHANGED <<count, chan, lost, mem>>, control'.rooms = control.rooms
      PROVE  CountsTyped' /\ (~lost' => Follow')
  BY <1>0, <1>1 DEF Follows, Counts
<1>2. ASSUME NEW q \in Rooms, NEW p \in Pairs, Count(q, p)
      PROVE  CountsTyped' /\ (~lost' => Follow')
  <2>1. /\ count' = [count EXCEPT ![q] = p] /\ UNCHANGED <<mem, control>> /\ observe(q, p, "Other")
    BY <1>2 DEF Count
  <2>2. p # NoPair
    BY DEF Pairs, NoPair
  <2>3. CountsTyped'
    BY <1>0, <2>1
  <2>4. ASSUME ~lost'
        PROVE  ~lost /\ chan' = Append(chan, [at |-> clock + 1, room |-> q, after |-> p,
               class |-> "Other"])
    BY <1>0, <2>1, <2>4, ObserveTyped, Zenon
  <2>5. ASSUME ~lost', NEW r \in Rooms PROVE Follows(r)'
    <3>1. Follows(r)
      BY <1>0, <2>4, <2>5
    <3>2. chan' = Append(chan, [at |-> clock + 1, room |-> q, after |-> p, class |-> "Other"])
      BY <2>4, <2>5
    <3> QED
      BY <1>0, <2>1, <2>2, <3>1, <3>2, ObservedFollows
  <2> QED
    BY <2>3, <2>5
<1>3. ASSUME NEW q \in Rooms, Message(q) PROVE CountsTyped' /\ (~lost' => Follow')
  <2>1. UNCHANGED <<count, mem, control>> /\ observe(q, NoPair, "Notify")
    BY <1>3 DEF Message
  <2>2. CountsTyped'
    BY <1>0, <2>1
  <2>3. ASSUME ~lost'
        PROVE  ~lost /\ chan' = Append(chan, [at |-> clock + 1, room |-> q, after |-> NoPair,
               class |-> "Notify"])
    <3>1. NoPair \in Pairs \cup {NoPair}
      OBVIOUS
    <3> QED
      BY <1>0, <2>1, <2>3, <3>1, ObserveTyped, Zenon
  <2>4. ASSUME ~lost', NEW r \in Rooms PROVE Follows(r)'
    <3>1. Follows(r)
      BY <1>0, <2>3, <2>4
    <3>2. chan' = Append(chan, [at |-> clock + 1, room |-> q, after |-> NoPair, class |-> "Notify"])
      BY <2>3, <2>4
    <3> QED
      BY <1>0, <2>1, <3>1, <3>2, ObservedFollows
  <2> QED
    BY <2>2, <2>4
<1>4. ASSUME NEW q \in Rooms, RoomDropped(q) PROVE CountsTyped' /\ (~lost' => Follow')
  <2>1. /\ count' = [count EXCEPT ![q] = NoPair] /\ UNCHANGED <<chan, lost, mem>>
        /\ control' = [control EXCEPT !.rooms = @ \cup {q}]
    BY <1>4 DEF RoomDropped
  <2>2. control.rooms \subseteq control'.rooms
    BY <1>0, <2>1 DEF Typed
  <2>3. CountsTyped'
    BY <1>0, <2>1
  <2>4. ASSUME NEW r \in Rooms, Follows(r) PROVE Follows(r)'
    <3>1. count'[r] = IF r = q THEN NoPair ELSE count[r]
      BY <1>0, <2>1
    <3> QED
      BY <2>1, <2>2, <2>4, <3>1 DEF Follows, Counts
  <2> QED
    BY <1>0, <2>1, <2>3, <2>4
<1>5. ASSUME NEW a \in Accounts, Lagged(a) \/ AccountRemoved(a)
      PROVE  CountsTyped' /\ (~lost' => Follow')
  <2>1. /\ UNCHANGED <<count, chan, lost, mem>>
        /\ control' \in {[control EXCEPT !.unseed = @ \cup {a}], [control EXCEPT !.drop = @ \cup {a}]}
    BY <1>5 DEF Lagged, AccountRemoved, producers
  <2>2. control'.rooms = control.rooms
    BY <1>0, <2>1 DEF Typed
  <2> QED
    BY <1>1, <2>1, <2>2
<1>6. CASE ApplyObservation
  <2>1. UNCHANGED <<count, lost>>
    BY <1>6 DEF ApplyObservation, producers
  <2>2. \A r \in Rooms : Follows(r) => Follows(r)'
    BY <1>0, <1>6, AppliedFollows
  <2> QED
    BY <1>0, <2>1, <2>2
<1>7. CASE ApplyControl
  <2>1. /\ UNCHANGED <<count, chan, lost>>
        /\ \A r \in Rooms : \/ mem'[r] = mem[r] /\ r \notin control.rooms
                            \/ mem'[r] = Absent
                            \/ ~mem'[r].seeded
    BY <1>0, <1>7, ApplyControlTyped DEF ApplyControl, producers
  <2>2. ~Absent.seeded
    BY DEF Absent
  <2>3. ASSUME NEW r \in Rooms, Follows(r) PROVE Follows(r)'
    <3>1. mem'[r].seeded => mem'[r] = mem[r] /\ r \notin control.rooms
      BY <2>1, <2>2
    <3> QED
      BY <2>1, <2>3, <3>1 DEF Follows, Counts
  <2> QED
    BY <1>0, <2>1, <2>3
<1>8. CASE EnqueueJob \/ Finished \/ Pump
  BY <1>1, <1>8 DEF EnqueueJob, Finished, Pump, producers
<1>9. ASSUME NEW q \in Rooms, Expire(q) PROVE CountsTyped' /\ (~lost' => Follow')
  <2>1. /\ UNCHANGED <<count, chan, lost, control>>
        /\ \A r \in Rooms : mem'[r].seeded = mem[r].seeded /\ mem'[r].pair = mem[r].pair
    BY <1>0, <1>9, ExpireTyped DEF producers
  <2>2. ASSUME NEW r \in Rooms, Follows(r) PROVE Follows(r)'
    BY <2>1, <2>2 DEF Follows, Counts
  <2> QED
    BY <1>0, <2>1, <2>2
<1>10. ASSUME NEW s \in sends, Check(s) PROVE CountsTyped' /\ (~lost' => Follow')
  BY <1>1, <1>10 DEF Check, producers
<1>11. ASSUME NEW s \in sends, Finish(s) PROVE CountsTyped' /\ (~lost' => Follow')
  BY <1>0, <1>1, <1>11, FinishTyped DEF producers
<1>12. CASE UNCHANGED vars
  BY <1>1, <1>12 DEF vars
<1> QED
  BY <1>2, <1>3, <1>4, <1>5, <1>6, <1>7, <1>8, <1>9, <1>10, <1>11, <1>12 DEF Next, Produce,
     Route

LEMMA InitCount == PushAssumption /\ Init => CountInv
<1> SUFFICES ASSUME PushAssumption, Init PROVE CountInv
  OBVIOUS
<1>1. Typed
  BY InitTyped
<1>2. /\ chan = <<>> /\ count \in [Rooms -> Pairs \cup {NoPair}]
      /\ \A r \in Rooms : ~mem[r].seeded
  BY DEF Init, Absent, Pairs, PushAssumption
<1> QED
  BY <1>1, <1>2 DEF CountInv, Follows

\* While nothing was dropped at the channel, the router's counts are the published ones once it has
\* read everything, except where it was told to forget (capture_unread_counts, apply_observation).
THEOREM CountsCorrect == ASSUME PushAssumption PROVE Spec => []CountsFollow
<1>1. Init => CountInv
  BY InitCount
<1>2. CountInv /\ [Next]_vars => CountInv'
  BY NextCount
<1>3. CountInv => CountsFollow
  BY DEF CountInv, Follows, CountsFollow
<1> QED
  BY <1>1, <1>2, <1>3, PTL DEF Spec

\* The router's invariants together, and what they say of it.
RouterInv == OrderInv /\ SlotInv /\ BadgeInv /\ CountInv

LEMMA RouterStarts == ASSUME PushAssumption, Init PROVE RouterInv
  BY InitOrder, InitSlots, InitBadge, InitCount DEF RouterInv

LEMMA RouterKeeps ==
  ASSUME PushAssumption, RouterInv, [Next]_vars
  PROVE  RouterInv' /\ InOrderStep
  BY NextOrder, NextSlots, NextBadge, NextCount DEF RouterInv

LEMMA RouterMeans ==
  ASSUME PushAssumption, RouterInv
  PROVE  OneSendPerKey /\ NoneStranded /\ SentOnce /\ BadgeFollows /\ CountsFollow
<1>1. OneSendPerKey /\ NoneStranded
  BY OwnBounds, LineStrandsNone DEF RouterInv, OrderInv, LineInv
<1>2. SentOnce
  BY DEF RouterInv, SlotInv, Slots
<1>3. BadgeFollows
  BY DEF RouterInv, BadgeInv, BadgeFollows, BadgeDue
<1>4. CountsFollow
  BY DEF RouterInv, CountInv, Follows, CountsFollow
<1> QED
  BY <1>1, <1>2, <1>3, <1>4

-----------------------------------------------------------------------------
(* Sends and registrations. Rows, snapshots and answers are dated: what a    *)
(* late answer is about is told from what has been registered since.         *)

RowRecords == [id : Push!Times, at : Push!Times, session : Sessions]
SendRecords == [phase : Push!Phases, target : Push!Targets, checked : BOOLEAN, ended : SUBSET Sessions,
                bearer : Push!Bearers, stamp : Push!Times, dated : BOOLEAN]

PushTypes ==
  /\ clock \in Push!Times /\ session \in [Sessions -> {"live", "expired", "revoked"}]
  /\ rows \in [Push!Devices -> RowRecords \cup {Push!NoRow}]
  /\ died \in [Push!Devices -> Push!Times] /\ gone \subseteq Push!Devices
  /\ snap \subseteq Push!Targets
  /\ changed \in BOOLEAN /\ errors \in 0..MaxErrors
  /\ task \in [Tasks -> SendRecords \cup {Push!NoTask}]
  /\ bearer \in 0..minted /\ minted \in Push!Bearers /\ lapses \in Nat
  /\ refused \subseteq 1..minted /\ refusals \subseteq 1..minted

\* A row is dated by its insertion and its last write, which have both happened.
RowsDated ==
  \A d \in Push!Devices : Push!IsRow(d) => rows[d].id <= rows[d].at /\ rows[d].at <= clock

SnapDated == \A x \in snap : x.id <= x.at /\ x.at <= clock

\* A send is to a registration of the past, its answer is about a moment no earlier
\* than that registration, no session that was over at its start is live again, and
\* nothing is cached while it mints.
SendOK(r) ==
  r # Push!NoTask =>
    /\ r.target.id <= r.target.at /\ r.target.at <= clock
    /\ r.phase = "delete" => r.stamp >= r.target.id
    /\ r.ended \cap Push!live = {}
    /\ r.phase = "check" => r.checked = FALSE
    /\ r.checked => r.target.session \notin r.ended
    /\ r.bearer <= minted
    /\ r.phase = "mint" => bearer = 0

SendsOK == \A t \in Tasks : SendOK(task[t])

\* fcm_refresh is a lock, and a bearer in the cache has not lapsed yet.
OneMint == \A t, u \in Tasks : task[t].phase = "mint" /\ task[u].phase = "mint" => t = u
Earned == minted <= lapses + (IF bearer = 0 THEN 0 ELSE 1)

PushInv ==
  /\ PushTypes /\ RowsDated /\ SnapDated /\ SendsOK /\ OneMint /\ Earned
  /\ Push!RevokedOwnsNothing /\ Push!RefusedIsDropped

USE DEF Push!Times, Push!Bearers

LEMMA RowIsRow == Push!NoRow \notin RowRecords
<1> SUFFICES ASSUME Push!NoRow \in RowRecords PROVE FALSE
  OBVIOUS
<1>1. DOMAIN Push!NoRow = {"id"}
  BY DEF Push!NoRow
<1>2. "at" \in DOMAIN Push!NoRow
  BY DEF RowRecords
<1> QED
  BY <1>1, <1>2

LEMMA IdleIsNotASend == Push!NoTask \notin SendRecords /\ Push!NoTask.phase = "idle"
  BY DEF Push!NoTask, SendRecords, Push!Phases

\* The fields of a row and of what is sent to it.
LEMMA RowFields ==
  ASSUME PushTypes, NEW d \in Push!Devices, Push!IsRow(d)
  PROVE  /\ rows[d] \in RowRecords
         /\ rows[d].id \in Push!Times /\ rows[d].at \in Push!Times /\ rows[d].session \in Sessions
         /\ Push!TargetOf(d) \in Push!Targets
         /\ Push!TargetOf(d).device = d /\ Push!TargetOf(d).id = rows[d].id
         /\ Push!TargetOf(d).at = rows[d].at /\ Push!TargetOf(d).session = rows[d].session
<1>1. rows[d] \in RowRecords
  BY DEF PushTypes, Push!IsRow
<1>2. rows[d].id \in Push!Times /\ rows[d].at \in Push!Times /\ rows[d].session \in Sessions
  BY <1>1 DEF RowRecords
<1> QED
  BY <1>1, <1>2 DEF Push!TargetOf, Push!Targets

LEMMA SendFields ==
  ASSUME NEW r \in SendRecords
  PROVE  /\ r.phase \in Push!Phases /\ r.target \in Push!Targets /\ r.checked \in BOOLEAN
         /\ r.ended \in SUBSET Sessions /\ r.bearer \in Push!Bearers /\ r.stamp \in Push!Times
         /\ r.target.device \in Push!Devices /\ r.target.id \in Push!Times /\ r.target.at \in Push!Times
         /\ r.target.session \in Sessions
  BY DEF SendRecords, Push!Targets

\* What keeps every send sound: time passes, sessions end and bearers are minted, but
\* nothing comes back and nothing enters the cache.
LEMMA SendsStay ==
  ASSUME PushTypes, PushTypes', NEW r \in SendRecords \cup {Push!NoTask}, SendOK(r),
         clock <= clock', Push!live' \subseteq Push!live, minted <= minted',
         bearer = 0 /\ r.phase = "mint" => bearer' = 0
  PROVE  SendOK(r)'
<1> SUFFICES ASSUME r # Push!NoTask PROVE SendOK(r)'
  BY DEF SendOK
<1>1. r \in SendRecords
  OBVIOUS
<1>2. /\ r.target.at \in Push!Times /\ r.bearer \in Push!Bearers /\ clock \in Push!Times /\ clock' \in Push!Times
      /\ minted \in Push!Bearers /\ minted' \in Push!Bearers
  BY <1>1, SendFields DEF PushTypes
<1>3. r.target.at <= clock'
  BY <1>2 DEF SendOK
<1>4. r.bearer <= minted'
  BY <1>2 DEF SendOK
<1>5. r.ended \cap Push!live' = {}
  BY DEF SendOK
<1> QED
  BY <1>3, <1>4, <1>5 DEF SendOK


\* Steps that leave the sends alone keep them sound.
LEMMA OthersKeepSends ==
  ASSUME PushInv, PushTypes', UNCHANGED task, clock <= clock', Push!live' \subseteq Push!live,
         minted <= minted', bearer = 0 => bearer' = 0
  PROVE  SendsOK' /\ OneMint'
<1>1. ASSUME NEW t \in Tasks PROVE SendOK(task[t])'
  <2> DEFINE r == task[t]
  <2>1. r \in SendRecords \cup {Push!NoTask} /\ SendOK(r) /\ r = task'[t]
    BY DEF PushInv, PushTypes, SendsOK
  <2>2. PICK q : q = r
    OBVIOUS
  <2>3. SendOK(q)'
    BY <2>1, <2>2, SendsStay DEF PushInv
  <2> QED
    BY <2>1, <2>2, <2>3
<1>2. OneMint'
  BY DEF PushInv, OneMint
<1> QED
  BY <1>1, <1>2 DEF SendsOK

\* PUT of a registration.
LEMMA PutKeeps ==
  ASSUME Push!DeliveryAssumption, PushInv, NEW d \in Push!Devices, NEW s \in Sessions,
         Push!PutRegistration(d, s)
  PROVE  PushInv'
<1>1. /\ s \in Push!live /\ clock < MaxClock /\ clock' = clock + 1 /\ changed' = TRUE
      /\ rows' = [rows EXCEPT ![d] = Push!Upserted(d, s)] /\ gone' \subseteq gone
      /\ UNCHANGED <<session, died, snap, errors, task>>
      /\ UNCHANGED <<bearer, minted, refused, lapses, refusals>>
  BY DEF Push!PutRegistration, Push!fcm
<1>2. clock \in Nat /\ clock' \in Push!Times /\ MaxClock \in Nat
  BY <1>1 DEF PushInv, PushTypes, Push!DeliveryAssumption
<1>3. PICK r : r = Push!Upserted(d, s)
  OBVIOUS
<1>4. r \in RowRecords /\ r.id <= r.at /\ r.at = clock' /\ r.session = s
  <2>1. CASE Push!IsRow(d)
    <3>1. rows[d].id \in Push!Times /\ rows[d].id <= rows[d].at /\ rows[d].at \in Push!Times /\ rows[d].at <= clock
      BY <2>1, RowFields DEF PushInv, RowsDated
    <3>2. r = [id |-> rows[d].id, at |-> clock + 1, session |-> s]
      BY <1>3, <2>1 DEF Push!Upserted
    <3> QED
      BY <3>1, <3>2, <1>1, <1>2 DEF RowRecords
  <2>2. CASE ~Push!IsRow(d)
    <3>2. r = [id |-> clock + 1, at |-> clock + 1, session |-> s]
      BY <1>3, <2>2 DEF Push!Upserted
    <3> QED
      BY <3>2, <1>1, <1>2 DEF RowRecords
  <2> QED
    BY <2>1, <2>2
<1>5. rows' \in [Push!Devices -> RowRecords \cup {Push!NoRow}]
  BY <1>1, <1>3, <1>4 DEF PushInv, PushTypes
<1>6. PushTypes'
  BY <1>1, <1>2, <1>5 DEF PushInv, PushTypes
<1>7. \A e \in Push!Devices : rows'[e] = IF e = d THEN r ELSE rows[e]
  BY <1>1, <1>3 DEF PushInv, PushTypes
<1>8. RowsDated'
  <2> SUFFICES ASSUME NEW e \in Push!Devices, rows'[e] # Push!NoRow
               PROVE rows'[e].id <= rows'[e].at /\ rows'[e].at <= clock'
    BY DEF RowsDated, Push!IsRow
  <2>1. CASE e = d
    BY <2>1, <1>7, <1>4, <1>2
  <2>2. CASE e # d
    <3>1. Push!IsRow(e) /\ rows'[e] = rows[e]
      BY <2>2, <1>7 DEF Push!IsRow
    <3>2. rows[e].id <= rows[e].at /\ rows[e].at <= clock /\ rows[e].at \in Push!Times
      BY <3>1, RowFields DEF PushInv, RowsDated
    <3> QED
      BY <3>1, <3>2, <1>1, <1>2
  <2> QED
    BY <2>1, <2>2
<1>9. SnapDated'
  <2> SUFFICES ASSUME NEW x \in snap PROVE x.id <= x.at /\ x.at <= clock'
    BY <1>1 DEF SnapDated
  <2>1. x.at \in Push!Times /\ x.id <= x.at /\ x.at <= clock
    BY DEF PushInv, PushTypes, Push!Targets, SnapDated
  <2> QED
    BY <2>1, <1>1, <1>2
<1>10. Push!RevokedOwnsNothing'
  <2> SUFFICES ASSUME NEW e \in Push!Devices, rows'[e] # Push!NoRow
               PROVE session[rows'[e].session] # "revoked"
    BY <1>1 DEF Push!RevokedOwnsNothing, Push!IsRow
  <2>1. session[s] = "live"
    BY <1>1 DEF Push!live
  <2> QED
    BY <2>1, <1>7, <1>4 DEF PushInv, Push!RevokedOwnsNothing, Push!IsRow
<1>11. SendsOK' /\ OneMint'
  <2>1. clock <= clock' /\ Push!live' = Push!live
    BY <1>1, <1>2 DEF Push!live
  <2>2. minted <= minted'
    BY <1>1 DEF PushInv, PushTypes
  <2> QED
    BY <2>1, <2>2, <1>1, <1>6, OthersKeepSends
<1>12. Earned' /\ Push!RefusedIsDropped'
  BY <1>1 DEF PushInv, Earned, Push!RefusedIsDropped
<1> QED
  BY <1>6, <1>8, <1>9, <1>10, <1>11, <1>12 DEF PushInv

\* A step that only removes rows, or ends sessions whose rows it removes.
LEMMA RemovalKeeps ==
  ASSUME Push!DeliveryAssumption, PushInv,
         rows' \in [Push!Devices -> RowRecords \cup {Push!NoRow}],
         \A e \in Push!Devices : rows'[e] = rows[e] \/ rows'[e] = Push!NoRow,
         session' \in [Sessions -> {"live", "expired", "revoked"}], Push!live' \subseteq Push!live,
         changed' \in BOOLEAN,
         \A e \in Push!Devices : rows'[e] # Push!NoRow => session'[rows[e].session] # "revoked",
         UNCHANGED <<clock, died, gone, snap, errors, task>>,
         UNCHANGED <<bearer, minted, refused, lapses, refusals>>
  PROVE  PushInv'
<1>1. PushTypes'
  BY DEF PushInv, PushTypes
<1>2. RowsDated' /\ Push!RevokedOwnsNothing'
  BY DEF PushInv, RowsDated, Push!RevokedOwnsNothing, Push!IsRow
<1>3. SnapDated' /\ Earned' /\ Push!RefusedIsDropped'
  BY DEF PushInv, SnapDated, Earned, Push!RefusedIsDropped
<1>4. SendsOK' /\ OneMint'
  <2>1. clock <= clock' /\ minted <= minted'
    BY DEF PushInv, PushTypes, Push!DeliveryAssumption
  <2> QED
    BY <2>1, <1>1, OthersKeepSends
<1> QED
  BY <1>1, <1>2, <1>3, <1>4 DEF PushInv

LEMMA ClientKeeps ==
  ASSUME Push!DeliveryAssumption, PushInv, Push!Client
  PROVE  PushInv'
<1>1. ASSUME NEW d \in Push!Devices, NEW s \in Sessions, Push!PutRegistration(d,
             s) PROVE PushInv'
  BY <1>1, PutKeeps
<1>2. ASSUME NEW d \in Push!Devices, Push!DeleteRegistration(d) PROVE PushInv'
  <2>1. /\ rows' = [rows EXCEPT ![d] = Push!NoRow] /\ changed' = TRUE
        /\ UNCHANGED <<clock, session, died, gone, snap, errors, task>>
        /\ UNCHANGED <<bearer, minted, refused, lapses, refusals>>
    BY <1>2 DEF Push!DeleteRegistration, Push!fcm
  <2>2. rows' \in [Push!Devices -> RowRecords \cup {Push!NoRow}]
        /\ \A e \in Push!Devices : rows'[e] = IF e = d THEN Push!NoRow ELSE rows[e]
    BY <2>1 DEF PushInv, PushTypes
  <2>3. Push!live' = Push!live
    BY <2>1 DEF Push!live
  <2>4. session' \in [Sessions -> {"live", "expired", "revoked"}]
    BY <2>1 DEF PushInv, PushTypes
  <2>5. \A e \in Push!Devices : rows'[e] # Push!NoRow => session'[rows[e].session] # "revoked"
    BY <2>1, <2>2 DEF PushInv, Push!RevokedOwnsNothing, Push!IsRow
  <2> QED
    BY <2>1, <2>2, <2>3, <2>4, <2>5, RemovalKeeps
<1>3. ASSUME NEW d \in Push!Devices, Push!Die(d) PROVE PushInv'
  <2>1. /\ clock < MaxClock /\ clock' = clock + 1
        /\ died' = [died EXCEPT ![d] = clock + 1] /\ gone' = gone \cup {d}
        /\ UNCHANGED <<session, rows, snap, changed, errors, task>>
        /\ UNCHANGED <<bearer, minted, refused, lapses, refusals>>
    BY <1>3 DEF Push!Die, Push!fcm
  <2>2. clock \in Nat /\ clock' \in Push!Times /\ MaxClock \in Nat
    BY <2>1 DEF PushInv, PushTypes, Push!DeliveryAssumption
  <2>3. PushTypes'
    BY <2>1, <2>2 DEF PushInv, PushTypes
  <2>4. RowsDated'
    <3> SUFFICES ASSUME NEW e \in Push!Devices, Push!IsRow(e)
                 PROVE rows[e].id <= rows[e].at /\ rows[e].at <= clock'
      BY <2>1 DEF RowsDated, Push!IsRow
    <3>1. rows[e].id <= rows[e].at /\ rows[e].at <= clock /\ rows[e].at \in Push!Times
      BY RowFields DEF PushInv, RowsDated
    <3> QED
      BY <3>1, <2>1, <2>2
  <2>5. SnapDated'
    <3> SUFFICES ASSUME NEW x \in snap PROVE x.id <= x.at /\ x.at <= clock'
      BY <2>1 DEF SnapDated
    <3>1. x.at \in Push!Times /\ x.id <= x.at /\ x.at <= clock
      BY DEF PushInv, PushTypes, Push!Targets, SnapDated
    <3> QED
      BY <3>1, <2>1, <2>2
  <2>6. SendsOK' /\ OneMint'
    <3>1. clock <= clock' /\ Push!live' = Push!live
      BY <2>1, <2>2 DEF Push!live
    <3>2. minted <= minted'
      BY <2>1 DEF PushInv, PushTypes
    <3> QED
      BY <3>1, <3>2, <2>1, <2>3, OthersKeepSends
  <2> QED
    BY <2>1, <2>3, <2>4, <2>5, <2>6
       DEF PushInv, Earned, Push!RefusedIsDropped, Push!RevokedOwnsNothing, Push!IsRow
<1>4. ASSUME NEW s \in Sessions, Push!RevokeSession(s) PROVE PushInv'
  <2>1. /\ session' = [session EXCEPT ![s] = "revoked"]
        /\ rows' = [d \in Push!Devices |-> IF d \in Push!OfSessions({s}) THEN Push!NoRow ELSE rows[d]]
        /\ UNCHANGED <<clock, died, gone, snap, changed, errors, task>>
        /\ UNCHANGED <<bearer, minted, refused, lapses, refusals>>
    BY <1>4 DEF Push!RevokeSession, Push!fcm
  <2>2. rows' \in [Push!Devices -> RowRecords \cup {Push!NoRow}]
        /\ \A e \in Push!Devices : rows'[e] = rows[e] \/ rows'[e] = Push!NoRow
    BY <2>1 DEF PushInv, PushTypes
  <2>3. session' \in [Sessions -> {"live", "expired", "revoked"}]
    BY <2>1 DEF PushInv, PushTypes
  <2>4. Push!live' \subseteq Push!live
    BY <2>1 DEF PushInv, PushTypes, Push!live
  <2>5. ASSUME NEW e \in Push!Devices, rows'[e] # Push!NoRow
        PROVE  session'[rows[e].session] # "revoked"
    <3>1. rows'[e] = rows[e] /\ Push!IsRow(e) /\ e \notin Push!OfSessions({s})
      BY <2>1, <2>5 DEF Push!IsRow
    <3>2. rows[e].session \in Sessions /\ rows[e].session # s
      BY <3>1, RowFields DEF Push!OfSessions, PushInv
    <3>3. session[rows[e].session] # "revoked"
      BY <3>1 DEF PushInv, Push!RevokedOwnsNothing
    <3> QED
      BY <3>2, <3>3, <2>1 DEF PushInv, PushTypes
  <2>6. changed' \in BOOLEAN
    BY <2>1 DEF PushInv, PushTypes
  <2> QED
    BY <2>1, <2>2, <2>3, <2>4, <2>5, <2>6, RemovalKeeps
<1>5. ASSUME NEW s \in Sessions, Push!ExpireSession(s) PROVE PushInv'
  <2>1. /\ session' = [session EXCEPT ![s] = "expired"]
        /\ UNCHANGED <<rows, clock, died, gone, snap, changed, errors, task>>
        /\ UNCHANGED <<bearer, minted, refused, lapses, refusals>>
    BY <1>5 DEF Push!ExpireSession, Push!fcm
  <2>2. session' \in [Sessions -> {"live", "expired", "revoked"}]
    BY <2>1 DEF PushInv, PushTypes
  <2>3. Push!live' \subseteq Push!live
    BY <2>1 DEF PushInv, PushTypes, Push!live
  <2>4. ASSUME NEW e \in Push!Devices, rows'[e] # Push!NoRow
        PROVE  session'[rows[e].session] # "revoked"
    <3>1. Push!IsRow(e)
      BY <2>1, <2>4 DEF Push!IsRow
    <3>2. rows[e].session \in Sessions
      BY <3>1, RowFields DEF PushInv
    <3>3. session[rows[e].session] # "revoked"
      BY <3>1 DEF PushInv, Push!RevokedOwnsNothing
    <3> QED
      BY <3>2, <3>3, <2>1 DEF PushInv, PushTypes
  <2>5. changed' \in BOOLEAN /\ rows' \in [Push!Devices -> RowRecords \cup {Push!NoRow}]
    BY <2>1 DEF PushInv, PushTypes
  <2> QED
    BY <2>1, <2>2, <2>3, <2>4, <2>5, RemovalKeeps
<1> QED
  BY <1>1, <1>2, <1>3, <1>4, <1>5 DEF Push!Client


LEMMA ReapKeeps ==
  ASSUME Push!DeliveryAssumption, PushInv, Push!Reap
  PROVE  PushInv'
<1>1. PICK over : /\ rows' = [d \in Push!Devices |-> IF d \in over THEN Push!NoRow ELSE rows[d]]
                  /\ changed' = TRUE
                  /\ UNCHANGED <<clock, session, died, gone, snap, errors, task>>
                  /\ UNCHANGED <<bearer, minted, refused, lapses, refusals>>
  BY DEF Push!Reap, Push!fcm
<1>2. rows' \in [Push!Devices -> RowRecords \cup {Push!NoRow}]
      /\ \A e \in Push!Devices : rows'[e] = rows[e] \/ rows'[e] = Push!NoRow
  BY <1>1 DEF PushInv, PushTypes
<1>3. session' \in [Sessions -> {"live", "expired", "revoked"}]
  BY <1>1 DEF PushInv, PushTypes
<1>4. Push!live' = Push!live
  BY <1>1 DEF Push!live
<1>5. \A e \in Push!Devices : rows'[e] # Push!NoRow => session'[rows[e].session] # "revoked"
  BY <1>1, <1>2 DEF PushInv, Push!RevokedOwnsNothing, Push!IsRow
<1> QED
  BY <1>1, <1>2, <1>3, <1>4, <1>5, RemovalKeeps

\* Both arms of the reload loop read the rows that are there.
LEMMA ReloadsKeep ==
  ASSUME Push!DeliveryAssumption, PushInv, Push!Reload \/ Push!ReloadTick
  PROVE  PushInv'
<1>1. /\ changed' \in BOOLEAN /\ errors' \in 0..MaxErrors
      /\ snap' = Push!Listed \/ snap' = snap
      /\ UNCHANGED <<clock, session, rows, died, gone, task>>
      /\ UNCHANGED <<bearer, minted, refused, lapses, refusals>>
  <2>1. changed \in BOOLEAN /\ errors \in 0..MaxErrors /\ MaxErrors \in Nat
    BY DEF PushInv, PushTypes, Push!DeliveryAssumption
  <2>2. CASE Push!Reload
    <3>1. /\ changed' = FALSE
          /\ \/ snap' = Push!Listed /\ errors' = errors
             \/ errors < MaxErrors /\ errors' = errors + 1 /\ snap' = snap
          /\ UNCHANGED Push!store /\ UNCHANGED task /\ UNCHANGED Push!fcm
      BY <2>2, Zenon DEF Push!Reload, Push!Fail
    <3>2. changed' \in BOOLEAN
      BY <3>1, Zenon
    <3>3. errors' \in 0..MaxErrors
      BY <2>1, <3>1
    <3>4. UNCHANGED <<clock, session, rows, died, gone, task>>
          /\ UNCHANGED <<bearer, minted, refused, lapses, refusals>>
      BY <3>1, Zenon DEF Push!store, Push!fcm
    <3>5. snap' = Push!Listed \/ snap' = snap
      BY <3>1, Zenon
    <3> QED
      BY <3>2, <3>3, <3>4, <3>5
  <2>3. CASE Push!ReloadTick
    BY <2>1, <2>3 DEF Push!ReloadTick, Push!Fail, Push!store, Push!fcm
  <2> QED
    BY <2>2, <2>3
<1>2. ASSUME NEW x \in snap' PROVE x \in Push!Targets /\ x.id <= x.at /\ x.at <= clock
  <2>1. CASE x \in snap
    BY <2>1 DEF PushInv, PushTypes, SnapDated
  <2>2. CASE x \in Push!Listed
    <3>1. PICK d \in Push!Devices : Push!IsRow(d) /\ x = Push!TargetOf(d)
      BY <2>2 DEF Push!Listed
    <3> QED
      BY <3>1, RowFields DEF PushInv, RowsDated
  <2> QED
    BY <1>1, <1>2, <2>1, <2>2
<1>3. PushTypes'
  BY <1>1, <1>2 DEF PushInv, PushTypes
<1>4. SnapDated'
  BY <1>1, <1>2 DEF SnapDated
<1>5. SendsOK' /\ OneMint'
  <2>1. Push!live' = Push!live
    BY <1>1 DEF Push!live
  <2>2. clock <= clock' /\ minted <= minted'
    BY <1>1 DEF PushInv, PushTypes, Push!DeliveryAssumption
  <2> QED
    BY <2>1, <2>2, <1>1, <1>3, OthersKeepSends
<1> QED
  BY <1>1, <1>3, <1>4, <1>5
     DEF PushInv, Earned, Push!RefusedIsDropped, Push!RevokedOwnsNothing, RowsDated,
        Push!IsRow

\* The bearer ages, or its key is rotated.
LEMMA BearersKeep ==
  ASSUME Push!DeliveryAssumption, PushInv, Push!BearerAges \/ Push!KeyRotates
  PROVE  PushInv'
<1>1. /\ UNCHANGED <<clock, session, rows, died, gone>>
      /\ UNCHANGED <<snap, changed, errors, task, minted, refusals>>
      /\ bearer' = bearer \/ bearer' = 0
      /\ refused' = refused \/ refused' = 1..minted
      /\ \/ bearer' = bearer /\ lapses' = lapses
         \/ bearer # 0 /\ bearer' = 0 /\ lapses' = lapses + 1
  BY DEF Push!BearerAges, Push!KeyRotates, Push!store
<1>2. bearer \in Nat /\ minted \in Nat /\ lapses \in Nat
  BY DEF PushInv, PushTypes, Push!DeliveryAssumption
<1>3. PushTypes'
  <2>1. bearer' \in 0..minted' /\ lapses' \in Nat
    BY <1>1, <1>2 DEF PushInv, PushTypes
  <2>2. refused' \subseteq 1..minted'
    BY <1>1 DEF PushInv, PushTypes
  <2> QED
    BY <1>1, <2>1, <2>2 DEF PushInv, PushTypes
<1>4. SendsOK' /\ OneMint'
  <2>1. Push!live' = Push!live
    BY <1>1 DEF Push!live
  <2>2. clock <= clock' /\ minted <= minted'
    BY <1>1, <1>2 DEF PushInv, PushTypes, Push!DeliveryAssumption
  <2> QED
    BY <2>1, <2>2, <1>1, <1>3, OthersKeepSends
<1>5. Earned'
  BY <1>1, <1>2 DEF PushInv, Earned
<1>6. Push!RefusedIsDropped'
  <2>1. 0 \notin refusals
    BY DEF PushInv, PushTypes
  <2> QED
    BY <2>1, <1>1 DEF PushInv, Push!RefusedIsDropped
<1> QED
  BY <1>1, <1>3, <1>4, <1>5, <1>6
     DEF PushInv, Push!RevokedOwnsNothing, RowsDated, SnapDated, Push!IsRow

-----------------------------------------------------------------------------

\* A step of one send: the others stay as they are, the cache is not filled under one that
\* mints, and rows only go.
LEMMA SendKeeps ==
  ASSUME Push!DeliveryAssumption, PushInv, NEW t \in Tasks,
         NEW r \in SendRecords \cup {Push!NoTask},
         task' = [task EXCEPT ![t] = r], SendOK(r)',
         UNCHANGED <<clock, session, died, gone, snap, changed>>, errors' \in 0..MaxErrors,
         rows' \in [Push!Devices -> RowRecords \cup {Push!NoRow}],
         \A e \in Push!Devices : rows'[e] = rows[e] \/ rows'[e] = Push!NoRow,
         minted' \in Push!Bearers, minted <= minted', bearer' \in 0..minted', lapses' \in Nat,
         refused' \subseteq 1..minted', refusals' \subseteq 1..minted',
         Earned', Push!RefusedIsDropped',
         r.phase = "mint" => \A u \in Tasks : u # t => task[u].phase # "mint",
         \A u \in Tasks : u # t /\ task[u].phase = "mint" /\ bearer = 0 => bearer' = 0
  PROVE  PushInv'
<1>1. PushTypes'
  BY DEF PushInv, PushTypes
<1>2. \A u \in Tasks : task'[u] = IF u = t THEN r ELSE task[u]
  BY DEF PushInv, PushTypes
<1>3. RowsDated' /\ Push!RevokedOwnsNothing' /\ SnapDated'
  BY DEF PushInv, RowsDated, Push!RevokedOwnsNothing, Push!IsRow, SnapDated
<1>4. OneMint'
  BY <1>2 DEF OneMint, PushInv
<1>5. ASSUME NEW u \in Tasks PROVE SendOK(task[u])'
  <2>1. CASE u = t
    BY <2>1, <1>2
  <2>2. CASE u # t
    <3>1. PICK q : q = task[u]
      OBVIOUS
    <3>2. q \in SendRecords \cup {Push!NoTask} /\ SendOK(q)
      BY <3>1 DEF PushInv, PushTypes, SendsOK
    <3>3. Push!live' = Push!live /\ clock <= clock'
      BY DEF Push!live, PushInv, PushTypes, Push!DeliveryAssumption
    <3>4. SendOK(q)'
      BY <1>1, <2>2, <3>1, <3>2, <3>3, SendsStay DEF PushInv
    <3>5. q = task'[u]
      BY <1>2, <2>2, <3>1
    <3> QED
      BY <3>4, <3>5
  <2> QED
    BY <2>1, <2>2
<1> QED
  BY <1>1, <1>3, <1>4, <1>5 DEF PushInv, SendsOK

\* A step of one send that leaves the rows and the bearers alone.
LEMMA SendMoves ==
  ASSUME Push!DeliveryAssumption, PushInv, NEW t \in Tasks,
         NEW r \in SendRecords \cup {Push!NoTask},
         task' = [task EXCEPT ![t] = r], SendOK(r),
         UNCHANGED <<clock, session, rows, died, gone>>, UNCHANGED <<snap, changed>>,
         errors' \in 0..MaxErrors,
         UNCHANGED <<bearer, minted, refused, lapses, refusals>>,
         r.phase = "mint" => \A u \in Tasks : u # t => task[u].phase # "mint"
  PROVE  PushInv'
<1>1. SendOK(r)'
  BY DEF SendOK, Push!live
<1>2. /\ rows' \in [Push!Devices -> RowRecords \cup {Push!NoRow}]
      /\ \A e \in Push!Devices : rows'[e] = rows[e] \/ rows'[e] = Push!NoRow
      /\ minted' \in Push!Bearers /\ minted <= minted' /\ bearer' \in 0..minted' /\ lapses' \in Nat
      /\ refused' \subseteq 1..minted' /\ refusals' \subseteq 1..minted'
  BY DEF PushInv, PushTypes, Push!DeliveryAssumption
<1>3. Earned' /\ Push!RefusedIsDropped'
  BY DEF PushInv, Earned, Push!RefusedIsDropped
<1> QED
  BY <1>1, <1>2, <1>3, SendKeeps

\* The steps that end a send and do nothing else.
LEMMA EndsKeep ==
  ASSUME Push!DeliveryAssumption, PushInv, NEW t \in Tasks, Push!End(t),
         UNCHANGED <<clock, session, rows, died, gone>>, UNCHANGED <<snap, changed>>,
         errors' \in 0..MaxErrors,
         UNCHANGED <<bearer, minted, refused, lapses, refusals>>
  PROVE  PushInv'
<1>1. task' = [task EXCEPT ![t] = Push!NoTask]
  BY DEF Push!End
<1>2. SendOK(Push!NoTask) /\ Push!NoTask.phase # "mint"
  BY IdleIsNotASend DEF SendOK
<1>3. PICK r : r = Push!NoTask
  OBVIOUS
<1> QED
  BY <1>1, <1>2, <1>3, SendMoves


LEMMA StartKeeps ==
  ASSUME Push!DeliveryAssumption, PushInv, NEW t \in Tasks, Push!Start(t)
  PROVE  PushInv'
<1>1. PICK x \in snap : task' = [task EXCEPT ![t] = Push!Started(x)]
  BY DEF Push!Start
<1>2. /\ UNCHANGED <<clock, session, rows, died, gone>> /\ UNCHANGED <<snap, changed>>
      /\ UNCHANGED errors /\ UNCHANGED <<bearer, minted, refused, lapses, refusals>>
  BY DEF Push!Start, Push!store, Push!fcm
<1>3. x \in Push!Targets /\ x.id <= x.at /\ x.at <= clock
  BY DEF PushInv, PushTypes, SnapDated
<1>4. PICK r : r = Push!Started(x)
  OBVIOUS
<1>5. /\ r = [phase |-> "check", target |-> x, checked |-> FALSE, ended |-> Sessions \ Push!live,
              bearer |-> 0, stamp |-> 0, dated |-> FALSE]
  BY <1>4 DEF Push!Started
<1>6. r \in SendRecords
  BY <1>3, <1>5 DEF SendRecords, Push!Phases, Push!DeliveryAssumption
<1>7. minted \in Nat /\ errors \in 0..MaxErrors
  BY DEF PushInv, PushTypes, Push!DeliveryAssumption
<1>8. /\ r.phase = "check" /\ r.target = x /\ r.checked = FALSE /\ r.bearer = 0
      /\ r.ended \cap Push!live = {}
  BY <1>5
<1>9. SendOK(r)
  BY <1>3, <1>7, <1>8 DEF SendOK
<1> QED
  BY <1>1, <1>2, <1>4, <1>6, <1>7, <1>8, <1>9, SendMoves

\* What a send that is running looks like.
LEMMA Running ==
  ASSUME PushInv, NEW t \in Tasks, task[t].phase \in Push!Phases
  PROVE  /\ task[t] \in SendRecords /\ task[t] # Push!NoTask
         /\ task[t].phase \in Push!Phases /\ task[t].target \in Push!Targets
         /\ task[t].target.device \in Push!Devices
         /\ task[t].target.id \in Push!Times /\ task[t].target.at \in Push!Times
         /\ task[t].bearer \in Push!Bearers /\ task[t].stamp \in Push!Times
         /\ SendOK(task[t])
<1>1. task[t] # Push!NoTask
  BY IdleIsNotASend DEF Push!Phases
<1>2. task[t] \in SendRecords
  BY <1>1 DEF PushInv, PushTypes
<1> QED
  BY <1>1, <1>2, SendFields DEF PushInv, SendsOK

\* The liveness read of a send.
LEMMA CheckKeeps ==
  ASSUME Push!DeliveryAssumption, PushInv, NEW t \in Tasks, Push!Check(t)
  PROVE  PushInv'
<1>1. task[t].phase = "check"
  BY DEF Push!Check
<1>2. /\ UNCHANGED <<clock, session, rows, died, gone>> /\ UNCHANGED <<snap, changed>>
      /\ UNCHANGED <<bearer, minted, refused, lapses, refusals>>
  BY DEF Push!Check, Push!store, Push!fcm
<1>3. PICK p : p = task[t]
  OBVIOUS
<1>4. p \in SendRecords /\ p # Push!NoTask /\ SendOK(p) /\ p.target.device \in Push!Devices
  BY <1>1, <1>3, Running DEF Push!Phases
<1>5. PICK x : x = Push!TargetOf(p.target.device)
  OBVIOUS
<1>6. errors \in 0..MaxErrors /\ MaxErrors \in Nat
  BY DEF PushInv, PushTypes, Push!DeliveryAssumption
<1>7. \/ ~Push!Current(t) /\ Push!End(t) /\ UNCHANGED errors
      \/ /\ Push!Current(t) /\ x.session \notin Push!live
         /\ task' = [task EXCEPT ![t] = [p EXCEPT !.phase = "forget", !.target = x]]
         /\ UNCHANGED errors
      \/ /\ Push!Current(t) /\ x.session \in Push!live
         /\ task' = [task EXCEPT ![t] = [p EXCEPT !.phase = Push!Next_phase(x), !.target = x,
                                                  !.checked = TRUE]]
         /\ UNCHANGED errors
      \/ /\ errors < MaxErrors /\ errors' = errors + 1
         /\ task' = [task EXCEPT ![t] = [p EXCEPT !.phase = Push!Next_phase(p.target)]]
  BY <1>3, <1>5 DEF Push!Check, Push!Fail, Push!Goto
<1>8. CASE Push!End(t) /\ UNCHANGED errors
  BY <1>2, <1>6, <1>8, EndsKeep
<1>9. \A y : Push!Next_phase(y) \in {"bearer", "post"}
  BY DEF Push!Next_phase
<1>10. ASSUME Push!Current(t) PROVE x \in Push!Targets /\ x.id <= x.at /\ x.at <= clock
  BY <1>3, <1>4, <1>5, <1>10, RowFields DEF Push!Current, PushInv, RowsDated
<1>11. CASE /\ Push!Current(t) /\ x.session \notin Push!live
            /\ task' = [task EXCEPT ![t] = [p EXCEPT !.phase = "forget", !.target = x]]
            /\ UNCHANGED errors
  <2>1. PICK r : r = [p EXCEPT !.phase = "forget", !.target = x]
    OBVIOUS
  <2>2. /\ r \in SendRecords /\ r.phase = "forget" /\ r.target = x /\ r.checked = p.checked
        /\ r.ended = p.ended /\ r.bearer = p.bearer
    BY <1>4, <1>10, <1>11, <2>1 DEF SendRecords, Push!Phases
  <2>3. p.checked = FALSE
    BY <1>1, <1>3, <1>4 DEF SendOK
  <2>4. SendOK(r)
    BY <1>4, <1>10, <1>11, <2>2, <2>3 DEF SendOK
  <2> QED
    BY <1>2, <1>6, <1>11, <2>1, <2>2, <2>4, SendMoves
<1>12. CASE /\ Push!Current(t) /\ x.session \in Push!live
            /\ task' = [task EXCEPT ![t] = [p EXCEPT !.phase = Push!Next_phase(x), !.target = x,
                                                     !.checked = TRUE]]
            /\ UNCHANGED errors
  <2>1. PICK r : r = [p EXCEPT !.phase = Push!Next_phase(x), !.target = x, !.checked = TRUE]
    OBVIOUS
  <2>2. /\ r \in SendRecords /\ r.phase \in {"bearer", "post"} /\ r.target = x
        /\ r.ended = p.ended /\ r.bearer = p.bearer
    BY <1>4, <1>9, <1>10, <1>12, <2>1 DEF SendRecords, Push!Phases
  <2>3. SendOK(r)
    BY <1>4, <1>10, <1>12, <2>2 DEF SendOK
  <2> QED
    BY <1>2, <1>6, <1>12, <2>1, <2>2, <2>3, SendMoves
<1>13. CASE /\ errors < MaxErrors /\ errors' = errors + 1
            /\ task' = [task EXCEPT ![t] = [p EXCEPT !.phase = Push!Next_phase(p.target)]]
  <2>1. PICK r : r = [p EXCEPT !.phase = Push!Next_phase(p.target)]
    OBVIOUS
  <2>2. /\ r \in SendRecords /\ r.phase \in {"bearer", "post"} /\ r.target = p.target
        /\ r.ended = p.ended /\ r.bearer = p.bearer /\ r.checked = p.checked
    BY <1>4, <1>9, <2>1 DEF SendRecords, Push!Phases
  <2>3. SendOK(r)
    BY <1>4, <2>2 DEF SendOK
  <2>4. errors' \in 0..MaxErrors
    BY <1>6, <1>13
  <2> QED
    BY <1>2, <1>13, <2>1, <2>2, <2>3, <2>4, SendMoves
<1> QED
  BY <1>7, <1>8, <1>11, <1>12, <1>13


\* The steps between the liveness read and the provider's answer that touch no bearer.
LEMMA BearerKeeps ==
  ASSUME Push!DeliveryAssumption, PushInv, NEW t \in Tasks, Push!Bearer(t) \/ Push!Refresh(t)
  PROVE  PushInv'
<1>1. task[t].phase \in {"bearer", "refresh"}
  BY DEF Push!Bearer, Push!Refresh
<1>2. /\ UNCHANGED <<clock, session, rows, died, gone>> /\ UNCHANGED <<snap, changed>>
      /\ UNCHANGED errors /\ UNCHANGED <<bearer, minted, refused, lapses, refusals>>
  BY DEF Push!Bearer, Push!Refresh, Push!store, Push!fcm
<1>3. PICK p : p = task[t]
  OBVIOUS
<1>4. p \in SendRecords /\ p # Push!NoTask /\ SendOK(p)
  BY <1>1, <1>3, Running DEF Push!Phases
<1>5. PICK next \in {"post", "refresh", "mint"} :
        /\ task' = [task EXCEPT ![t] = [p EXCEPT !.phase = next, !.bearer = bearer]]
        /\ next = "mint" => bearer = 0 /\ Push!Refreshing = {}
  <2>1. CASE Push!Bearer(t)
    <3>1. PICK next : next = IF bearer # 0 THEN "post" ELSE "refresh"
      OBVIOUS
    <3> QED
      BY <1>3, <2>1, <3>1 DEF Push!Bearer
  <2>2. CASE Push!Refresh(t)
    <3>1. PICK next : next = IF bearer # 0 THEN "post" ELSE "mint"
      OBVIOUS
    <3> QED
      BY <1>3, <2>2, <3>1 DEF Push!Refresh
  <2> QED
    BY <2>1, <2>2
<1>6. PICK r : r = [p EXCEPT !.phase = next, !.bearer = bearer]
  OBVIOUS
<1>7. bearer \in 0..minted /\ minted \in Push!Bearers /\ bearer \in Push!Bearers /\ errors \in 0..MaxErrors
  BY DEF PushInv, PushTypes, Push!DeliveryAssumption
<1>8. /\ r \in SendRecords /\ r.phase = next /\ r.target = p.target
      /\ r.ended = p.ended /\ r.bearer = bearer /\ r.checked = p.checked
  BY <1>4, <1>6, <1>7 DEF SendRecords, Push!Phases
<1>9. SendOK(r)
  BY <1>4, <1>5, <1>7, <1>8 DEF SendOK
<1>10. r.phase = "mint" => \A u \in Tasks : u # t => task[u].phase # "mint"
  BY <1>5, <1>8 DEF Push!Refreshing
<1> QED
  BY <1>2, <1>5, <1>6, <1>7, <1>8, <1>9, <1>10, SendMoves

\* A bearer is minted by the one send that holds fcm_refresh, into an empty cache.
LEMMA MintKeeps ==
  ASSUME Push!DeliveryAssumption, PushInv, NEW t \in Tasks, Push!Mint(t)
  PROVE  PushInv'
<1>1. task[t].phase = "mint" /\ minted < MaxBearer /\ minted' = minted + 1
      /\ bearer' = minted + 1
      /\ UNCHANGED <<clock, session, rows, died, gone>> /\ UNCHANGED <<snap, changed>>
      /\ UNCHANGED errors /\ UNCHANGED <<refused, lapses, refusals>>
  BY DEF Push!Mint, Push!store
<1>2. PICK p : p = task[t]
  OBVIOUS
<1>3. p \in SendRecords /\ p # Push!NoTask /\ SendOK(p)
  BY <1>1, <1>2, Running DEF Push!Phases
<1>4. PICK r : r = [p EXCEPT !.phase = "post", !.bearer = minted + 1]
  OBVIOUS
<1>5. task' = [task EXCEPT ![t] = r]
  BY <1>2, <1>4 DEF Push!Mint
<1>6. /\ bearer = 0 /\ minted \in Nat /\ MaxBearer \in Nat /\ lapses \in Nat
      /\ minted + 1 \in Push!Bearers
  BY <1>1, <1>2, <1>3 DEF SendOK, PushInv, PushTypes, Push!DeliveryAssumption
<1>7. /\ r \in SendRecords /\ r.phase = "post" /\ r.target = p.target
      /\ r.ended = p.ended /\ r.bearer = minted + 1 /\ r.checked = p.checked
  BY <1>3, <1>4, <1>6 DEF SendRecords, Push!Phases
<1>8. SendOK(r)'
  <2>1. Push!live' = Push!live
    BY <1>1 DEF Push!live
  <2> QED
    BY <1>1, <1>3, <1>6, <1>7, <2>1 DEF SendOK
<1>9. \A u \in Tasks : u # t => task[u].phase # "mint"
  BY <1>1 DEF PushInv, OneMint
<1>10. Earned'
  BY <1>1, <1>6 DEF PushInv, Earned
<1>11. Push!RefusedIsDropped' /\ refused' \subseteq 1..minted' /\ refusals' \subseteq 1..minted'
  BY <1>1, <1>6 DEF PushInv, PushTypes, Push!RefusedIsDropped
<1>12. rows' \in [Push!Devices -> RowRecords \cup {Push!NoRow}]
       /\ \A e \in Push!Devices : rows'[e] = rows[e] \/ rows'[e] = Push!NoRow
  BY <1>1 DEF PushInv, PushTypes
<1>13. errors' \in 0..MaxErrors
  BY <1>1 DEF PushInv, PushTypes
<1>14. minted' \in Push!Bearers /\ minted <= minted' /\ bearer' \in 0..minted' /\ lapses' \in Nat
  BY <1>1, <1>6
<1> QED
  BY <1>1, <1>5, <1>7, <1>8, <1>9, <1>10, <1>11, <1>12, <1>13, <1>14, SendKeeps

\* A 401 drops whatever is cached.
LEMMA BearerRejectedKeeps ==
  ASSUME Push!DeliveryAssumption, PushInv, NEW t \in Tasks, Push!BearerRejected(t)
  PROVE  PushInv'
<1>1. /\ task[t].bearer \in refused /\ bearer' = 0
      /\ lapses' = IF bearer # 0 THEN lapses + 1 ELSE lapses
      /\ refusals' = refusals \cup {task[t].bearer}
      /\ task' = [task EXCEPT ![t] = Push!NoTask]
      /\ UNCHANGED <<clock, session, rows, died, gone>> /\ UNCHANGED <<snap, changed>>
      /\ UNCHANGED errors /\ UNCHANGED <<minted, refused>>
  BY DEF Push!BearerRejected, Push!End, Push!store
<1>2. minted \in Nat /\ minted \in Push!Bearers /\ lapses \in Nat /\ bearer \in Nat
  BY DEF PushInv, PushTypes, Push!DeliveryAssumption
<1>3. PICK r : r = Push!NoTask
  OBVIOUS
<1>4. SendOK(r)' /\ r.phase # "mint"
  BY <1>3, IdleIsNotASend DEF SendOK
<1>5. refused' \subseteq 1..minted' /\ refusals' \subseteq 1..minted'
  BY <1>1 DEF PushInv, PushTypes
<1>6. Push!RefusedIsDropped'
  BY <1>1, <1>5 DEF Push!RefusedIsDropped
<1>7. Earned'
  BY <1>1, <1>2 DEF PushInv, Earned
<1>8. minted' \in Push!Bearers /\ minted <= minted' /\ bearer' \in 0..minted' /\ lapses' \in Nat
  BY <1>1, <1>2
<1>9. rows' \in [Push!Devices -> RowRecords \cup {Push!NoRow}]
      /\ \A e \in Push!Devices : rows'[e] = rows[e] \/ rows'[e] = Push!NoRow
  BY <1>1 DEF PushInv, PushTypes
<1>10. errors' \in 0..MaxErrors
  BY <1>1 DEF PushInv, PushTypes
<1> QED
  BY <1>1, <1>3, <1>4, <1>5, <1>6, <1>7, <1>8, <1>9, <1>10, SendKeeps


\* A provider's answer that removes the row is about a moment after its registration.
LEMMA AnswersKeep ==
  ASSUME Push!DeliveryAssumption, PushInv, NEW t \in Tasks,
         Push!Unregistered(t) \/ Push!Rejected(t)
  PROVE  PushInv'
<1>1. task[t].phase = "post"
  BY DEF Push!Unregistered, Push!Rejected
<1>2. /\ UNCHANGED <<clock, session, rows, died, gone>> /\ UNCHANGED <<snap, changed>>
      /\ UNCHANGED errors /\ UNCHANGED <<bearer, minted, refused, lapses, refusals>>
  BY DEF Push!Unregistered, Push!Rejected, Push!store, Push!fcm
<1>3. PICK p : p = task[t]
  OBVIOUS
<1>4. /\ p \in SendRecords /\ p # Push!NoTask /\ SendOK(p) /\ p.target.device \in Push!Devices
      /\ p.target.id \in Push!Times /\ p.target.at \in Push!Times
  BY <1>1, <1>3, Running DEF Push!Phases
<1>5. errors \in 0..MaxErrors /\ clock \in Push!Times /\ died[p.target.device] \in Push!Times
  BY <1>4 DEF PushInv, PushTypes
<1>6. /\ p.target.id <= p.target.at /\ p.target.at <= clock /\ p.ended \cap Push!live = {}
      /\ p.checked => p.target.session \notin p.ended
      /\ p.bearer <= minted
  BY <1>4 DEF SendOK
<1>7. ASSUME NEW stamp \in Push!Times, stamp >= p.target.id,
             NEW r \in SendRecords, r.phase = "delete", r.stamp = stamp,
             r.target = p.target, r.checked = p.checked, r.ended = p.ended,
             r.bearer = p.bearer, task' = [task EXCEPT ![t] = r]
      PROVE  PushInv'
  <2>1. SendOK(r)
    BY <1>6, <1>7 DEF SendOK
  <2> QED
    BY <1>2, <1>5, <1>7, <2>1, SendMoves
<1>8. CASE Push!Unregistered(t)
  <2>1. PICK s : s = died[p.target.device]
    OBVIOUS
  <2>2. \/ /\ s > p.target.at
           /\ task' = [task EXCEPT ![t] = [p EXCEPT !.phase = "delete", !.stamp = s,
                                                    !.dated = TRUE]]
        \/ task' = [task EXCEPT ![t] = Push!NoTask]
    BY <1>3, <1>8, <2>1 DEF Push!Unregistered
  <2>3. CASE task' = [task EXCEPT ![t] = Push!NoTask]
    BY <1>2, <1>5, <2>3, EndsKeep DEF Push!End
  <2>4. CASE /\ s > p.target.at
             /\ task' = [task EXCEPT ![t] = [p EXCEPT !.phase = "delete", !.stamp = s,
                                                      !.dated = TRUE]]
    <3>1. PICK r : r = [p EXCEPT !.phase = "delete", !.stamp = s, !.dated = TRUE]
      OBVIOUS
    <3>2. s \in Push!Times /\ s >= p.target.id
      BY <1>4, <1>5, <1>6, <2>1, <2>4
    <3>3. /\ r \in SendRecords /\ r.phase = "delete" /\ r.stamp = s
          /\ r.target = p.target /\ r.checked = p.checked /\ r.ended = p.ended
          /\ r.bearer = p.bearer
      BY <1>4, <3>1, <3>2 DEF SendRecords, Push!Phases
    <3> QED
      BY <1>7, <2>4, <3>1, <3>2, <3>3
  <2> QED
    BY <2>2, <2>3, <2>4
<1>9. CASE Push!Rejected(t)
  <2>1. PICK r : r = [p EXCEPT !.phase = "delete", !.stamp = clock]
    OBVIOUS
  <2>2. task' = [task EXCEPT ![t] = r]
    BY <1>3, <1>9, <2>1 DEF Push!Rejected
  <2>3. /\ r \in SendRecords /\ r.phase = "delete" /\ r.stamp = clock
        /\ r.target = p.target /\ r.checked = p.checked /\ r.ended = p.ended
        /\ r.bearer = p.bearer
    BY <1>4, <1>5, <2>1 DEF SendRecords, Push!Phases
  <2>4. clock >= p.target.id
    BY <1>4, <1>5, <1>6
  <2> QED
    BY <1>5, <1>7, <2>2, <2>3, <2>4
<1> QED
  BY <1>8, <1>9

LEMMA DeleteKeeps ==
  ASSUME Push!DeliveryAssumption, PushInv, NEW t \in Tasks, Push!Delete(t)
  PROVE  PushInv'
<1>1. PICK d : d = task[t].target.device
  OBVIOUS
<1>2. /\ task[t].phase \in {"forget", "delete"}
      /\ \/ rows' = [rows EXCEPT ![d] = Push!NoRow] /\ errors' = errors
         \/ rows' = rows /\ errors' = errors
         \/ rows' = rows /\ errors < MaxErrors /\ errors' = errors + 1
      /\ task' = [task EXCEPT ![t] = Push!NoTask]
      /\ UNCHANGED <<clock, session, died, gone, snap, changed>>
      /\ UNCHANGED <<bearer, minted, refused, lapses, refusals>>
  BY <1>1 DEF Push!Delete, Push!End, Push!Fail, Push!fcm
<1>3. d \in Push!Devices
  BY <1>1, <1>2, Running DEF Push!Phases
<1>4. rows' \in [Push!Devices -> RowRecords \cup {Push!NoRow}]
      /\ \A e \in Push!Devices : rows'[e] = rows[e] \/ rows'[e] = Push!NoRow
  BY <1>2, <1>3 DEF PushInv, PushTypes
<1>5. PICK r : r = Push!NoTask
  OBVIOUS
<1>6. SendOK(r)' /\ r.phase # "mint"
  BY <1>5, IdleIsNotASend DEF SendOK
<1>7. errors' \in 0..MaxErrors
  BY <1>2 DEF PushInv, PushTypes, Push!DeliveryAssumption
<1>8. /\ minted' \in Push!Bearers /\ minted <= minted' /\ bearer' \in 0..minted' /\ lapses' \in Nat
      /\ refused' \subseteq 1..minted' /\ refusals' \subseteq 1..minted'
  BY <1>2 DEF PushInv, PushTypes, Push!DeliveryAssumption
<1>9. Earned' /\ Push!RefusedIsDropped'
  BY <1>2 DEF PushInv, Earned, Push!RefusedIsDropped
<1> QED
  BY <1>2, <1>4, <1>5, <1>6, <1>7, <1>8, <1>9, SendKeeps

LEMMA PushNextKeeps ==
  ASSUME Push!DeliveryAssumption, PushInv, [Push!Next]_Push!vars
  PROVE  PushInv'
<1>1. CASE Push!Client
  BY <1>1, ClientKeeps
<1>2. CASE Push!Reap
  BY <1>2, ReapKeeps
<1>3. CASE Push!Reload \/ Push!ReloadTick
  BY <1>3, ReloadsKeep
<1>4. CASE Push!BearerAges \/ Push!KeyRotates
  BY <1>4, BearersKeep
<1>5. ASSUME NEW t \in Tasks, Push!Start(t) PROVE PushInv'
  BY <1>5, StartKeeps
<1>6. ASSUME NEW t \in Tasks, Push!Send(t) PROVE PushInv'
  <2>1. CASE Push!Check(t)
    BY <2>1, CheckKeeps
  <2>2. CASE Push!Cancel(t) \/ Push!Keep(t) \/ Push!Sent(t)
    <3>1. Push!End(t) /\ UNCHANGED Push!store /\ UNCHANGED <<snap, changed, errors>> /\ UNCHANGED Push!fcm
      BY <2>2 DEF Push!Cancel, Push!Keep, Push!Sent
    <3>2. /\ UNCHANGED <<clock, session, rows, died, gone>> /\ UNCHANGED <<snap, changed>>
          /\ UNCHANGED errors /\ UNCHANGED <<bearer, minted, refused, lapses, refusals>>
      BY <3>1 DEF Push!store, Push!fcm
    <3>3. errors' \in 0..MaxErrors
      BY <3>2 DEF PushInv, PushTypes
    <3> QED
      BY <3>1, <3>2, <3>3, EndsKeep
  <2>3. CASE Push!Bearer(t) \/ Push!Refresh(t)
    BY <2>3, BearerKeeps
  <2>4. CASE Push!Mint(t)
    BY <2>4, MintKeeps
  <2>5. CASE Push!BearerRejected(t)
    BY <2>5, BearerRejectedKeeps
  <2>6. CASE Push!Unregistered(t) \/ Push!Rejected(t)
    BY <2>6, AnswersKeep
  <2>7. CASE Push!Delete(t)
    BY <2>7, DeleteKeeps
  <2> QED
    BY <1>6, <2>1, <2>2, <2>3, <2>4, <2>5, <2>6, <2>7 DEF Push!Send
<1>7. CASE UNCHANGED Push!vars
  <2>1. /\ UNCHANGED <<clock, session, rows, died, gone>>
        /\ UNCHANGED <<snap, changed, errors, task>>
        /\ UNCHANGED <<bearer, minted, refused, lapses, refusals>>
    BY <1>7 DEF Push!vars
  <2>2. PushTypes' /\ RowsDated' /\ SnapDated'
    BY <2>1 DEF PushInv, PushTypes, RowsDated, SnapDated, Push!IsRow
  <2>3. SendsOK'
    BY <2>1 DEF PushInv, SendsOK, SendOK, Push!live
  <2> QED
    BY <2>1, <2>2, <2>3
       DEF PushInv, OneMint, Earned, Push!RevokedOwnsNothing, Push!RefusedIsDropped,
          Push!IsRow
<1> QED
  BY <1>1, <1>2, <1>3, <1>4, <1>5, <1>6, <1>7 DEF Push!Next

LEMMA PushStarts == ASSUME Push!DeliveryAssumption, Push!Init PROVE PushInv
<1>1. /\ clock = 0 /\ session = [s \in Sessions |-> "live"]
      /\ rows = [d \in Push!Devices |-> Push!NoRow]
      /\ died = [d \in Push!Devices |-> 0] /\ gone = {}
      /\ snap = {} /\ changed = FALSE /\ errors = 0
      /\ task = [t \in Tasks |-> Push!NoTask]
      /\ bearer = 0 /\ minted = 0 /\ refused = {} /\ lapses = 0 /\ refusals = {}
  BY DEF Push!Init
<1>2. MaxClock \in Nat /\ MaxBearer \in Nat /\ MaxErrors \in Nat
  BY DEF Push!DeliveryAssumption
<1>3. PushTypes
  <2>1. changed \in BOOLEAN
    BY <1>1, Zenon
  <2>2. clock \in Push!Times /\ errors \in 0..MaxErrors /\ minted \in Push!Bearers /\ bearer \in 0..minted
    BY <1>1, <1>2
  <2> QED
    BY <1>1, <1>2, <2>1, <2>2 DEF PushTypes
<1>4. \A t \in Tasks : task[t] = Push!NoTask /\ task[t].phase # "mint"
  BY <1>1, IdleIsNotASend
<1>5. SendsOK /\ OneMint
  BY <1>4 DEF SendsOK, SendOK, OneMint
<1>6. RowsDated /\ SnapDated /\ Push!RevokedOwnsNothing
  BY <1>1 DEF RowsDated, SnapDated, Push!RevokedOwnsNothing, Push!IsRow
<1> QED
  BY <1>1, <1>3, <1>5, <1>6 DEF PushInv, Earned, Push!RefusedIsDropped

LEMMA PushHolds == ASSUME Push!DeliveryAssumption PROVE Push!Spec => []PushInv
<1>1. Push!Init => PushInv
  BY PushStarts
<1>2. PushInv /\ [Push!Next]_Push!vars => PushInv'
  BY PushNextKeeps
<1> QED
  BY <1>1, <1>2, PTL DEF Push!Spec

LEMMA PushTypeOK == ASSUME Push!DeliveryAssumption, PushInv PROVE Push!TypeOK
<1>1. \A d \in Push!Devices : Push!IsRow(d) => Push!TargetOf(d) \in Push!Targets
  BY RowFields DEF PushInv
<1>2. \A t \in Push!Live : /\ task[t].phase \in Push!Phases /\ task[t].target \in Push!Targets
                      /\ task[t].bearer \in Push!Bearers /\ task[t].stamp \in Push!Times
  <2> SUFFICES ASSUME NEW t \in Tasks, task[t] # Push!NoTask
               PROVE  /\ task[t].phase \in Push!Phases /\ task[t].target \in Push!Targets
                      /\ task[t].bearer \in Push!Bearers /\ task[t].stamp \in Push!Times
    BY DEF Push!Live
  <2>1. task[t] \in SendRecords
    BY DEF PushInv, PushTypes
  <2> QED
    BY <2>1, SendFields
<1>3. 0..minted \subseteq Push!Bearers /\ 1..minted \subseteq Push!Bearers
  BY DEF PushInv, PushTypes, Push!DeliveryAssumption
<1> QED
  BY <1>1, <1>2, <1>3 DEF PushInv, PushTypes, Push!TypeOK

LEMMA PushMeans ==
  ASSUME Push!DeliveryAssumption, PushInv
  PROVE  /\ Push!RevokedOwnsNothing /\ Push!EndedIsNotSent
         /\ Push!MintsAreEarned /\ Push!RefusedIsDropped
<1>1. Push!EndedIsNotSent
  BY DEF PushInv, SendsOK, SendOK, Push!EndedIsNotSent, Push!Live
<1>2. Push!MintsAreEarned
  BY DEF PushInv, PushTypes, Push!DeliveryAssumption, Earned, Push!MintsAreEarned
<1> QED
  BY <1>1, <1>2 DEF PushInv

\* A send that removes a registration is the one whose answer is about it.
LEMMA AnswersKeepCurrent ==
  ASSUME PushInv, [Push!Next]_Push!vars
  PROVE  Push!AnswersAreCurrentStep
<1> SUFFICES ASSUME NEW t \in Tasks, NEW d, d = task[t].target.device,
                    task[t].phase = "delete", task'[t] = Push!NoTask,
                    Push!IsRow(d), rows'[d] = Push!NoRow
             PROVE  task[t].stamp >= rows[d].id
  BY DEF Push!AnswersAreCurrentStep
<1>1. /\ task[t] # Push!NoTask /\ task[t].target.device \in Push!Devices
      /\ task[t].stamp >= task[t].target.id
  BY Running DEF Push!Phases, SendOK
<1>2. Push!Delete(t)
  <2>1. task'[t] # task[t]
    BY <1>1
  <2>2. PICK u \in Tasks : Push!Start(u) \/ Push!Send(u)
    BY <2>1 DEF Push!Next, Push!Client, Push!PutRegistration, Push!DeleteRegistration,
       Push!Die, Push!RevokeSession, Push!ExpireSession, Push!Reap, Push!Reload,
       Push!ReloadTick, Push!BearerAges, Push!KeyRotates, Push!vars
  <2>3. u = t
    <3>1. PICK r : task' = [task EXCEPT ![u] = r]
      BY <2>2 DEF Push!Start, Push!Send, Push!Check, Push!Cancel, Push!Bearer, Push!Refresh,
         Push!Mint, Push!Keep, Push!Sent, Push!BearerRejected, Push!Unregistered,
         Push!Rejected, Push!Delete, Push!End, Push!Goto
    <3> QED
      BY <2>1, <3>1 DEF PushInv, PushTypes
  <2>4. ~Push!Start(t)
    BY <1>1 DEF Push!Start
  <2> QED
    BY <2>2, <2>3, <2>4 DEF Push!Send, Push!Check, Push!Cancel, Push!Bearer, Push!Refresh,
       Push!Mint, Push!Keep, Push!Sent, Push!BearerRejected, Push!Unregistered,
       Push!Rejected
<1>3. Push!Current(t)
  BY <1>2 DEF Push!Delete, Push!IsRow
<1> QED
  BY <1>1, <1>3 DEF Push!Current

\* Registrations, sends, bearers and the router's snapshot keep their types, for any bounds
\* on time, bearers and failing store calls.
THEOREM PushTypeCorrect == ASSUME Push!DeliveryAssumption PROVE Push!Spec => []Push!TypeOK
  BY PushHolds, PushTypeOK, PTL

\* A revoked session owns no registration, whatever put_registration raced it; a send that
\* started after its session ended never posts once its liveness read has answered; a
\* bearer is minted only to replace one that lapsed, since fcm_refresh is held over the
\* second look at the cache; and a bearer whose 401 was handled is not left in the cache.
THEOREM RegistrationsCorrect ==
  ASSUME Push!DeliveryAssumption
  PROVE  Push!Spec => [](/\ Push!RevokedOwnsNothing /\ Push!EndedIsNotSent
                         /\ Push!MintsAreEarned /\ Push!RefusedIsDropped)
<1>1. PushInv => /\ Push!RevokedOwnsNothing /\ Push!EndedIsNotSent
                 /\ Push!MintsAreEarned /\ Push!RefusedIsDropped
  BY PushMeans
<1> QED
  BY <1>1, PushHolds, PTL

\* A late answer of a provider never removes a registration newer than what it is about: the
\* row's id differs from the one the send was for, or a 410 is older than its updated_at.
THEOREM AnswersCorrect ==
  ASSUME Push!DeliveryAssumption
  PROVE  Push!Spec => Push!AnswersAreCurrent
<1>1. PushInv /\ [Push!Next]_Push!vars => [Push!AnswersAreCurrentStep]_Push!vars
  BY AnswersKeepCurrent
<1> QED
  BY <1>1, PushHolds, PTL DEF Push!Spec, Push!AnswersAreCurrent

-----------------------------------------------------------------------------
(* Live updates: the flusher                                                *)

\* What closed the map keeps it empty, and a flusher ends only after it has closed it.
ClosedIsEmpty == /\ closed => pend = {}
                 /\ flusher \in {"close", "done"} => closed

\* A producer has taken rooms out of the map only while it publishes them.
Hands ==
  /\ hand \in [Listed -> {"idle", "written", "wake", "publish"}]
  /\ taken \in [Listed -> SUBSET Listed] /\ pend \subseteq Listed
  /\ \A r \in Listed : taken[r] # {} => hand[r] = "publish"

WatchInv == Hands /\ ClosedIsEmpty /\ Fanout!PendingIsWatched

LEMMA InitWatch == Fanout!Init => WatchInv
BY DEF Fanout!Init, WatchInv, Hands, ClosedIsEmpty, Fanout!PendingIsWatched

LEMMA MarkWatch == ASSUME WatchInv, NEW r \in Listed, Fanout!Mark(r) PROVE WatchInv'
<1> DEFINE publish == closed \/ Fanout!Full(pend \cup {r})
<1>1. /\ hand[r] = "written"
      /\ UNCHANGED <<closed, wake, flusher, cancelled>>
      /\ pend' = IF publish THEN {} ELSE pend \cup {r}
      /\ hand' = [hand EXCEPT ![r] = IF publish THEN "publish" ELSE IF Fanout!Wakes THEN "wake" ELSE "idle"]
      /\ taken' = [taken EXCEPT ![r] = IF publish THEN pend \cup {r} ELSE {}]
  BY DEF Fanout!Mark
<1> HIDE DEF publish
<1>2. Hands'
  BY <1>1 DEF WatchInv, Hands
<1>3. ClosedIsEmpty'
  BY <1>1 DEF WatchInv, ClosedIsEmpty, publish
<1>4. Fanout!PendingIsWatched'
  <2>1. CASE publish
    BY <1>1, <2>1 DEF Fanout!PendingIsWatched
  <2>2. CASE ~publish /\ pend = {}
    <3>1. hand'[r] = "wake"
      BY <1>1, <2>2 DEF Fanout!Wakes, WatchInv, Hands
    <3> QED
      BY <3>1 DEF Fanout!PendingIsWatched
  <2>3. CASE pend # {}
    <3>1. \A x \in Listed : hand[x] = "wake" => hand'[x] = "wake"
      BY <1>1 DEF WatchInv, Hands
    <3> QED
      BY <1>1, <2>3, <3>1 DEF WatchInv, Fanout!PendingIsWatched
  <2> QED
    BY <2>1, <2>2, <2>3
<1> QED
  BY <1>2, <1>3, <1>4 DEF WatchInv

LEMMA NextWatch == WatchInv /\ [Fanout!Next]_Fanout!vars => WatchInv'
<1> SUFFICES ASSUME WatchInv, [Fanout!Next]_Fanout!vars PROVE WatchInv'
  OBVIOUS
<1> USE DEF WatchInv, Hands, ClosedIsEmpty, Fanout!PendingIsWatched
<1>1. ASSUME NEW r \in Listed, Fanout!Change(r) PROVE WatchInv'
  <2>1. /\ UNCHANGED <<taken, Fanout!coalescer>>
        /\ hand' = [hand EXCEPT ![r] = "written"] /\ hand[r] = "idle"
    BY <1>1 DEF Fanout!Change
  <2>2. \A x \in Listed : hand[x] = "wake" => hand'[x] = "wake"
    BY <2>1
  <2> QED
    BY <2>1, <2>2 DEF Fanout!coalescer
<1>2. ASSUME NEW r \in Listed, Fanout!Mark(r) PROVE WatchInv'
  BY <1>2, MarkWatch
<1>3. ASSUME NEW r \in Listed, Fanout!MarkWakes(r) PROVE WatchInv'
  BY <1>3 DEF Fanout!MarkWakes
<1>4. ASSUME NEW r \in Listed, Fanout!MarkPublishes(r) PROVE WatchInv'
  <2>1. PICK x \in taken[r] :
          /\ taken' = [taken EXCEPT ![r] = @ \ {x}]
          /\ hand' = [hand EXCEPT ![r] = IF taken[r] = {x} THEN "idle" ELSE @]
          /\ UNCHANGED Fanout!coalescer
    BY <1>4 DEF Fanout!MarkPublishes
  <2>2. \A y \in Listed : hand[y] = "wake" => hand'[y] = "wake"
    BY <2>1
  <2>3. Hands'
    BY <2>1 DEF Fanout!coalescer
  <2> QED
    BY <2>1, <2>2, <2>3 DEF Fanout!coalescer
<1>5. CASE Fanout!FlusherWakes
  BY <1>5 DEF Fanout!FlusherWakes, Fanout!producers
<1>6. CASE Fanout!FlusherTicks
  BY <1>6 DEF Fanout!FlusherTicks, Fanout!producers
<1>7. CASE Fanout!Close
  BY <1>7 DEF Fanout!Close, Fanout!producers
<1>8. CASE Fanout!FlusherPublishes
  BY <1>8 DEF Fanout!FlusherPublishes, Fanout!producers
<1>9. CASE Fanout!MaxDelayPasses
  BY <1>9 DEF Fanout!MaxDelayPasses, Fanout!producers
<1>10. CASE Fanout!Cancel
  BY <1>10 DEF Fanout!Cancel, Fanout!producers
<1>11. ASSUME NEW c \in Clients,
              \/ Fanout!Verify(c) \/ Fanout!Subscribe(c) \/ Fanout!Recv(c) \/ Fanout!Beat(c) \/ Fanout!Delivered(c)
              \/ Fanout!WriteTimesOut(c) \/ Fanout!Revalidate(c) \/ Fanout!HangUp(c) \/ Fanout!Stall(c)
              \/ Fanout!Revoke(c) \/ Fanout!Read(c)
       PROVE  WatchInv'
  <2>1. UNCHANGED <<Fanout!producers, Fanout!coalescer>>
    BY <1>11 DEF Fanout!Verify, Fanout!Subscribe, Fanout!Recv, Fanout!Beat, Fanout!Delivered,
       Fanout!WriteTimesOut, Fanout!Revalidate, Fanout!HangUp, Fanout!Stall, Fanout!Revoke,
       Fanout!Read
  <2> QED
    BY <2>1 DEF Fanout!producers, Fanout!coalescer
<1>12. CASE UNCHANGED Fanout!vars
  BY <1>12 DEF Fanout!vars, Fanout!producers, Fanout!coalescer
<1> QED
  BY <1>1, <1>2, <1>3, <1>4, <1>5, <1>6, <1>7, <1>8, <1>9, <1>10, <1>11, <1>12
  DEF Fanout!Next, Fanout!FlusherStep

\* A pending change has a flusher that is awake or about to be, although a producer notifies it
\* after it has released the lock (Coalescer::mark, flush_loop): no wake-up is lost.
THEOREM WatchedCorrect == Fanout!Spec => []Fanout!PendingIsWatched
<1>1. WatchInv => Fanout!PendingIsWatched
  BY DEF WatchInv
<1> QED
  BY InitWatch, NextWatch, <1>1, PTL DEF Fanout!Spec

-----------------------------------------------------------------------------
(* Live updates: the way of a change                                        *)

\* A frame in a backlog.
InLine(q, r) == \E i \in DOMAIN q : q[i] = r

\* A change of the room is on its way to the channel.
Coming(r) == \/ hand[r] = "written" \/ r \in pend \/ r \in flushing
             \/ \E x \in Listed : r \in taken[x]

\* It is on its way to the client.
Told(c, r) == InLine(backlog[c], r) \/ r \in out[c] \/ r \in reading[c]

Signalled == \A c \in Clients : Fanout!Live(c) => \A r \in dirty[c] : Coming(r) \/ Told(c, r)

\* The flusher holds rooms only while it publishes them, and a socket a frame only while it
\* writes it.
Wire ==
  /\ flushing \subseteq Listed
  /\ flusher \in {"wait", "sleep"} => flushing = {}
  /\ sock \in [Clients -> {"off", "verified", "open", "write"}]
  /\ backlog \in [Clients -> Seq(Listed)]
  /\ out \in [Clients -> SUBSET Listed]
  /\ reading \in [Clients -> SUBSET Listed]
  /\ dirty \in [Clients -> SUBSET Listed]
  /\ \A c \in Clients : sock[c] # "write" => out[c] = {}

SignalInv == Hands /\ Wire /\ Signalled

\* The channel has not overwritten a frame of a client.
NoLag == \A c \in Clients : ~lagged[c]

LEMMA SignalledIs == Hands => (Signalled <=> Fanout!StaleIsSignalled)
<1> SUFFICES ASSUME Hands PROVE Signalled <=> Fanout!StaleIsSignalled
  OBVIOUS
<1>1. DOMAIN taken = Listed
  BY DEF Hands
<1>2. \A r : r \in UNION Fanout!Range(taken) <=> \E x \in Listed : r \in taken[x]
  BY <1>1 DEF Fanout!Range
<1>3. \A c \in Clients : \A r : r \in Fanout!ToSet(backlog[c]) <=> InLine(backlog[c], r)
  BY DEF Fanout!ToSet, InLine
<1> QED
  BY <1>2, <1>3 DEF Signalled, Fanout!StaleIsSignalled, Coming, Told

LEMMA InitSignal == Fanout!Init => SignalInv
BY DEF Fanout!Init, SignalInv, Hands, Wire, Signalled, Fanout!Live

LEMMA Appended ==
  ASSUME NEW q \in Seq(Listed), NEW x \in Listed
  PROVE  /\ Append(q, x) \in Seq(Listed)
         /\ \A r : InLine(q, r) \/ r = x => InLine(Append(q, x), r)
<1>1. /\ Append(q, x) \in Seq(Listed) /\ Len(q) \in Nat
      /\ DOMAIN q = 1..Len(q) /\ DOMAIN Append(q, x) = 1..(Len(q) + 1)
      /\ \A i \in 1..Len(q) : Append(q, x)[i] = q[i]
      /\ Append(q, x)[Len(q) + 1] = x
  OBVIOUS
<1> QED
  BY <1>1 DEF InLine

LEMMA Removed ==
  ASSUME NEW q \in Seq(Listed), q # <<>>
  PROVE  /\ Tail(q) \in Seq(Listed) /\ Head(q) \in Listed
         /\ \A r : InLine(q, r) => r = Head(q) \/ InLine(Tail(q), r)
<1>1. /\ Tail(q) \in Seq(Listed) /\ Len(q) \in Nat /\ Len(q) > 0
      /\ DOMAIN q = 1..Len(q) /\ DOMAIN Tail(q) = 1..(Len(q) - 1)
      /\ \A i \in 1..(Len(q) - 1) : Tail(q)[i] = q[i + 1]
      /\ Head(q) = q[1] /\ Head(q) \in Listed
  OBVIOUS
<1>2. ASSUME NEW r, InLine(q, r), r # Head(q) PROVE InLine(Tail(q), r)
  <2>1. PICK i \in 1..Len(q) : q[i] = r
    BY <1>1, <1>2 DEF InLine
  <2>2. i - 1 \in DOMAIN Tail(q) /\ Tail(q)[i - 1] = q[i]
    BY <1>1, <1>2, <2>1
  <2> QED
    BY <2>1, <2>2 DEF InLine
<1> QED
  BY <1>1, <1>2

\* A published frame is in the backlog of every connected client, behind all the others.
LEMMA PublishedTells ==
  ASSUME SignalInv, NEW x \in Listed, Fanout!Published(x), NoLag'
  PROVE  /\ backlog' \in [Clients -> Seq(Listed)]
         /\ \A c \in Clients : Fanout!Live(c) =>
              \A r : InLine(backlog[c], r) \/ r = x => InLine(backlog'[c], r)
<1> DEFINE over(c) == Fanout!Live(c) /\ Len(backlog[c]) = Backlog
<1>1. \A c \in Clients : ~over(c)
  BY DEF Fanout!Published, NoLag
<1>2. backlog' = [c \in Clients |-> IF Fanout!Live(c) THEN Append(backlog[c], x) ELSE backlog[c]]
  <2>1. backlog' = [c \in Clients |->
           IF over(c) THEN Append(Tail(backlog[c]), x)
           ELSE IF Fanout!Live(c) THEN Append(backlog[c], x) ELSE backlog[c]]
    BY DEF Fanout!Published
  <2> HIDE DEF over
  <2> QED
    BY <1>1, <2>1
<1>3. \A c \in Clients : /\ backlog[c] \in Seq(Listed) /\ Append(backlog[c], x) \in Seq(Listed)
                         /\ \A r : InLine(backlog[c], r) \/ r = x => InLine(Append(backlog[c], x), r)
  BY Appended DEF SignalInv, Wire
<1> QED
  BY <1>2, <1>3

\* A step of the coalescer that publishes nothing.
LEMMA NothingPublished ==
  ASSUME SignalInv, UNCHANGED <<Fanout!sockets, Fanout!channel, Fanout!screens>>,
         \A r \in Listed : Coming(r) => Coming(r)'
  PROVE  Signalled'
BY DEF SignalInv, Signalled, Wire, Fanout!sockets, Fanout!channel, Fanout!screens,
   Fanout!Live, Told

\* One that publishes a room.
LEMMA OnePublished ==
  ASSUME SignalInv, NEW x \in Listed, Fanout!Published(x), NoLag',
         UNCHANGED <<Fanout!sockets, Fanout!screens>>,
         \A r \in Listed \ {x} : Coming(r) => Coming(r)'
  PROVE  Signalled' /\ backlog' \in [Clients -> Seq(Listed)]
<1>1. \A c \in Clients : /\ Fanout!Live(c)' <=> Fanout!Live(c)
                         /\ dirty'[c] = dirty[c] /\ out'[c] = out[c] /\ reading'[c] = reading[c]
                         /\ dirty[c] \subseteq Listed
  BY DEF Fanout!sockets, Fanout!screens, Fanout!Live, SignalInv, Wire
<1>2. ASSUME NEW c \in Clients, Fanout!Live(c),
             NEW r \in dirty[c] PROVE Coming(r)' \/ Told(c, r)'
  <2>1. Coming(r) \/ Told(c, r)
    BY <1>2 DEF SignalInv, Signalled
  <2>2. CASE r = x
    BY <1>2, <2>2, PublishedTells DEF Told
  <2>3. CASE r # x /\ Coming(r)
    BY <1>1, <2>3
  <2>4. CASE Told(c, r)
    BY <1>1, <1>2, <2>4, PublishedTells DEF Told
  <2> QED
    BY <2>1, <2>2, <2>3, <2>4
<1> QED
  BY <1>1, <1>2, PublishedTells DEF Signalled

LEMMA ProducerSignals ==
  ASSUME SignalInv, NEW r \in Listed, NoLag',
         Fanout!Change(r) \/ Fanout!Mark(r) \/ Fanout!MarkWakes(r) \/ Fanout!MarkPublishes(r)
  PROVE  SignalInv'
<1>1. CASE Fanout!Change(r)
  <2>1. /\ UNCHANGED <<taken, pend, flushing, flusher, sock, out, backlog, reading>>
        /\ hand[r] = "idle" /\ hand' = [hand EXCEPT ![r] = "written"]
        /\ dirty' = [c \in Clients |-> dirty[c] \cup {r}]
    BY <1>1 DEF Fanout!Change, Fanout!coalescer, Fanout!sockets, Fanout!channel
  <2>2. Hands' /\ Wire'
    BY <2>1 DEF SignalInv, Hands, Wire
  <2>3. \A x \in Listed : (Coming(x) => Coming(x)') /\ Coming(r)'
    BY <2>1 DEF SignalInv, Hands, Coming
  <2>4. \A c \in Clients : \A x : (Fanout!Live(c)' <=> Fanout!Live(c)) /\ (Told(c, x) => Told(c, x)')
    BY <2>1 DEF Fanout!Live, Told
  <2>5. \A c \in Clients : dirty'[c] = dirty[c] \cup {r} /\ dirty[c] \subseteq Listed
    BY <2>1 DEF SignalInv, Wire
  <2>6. Signalled'
    BY <2>3, <2>4, <2>5 DEF SignalInv, Signalled
  <2> QED
    BY <2>2, <2>6 DEF SignalInv
<1>2. CASE Fanout!Mark(r)
  <2> DEFINE publish == closed \/ Fanout!Full(pend \cup {r})
  <2>1. /\ UNCHANGED <<flushing, flusher, Fanout!sockets, Fanout!channel, Fanout!screens>>
        /\ hand[r] = "written"
        /\ pend' = IF publish THEN {} ELSE pend \cup {r}
        /\ taken' = [taken EXCEPT ![r] = IF publish THEN pend \cup {r} ELSE {}]
        /\ hand' = [hand EXCEPT ![r] = IF publish THEN "publish" ELSE IF Fanout!Wakes THEN "wake" ELSE "idle"]
    BY <1>2 DEF Fanout!Mark
  <2> HIDE DEF publish
  <2>2. Hands'
    BY <2>1 DEF SignalInv, Hands
  <2>3. Wire'
    BY <2>1 DEF SignalInv, Wire, Fanout!sockets, Fanout!channel, Fanout!screens
  <2>4. taken[r] = {}
    BY <2>1 DEF SignalInv, Hands
  <2>5. ASSUME NEW x \in Listed, Coming(x) PROVE Coming(x)'
    <3>1. x = r \/ x \in pend => x \in pend' \/ x \in taken'[r]
      BY <2>1 DEF SignalInv, Hands
    <3>2. x # r => hand'[x] = hand[x]
      BY <2>1 DEF SignalInv, Hands
    <3>3. \A y \in Listed : x \in taken[y] => x \in taken'[y]
      BY <2>1, <2>4 DEF SignalInv, Hands
    <3> QED
      BY <2>1, <2>5, <3>1, <3>2, <3>3 DEF Coming
  <2>6. Signalled'
    BY <2>1, <2>5, NothingPublished
  <2> QED
    BY <2>2, <2>3, <2>6 DEF SignalInv
<1>3. CASE Fanout!MarkWakes(r)
  <2>1. /\ UNCHANGED <<taken, pend, flushing, flusher, Fanout!sockets, Fanout!channel, Fanout!screens>>
        /\ hand[r] = "wake" /\ hand' = [hand EXCEPT ![r] = "idle"]
    BY <1>3 DEF Fanout!MarkWakes
  <2>2. Hands' /\ Wire'
    BY <2>1 DEF SignalInv, Hands, Wire, Fanout!sockets, Fanout!channel, Fanout!screens
  <2>3. \A x \in Listed : Coming(x) => Coming(x)'
    BY <2>1 DEF SignalInv, Hands, Coming
  <2> QED
    BY <2>1, <2>2, <2>3, NothingPublished DEF SignalInv
<1>4. CASE Fanout!MarkPublishes(r)
  <2>1. PICK x \in taken[r] :
          /\ Fanout!Published(x)
          /\ taken' = [taken EXCEPT ![r] = @ \ {x}]
          /\ hand' = [hand EXCEPT ![r] = IF taken[r] = {x} THEN "idle" ELSE @]
          /\ UNCHANGED <<Fanout!coalescer, Fanout!sockets, Fanout!screens>>
    BY <1>4 DEF Fanout!MarkPublishes
  <2>2. x \in Listed /\ hand[r] = "publish" /\ UNCHANGED <<pend, flushing, flusher>>
    BY <2>1 DEF SignalInv, Hands, Fanout!coalescer
  <2>3. Hands'
    BY <2>1, <2>2 DEF SignalInv, Hands
  <2>4. ASSUME NEW y \in Listed \ {x}, Coming(y) PROVE Coming(y)'
    <3>1. hand[y] = "written" => hand'[y] = "written"
      BY <2>1, <2>2 DEF SignalInv, Hands
    <3>2. \A z \in Listed : y \in taken[z] => y \in taken'[z]
      BY <2>1, <2>2 DEF SignalInv, Hands
    <3> QED
      BY <2>2, <2>4, <3>1, <3>2 DEF Coming
  <2>5. Signalled' /\ backlog' \in [Clients -> Seq(Listed)]
    BY <2>1, <2>2, <2>4, OnePublished
  <2>6. Wire'
    BY <2>1, <2>2, <2>5 DEF SignalInv, Wire, Fanout!sockets, Fanout!screens
  <2> QED
    BY <2>3, <2>5, <2>6 DEF SignalInv
<1> QED
  BY <1>1, <1>2, <1>3, <1>4

LEMMA FlusherSignals ==
  ASSUME SignalInv, NoLag', Fanout!FlusherStep \/ Fanout!MaxDelayPasses \/ Fanout!Cancel
  PROVE  SignalInv'
<1>1. CASE Fanout!FlusherWakes \/ Fanout!MaxDelayPasses \/ Fanout!Cancel
  <2>1. /\ UNCHANGED <<Fanout!producers, pend, flushing, Fanout!sockets, Fanout!channel, Fanout!screens>>
        /\ flusher' # flusher => flusher = "wait"
    BY <1>1 DEF Fanout!FlusherWakes, Fanout!MaxDelayPasses, Fanout!Cancel
  <2>2. Hands' /\ Wire'
    BY <2>1 DEF SignalInv, Hands, Wire, Fanout!producers, Fanout!sockets, Fanout!channel,
       Fanout!screens
  <2>3. \A x \in Listed : Coming(x) => Coming(x)'
    BY <2>1 DEF Coming, Fanout!producers
  <2> QED
    BY <2>1, <2>2, <2>3, NothingPublished DEF SignalInv
<1>2. CASE Fanout!FlusherTicks \/ Fanout!Close
  <2>1. /\ UNCHANGED <<Fanout!producers, Fanout!sockets, Fanout!channel, Fanout!screens>> /\ flushing = {}
        /\ \/ flushing' = pend /\ pend' = {} /\ flusher' \in {"flush", "close"}
           \/ flushing' = {} /\ pend' = pend
    BY <1>2 DEF Fanout!FlusherTicks, Fanout!Close, SignalInv, Wire
  <2>2. Hands' /\ Wire'
    BY <2>1 DEF SignalInv, Hands, Wire, Fanout!producers, Fanout!sockets, Fanout!channel,
       Fanout!screens
  <2>3. \A x \in Listed : Coming(x) => Coming(x)'
    BY <2>1 DEF Coming, Fanout!producers
  <2> QED
    BY <2>1, <2>2, <2>3, NothingPublished DEF SignalInv
<1>3. CASE Fanout!FlusherPublishes
  <2>1. UNCHANGED <<Fanout!producers, pend, Fanout!sockets, Fanout!screens>> /\ flusher \in {"flush", "close"}
    BY <1>3 DEF Fanout!FlusherPublishes
  <2>2. CASE flushing = {} /\ flusher' = (IF flusher = "flush" THEN "wait" ELSE "done")
             /\ UNCHANGED <<flushing, Fanout!channel>>
    <3>1. Hands' /\ Wire'
      BY <2>1, <2>2 DEF SignalInv, Hands, Wire, Fanout!producers, Fanout!sockets,
         Fanout!channel, Fanout!screens
    <3>2. \A x \in Listed : Coming(x) => Coming(x)'
      BY <2>1, <2>2 DEF Coming, Fanout!producers
    <3> QED
      BY <2>1, <2>2, <3>1, <3>2, NothingPublished DEF SignalInv
  <2>3. ASSUME NEW x \in flushing, Fanout!Published(x), flushing' = flushing \ {x},
               UNCHANGED flusher
        PROVE  SignalInv'
    <3>1. x \in Listed
      BY DEF SignalInv, Wire
    <3>2. \A y \in Listed \ {x} : Coming(y) => Coming(y)'
      BY <2>1, <2>3 DEF Coming, Fanout!producers
    <3>3. Signalled' /\ backlog' \in [Clients -> Seq(Listed)]
      BY <2>1, <2>3, <3>1, <3>2, OnePublished
    <3>4. Hands' /\ Wire'
      BY <2>1, <2>3, <3>3 DEF SignalInv, Hands, Wire, Fanout!producers, Fanout!sockets,
         Fanout!screens
    <3> QED
      BY <3>3, <3>4 DEF SignalInv
  <2> QED
    BY <1>3, <2>2, <2>3 DEF Fanout!FlusherPublishes
<1> QED
  BY <1>1, <1>2, <1>3 DEF Fanout!FlusherStep

\* A socket whose client stays connected hears of everything it was told of.
LEMMA SocketSignals ==
  ASSUME SignalInv, NEW c \in Clients, UNCHANGED <<Fanout!producers, Fanout!coalescer>>, Wire',
         \A d \in Clients \ {c} : /\ Fanout!Live(d)' => Fanout!Live(d)
                                  /\ dirty'[d] = dirty[d] /\ backlog'[d] = backlog[d]
                                  /\ out'[d] = out[d] /\ reading'[d] = reading[d],
         Fanout!Live(c)' => \A r \in dirty'[c] : Told(c, r)' \/ (Coming(r) /\ r \in dirty[c])
  PROVE  SignalInv'
<1>1. Hands' /\ \A r : Coming(r) => Coming(r)'
  BY DEF SignalInv, Hands, Coming, Fanout!producers, Fanout!coalescer
<1>2. ASSUME NEW d \in Clients, Fanout!Live(d)',
             NEW r \in dirty'[d] PROVE Coming(r)' \/ Told(d, r)'
  <2>1. CASE d = c
    BY <1>1, <1>2, <2>1
  <2>2. CASE d # c
    <3>1. Fanout!Live(d) /\ r \in dirty[d] /\ (Told(d, r) => Told(d, r)')
      BY <1>2, <2>2 DEF Told
    <3> QED
      BY <1>1, <3>1 DEF SignalInv, Signalled
  <2> QED
    BY <2>1, <2>2
<1> QED
  BY <1>1, <1>2 DEF SignalInv, Signalled

LEMMA ClientSignals ==
  ASSUME SignalInv, NEW c \in Clients,
         \/ Fanout!Verify(c) \/ Fanout!Subscribe(c) \/ Fanout!Recv(c) \/ Fanout!Beat(c) \/ Fanout!Delivered(c)
         \/ Fanout!WriteTimesOut(c) \/ Fanout!Revalidate(c) \/ Fanout!HangUp(c) \/ Fanout!Stall(c)
         \/ Fanout!Revoke(c) \/ Fanout!Read(c)
  PROVE  SignalInv'
<1>1. UNCHANGED <<Fanout!producers, Fanout!coalescer>>
  BY DEF Fanout!Verify, Fanout!Subscribe, Fanout!Recv, Fanout!Beat, Fanout!Delivered,
     Fanout!WriteTimesOut, Fanout!Revalidate, Fanout!HangUp, Fanout!Stall, Fanout!Revoke,
     Fanout!Read
<1>2. UNCHANGED <<flushing, flusher>>
  BY <1>1 DEF Fanout!coalescer
<1>3. \A r \in dirty[c] : Fanout!Live(c) => Coming(r) \/ Told(c, r)
  BY DEF SignalInv, Signalled
<1>4. CASE Fanout!Verify(c)
  <2>1. /\ sock' = [sock EXCEPT ![c] = "verified"] /\ sock[c] = "off"
        /\ UNCHANGED <<out, backlog, reading, dirty>>
    BY <1>4 DEF Fanout!Verify, Fanout!channel, Fanout!screens
  <2>2. Wire' /\ ~Fanout!Live(c)' /\ \A d \in Clients \ {c} : Fanout!Live(d)' <=> Fanout!Live(d)
    BY <1>2, <2>1 DEF SignalInv, Wire, Fanout!Live
  <2> QED
    BY <1>1, <2>1, <2>2, SocketSignals
<1>5. CASE Fanout!Subscribe(c)
  <2>1. /\ sock' = [sock EXCEPT ![c] = "open"] /\ sock[c] = "verified"
        /\ backlog' = [backlog EXCEPT ![c] = <<>>]
        /\ reading' = [reading EXCEPT ![c] = Listed]
        /\ UNCHANGED <<out, dirty>>
    BY <1>5 DEF Fanout!Subscribe
  <2>2. \A d \in Clients \ {c} : /\ Fanout!Live(d)' <=> Fanout!Live(d) /\ backlog'[d] = backlog[d]
                                 /\ reading'[d] = reading[d]
    BY <2>1 DEF SignalInv, Wire, Fanout!Live
  <2>3. \A r \in dirty'[c] : Told(c, r)'
    BY <2>1 DEF SignalInv, Wire, Told
  <2>4. Wire'
    BY <1>2, <2>1 DEF SignalInv, Wire
  <2> QED
    BY <1>1, <2>1, <2>2, <2>3, <2>4, SocketSignals
<1>6. CASE Fanout!Recv(c)
  <2>1. CASE UNCHANGED <<sock, out, backlog>>
    <3>1. UNCHANGED <<reading, dirty>>
      BY <1>6 DEF Fanout!Recv, Fanout!screens
    <3>2. Wire' /\ \A d \in Clients : Fanout!Live(d)' <=> Fanout!Live(d)
      BY <1>2, <2>1, <3>1 DEF SignalInv, Wire, Fanout!Live
    <3>3. \A r : Told(c, r) => Told(c, r)'
      BY <2>1, <3>1 DEF Told
    <3> QED
      BY <1>1, <1>3, <2>1, <3>1, <3>2, <3>3, SocketSignals
  <2>2. CASE /\ backlog[c] # <<>>
             /\ sock' = [sock EXCEPT ![c] = "write"]
             /\ out' = [out EXCEPT ![c] = {Head(backlog[c])}]
             /\ backlog' = [backlog EXCEPT ![c] = Tail(@)]
    <3>1. UNCHANGED <<reading, dirty>> /\ sock[c] = "open"
      BY <1>6 DEF Fanout!Recv, Fanout!screens
    <3>2. /\ backlog[c] \in Seq(Listed)
          /\ Tail(backlog[c]) \in Seq(Listed) /\ Head(backlog[c]) \in Listed
          /\ \A r : InLine(backlog[c], r) => r = Head(backlog[c]) \/ InLine(Tail(backlog[c]), r)
      BY <2>2, Removed DEF SignalInv, Wire
    <3>3. out[c] = {} /\ out'[c] = {Head(backlog[c])} /\ backlog'[c] = Tail(backlog[c])
      BY <2>2, <3>1 DEF SignalInv, Wire
    <3>4. \A r : Told(c, r) => Told(c, r)'
      BY <3>1, <3>2, <3>3 DEF Told
    <3>5. \A d \in Clients \ {c} : (Fanout!Live(d)' <=> Fanout!Live(d)) /\ out'[d] = out[d] /\ backlog'[d] = backlog[d]
      BY <2>2 DEF SignalInv, Wire, Fanout!Live
    <3>6. Wire' /\ Fanout!Live(c)
      BY <1>2, <2>2, <3>1, <3>2 DEF SignalInv, Wire, Fanout!Live
    <3> QED
      BY <1>1, <1>3, <3>1, <3>4, <3>5, <3>6, SocketSignals
  <2> QED
    BY <1>6, <2>1, <2>2 DEF Fanout!Recv
<1>7. CASE Fanout!Beat(c)
  <2>1. sock' = [sock EXCEPT ![c] = "write"] /\ sock[c] = "open" /\ UNCHANGED <<out, backlog, reading, dirty>>
    BY <1>7 DEF Fanout!Beat, Fanout!channel, Fanout!screens
  <2>2. Wire' /\ Fanout!Live(c) /\ \A d \in Clients \ {c} : Fanout!Live(d)' <=> Fanout!Live(d)
    BY <1>2, <2>1 DEF SignalInv, Wire, Fanout!Live
  <2>3. \A r : Told(c, r) => Told(c, r)'
    BY <2>1 DEF Told
  <2> QED
    BY <1>1, <1>3, <2>1, <2>2, <2>3, SocketSignals
<1>8. CASE Fanout!Delivered(c)
  <2>1. /\ sock' = [sock EXCEPT ![c] = "open"] /\ sock[c] = "write"
        /\ reading' = [reading EXCEPT ![c] = @ \cup out[c]]
        /\ out' = [out EXCEPT ![c] = {}]
        /\ UNCHANGED <<backlog, dirty>>
    BY <1>8 DEF Fanout!Delivered, Fanout!channel
  <2>2. /\ Fanout!Live(c)
        /\ \A d \in Clients \ {c} : (Fanout!Live(d)' <=> Fanout!Live(d)) /\ out'[d] = out[d] /\ reading'[d] = reading[d]
    BY <2>1 DEF SignalInv, Wire, Fanout!Live
  <2>3. Wire'
    BY <1>2, <2>1 DEF SignalInv, Wire
  <2>4. reading'[c] = reading[c] \cup out[c]
    BY <2>1 DEF SignalInv, Wire
  <2>5. \A r : Told(c, r) => Told(c, r)'
    BY <2>1, <2>4 DEF Told
  <2> QED
    BY <1>1, <1>3, <2>1, <2>2, <2>3, <2>5, SocketSignals
<1>9. CASE Fanout!WriteTimesOut(c) \/ Fanout!Revalidate(c) \/ Fanout!HangUp(c)
  <2>1. /\ sock' = [sock EXCEPT ![c] = "off"] /\ out' = [out EXCEPT ![c] = {}]
        /\ backlog' = [backlog EXCEPT ![c] = <<>>] /\ reading' = [reading EXCEPT ![c] = {}]
        /\ UNCHANGED dirty
    BY <1>9 DEF Fanout!WriteTimesOut, Fanout!Revalidate, Fanout!HangUp, Fanout!Closed
  <2>2. /\ ~Fanout!Live(c)'
        /\ \A d \in Clients \ {c} : /\ Fanout!Live(d)' <=> Fanout!Live(d) /\ out'[d] = out[d]
                                    /\ reading'[d] = reading[d] /\ backlog'[d] = backlog[d]
    BY <2>1 DEF SignalInv, Wire, Fanout!Live
  <2>3. Wire'
    BY <1>2, <2>1 DEF SignalInv, Wire
  <2> QED
    BY <1>1, <2>1, <2>2, <2>3, SocketSignals
<1>10. CASE Fanout!Stall(c) \/ Fanout!Revoke(c)
  <2>1. UNCHANGED <<sock, out, backlog, reading, dirty>>
    BY <1>10 DEF Fanout!Stall, Fanout!Revoke, Fanout!channel, Fanout!screens, Fanout!sockets
  <2>2. Wire' /\ \A d \in Clients : Fanout!Live(d)' <=> Fanout!Live(d)
    BY <1>2, <2>1 DEF SignalInv, Wire, Fanout!Live
  <2>3. \A r : Told(c, r) => Told(c, r)'
    BY <2>1 DEF Told
  <2> QED
    BY <1>1, <1>3, <2>1, <2>2, <2>3, SocketSignals
<1>11. CASE Fanout!Read(c)
  <2>1. /\ dirty' = [dirty EXCEPT ![c] = @ \ reading[c]]
        /\ reading' = [reading EXCEPT ![c] = {}]
        /\ UNCHANGED <<sock, out, backlog>>
    BY <1>11 DEF Fanout!Read, Fanout!channel, Fanout!sockets
  <2>2. \A d \in Clients : /\ Fanout!Live(d)' <=> Fanout!Live(d)
                           /\ d # c => dirty'[d] = dirty[d] /\ reading'[d] = reading[d]
    BY <2>1 DEF SignalInv, Wire, Fanout!Live
  <2>3. Wire'
    BY <1>2, <2>1 DEF SignalInv, Wire
  <2>4. \A r \in dirty'[c] : r \in dirty[c] /\ r \notin reading[c]
    BY <2>1 DEF SignalInv, Wire
  <2>5. \A r \in dirty'[c] : Told(c, r) => Told(c, r)'
    BY <2>1, <2>4 DEF Told
  <2> QED
    BY <1>1, <1>3, <2>1, <2>2, <2>3, <2>4, <2>5, SocketSignals
<1> QED
  BY <1>4, <1>5, <1>6, <1>7, <1>8, <1>9, <1>10, <1>11

LEMMA NextSignal == SignalInv /\ [Fanout!Next]_Fanout!vars /\ NoLag' => SignalInv'
<1> SUFFICES ASSUME SignalInv, [Fanout!Next]_Fanout!vars, NoLag' PROVE SignalInv'
  OBVIOUS
<1>1. CASE UNCHANGED Fanout!vars
  <2>1. UNCHANGED <<hand, taken, pend, flusher, flushing, sock, out, backlog, reading, dirty>>
    BY <1>1 DEF Fanout!vars, Fanout!producers, Fanout!coalescer, Fanout!sockets,
       Fanout!channel, Fanout!screens
  <2> QED
    BY <2>1 DEF SignalInv, Hands, Wire, Signalled, Coming, Told, Fanout!Live
<1> QED
  BY <1>1, ProducerSignals, FlusherSignals, ClientSignals DEF Fanout!Next

\* As long as the channel overwrites no frame, the screen of a connected client is out of date
\* only while a signal is on its way to it: across coalescing, flushes at a full map, the stop
\* of the account's run, handshakes, hang-ups and stalled peers (room_details.rs, ws.rs).
THEOREM SignalledCorrect == Fanout!Spec /\ []NoLag => []Fanout!StaleIsSignalled
<1>1. SignalInv => Fanout!StaleIsSignalled
  BY SignalledIs DEF SignalInv
<1> QED
  BY InitSignal, NextSignal, <1>1, PTL DEF Fanout!Spec

-----------------------------------------------------------------------------
(* Live updates: the channel                                                *)

\* A change that has not been published: written and not marked, pending, or taken out of the
\* map by the flusher or by the producer of a room.
Pending(t) ==
  \/ t[1] = "written" /\ t[2] = t[3] /\ hand[t[2]] = "written"
  \/ t[1] = "pending" /\ t[2] = t[3] /\ t[2] \in pend
  \/ t[1] = "flushing" /\ t[2] = t[3] /\ t[2] \in flushing
  \/ t[1] = "taken" /\ t[3] \in taken[t[2]]

Places == {"written", "pending", "flushing", "taken"} \X Listed \X Listed

Unpublished == {t \in Places : Pending(t)}

\* Every frame of a backlog is of a change of its own, and so is what will be one.
Counted ==
  /\ IsFiniteSet(Unpublished) /\ changes \in 0..MaxChanges
  /\ lagged \in [Clients -> BOOLEAN]
  /\ \A c \in Clients : Len(backlog[c]) + Cardinality(Unpublished) <= changes

FrameInv == SignalInv /\ Counted /\ NoLag

LEMMA Moves ==
  ASSUME NEW S, NEW T, IsFiniteSet(S), NEW f \in [T -> S],
         \A x, y \in T : f[x] = f[y] => x = y
  PROVE  IsFiniteSet(T) /\ Cardinality(T) <= Cardinality(S)
<1>1. f \in Injection(T, S)
  BY DEF Injection, IsInjective
<1> QED
  BY <1>1, FS_Injection

\* Steps that publish nothing, and move changes from one place to another.
LEMMA MovesCounted ==
  ASSUME SignalInv, Counted, NoLag, changes' = changes, UNCHANGED lagged,
         IsFiniteSet(Unpublished'), Cardinality(Unpublished') <= Cardinality(Unpublished),
         \A c \in Clients : Len(backlog'[c]) \in Nat /\ Len(backlog'[c]) <= Len(backlog[c])
  PROVE  Counted' /\ NoLag'
<1>1. Cardinality(Unpublished) \in Nat /\ Cardinality(Unpublished') \in Nat
  BY FS_CardinalityType DEF Counted
<1>2. \A c \in Clients : Len(backlog[c]) \in Nat
  BY DEF SignalInv, Wire
<1> QED
  BY <1>1, <1>2 DEF Counted, NoLag

\* Steps that publish one change.
LEMMA PublishCounted ==
  ASSUME Fanout!LiveFanoutBounds, MaxChanges <= Backlog, FrameInv, NEW x \in Listed,
         Fanout!Published(x),
         changes' = changes, UNCHANGED sock,
         NEW t \in Unpublished, Unpublished' = Unpublished \ {t}
  PROVE  Counted' /\ NoLag'
<1>1. /\ Cardinality(Unpublished) \in Nat /\ IsFiniteSet(Unpublished')
      /\ Cardinality(Unpublished') = Cardinality(Unpublished) - 1
      /\ Cardinality(Unpublished') \in Nat
  BY FS_CardinalityType, FS_RemoveElement DEF Counted, FrameInv
<1>2. MaxChanges \in Nat /\ Backlog \in Nat /\ changes \in 0..MaxChanges
  BY DEF Fanout!LiveFanoutBounds, FrameInv, Counted
<1>3. \A c \in Clients : /\ backlog[c] \in Seq(Listed) /\ Len(backlog[c]) \in Nat
                         /\ Len(Append(backlog[c], x)) = Len(backlog[c]) + 1
  BY DEF FrameInv, SignalInv, Wire
<1>4. \A c \in Clients : Len(backlog[c]) + Cardinality(Unpublished) <= changes
  BY DEF FrameInv, Counted
<1>5. \A c \in Clients : Len(backlog[c]) # Backlog
  BY <1>1, <1>2, <1>3, <1>4
<1> DEFINE over(c) == Fanout!Live(c) /\ Len(backlog[c]) = Backlog
<1>6. /\ lagged' \in [Clients -> BOOLEAN] /\ \A c \in Clients : ~lagged'[c]
      /\ \A c \in Clients : backlog'[c] = IF Fanout!Live(c) THEN Append(backlog[c], x) ELSE backlog[c]
  <2>1. /\ backlog' = [c \in Clients |->
             IF over(c) THEN Append(Tail(backlog[c]), x)
             ELSE IF Fanout!Live(c) THEN Append(backlog[c], x) ELSE backlog[c]]
        /\ lagged' = [c \in Clients |-> lagged[c] \/ over(c)]
    BY DEF Fanout!Published
  <2>2. \A c \in Clients : ~over(c) /\ ~lagged[c]
    BY <1>5 DEF FrameInv, NoLag
  <2> HIDE DEF over
  <2> QED
    BY <2>1, <2>2
<1> HIDE DEF over
<1>7. \A c \in Clients : Len(backlog'[c]) \in Nat /\ Len(backlog'[c]) <= Len(backlog[c]) + 1
  <2> SUFFICES ASSUME NEW c \in Clients
               PROVE  Len(backlog'[c]) \in Nat /\ Len(backlog'[c]) <= Len(backlog[c]) + 1
    OBVIOUS
  <2>1. backlog'[c] = Append(backlog[c], x) \/ backlog'[c] = backlog[c]
    BY <1>6
  <2>2. /\ Len(backlog[c]) \in Nat /\ Len(Append(backlog[c], x)) \in Nat
        /\ Len(Append(backlog[c], x)) = Len(backlog[c]) + 1
    BY <1>3
  <2> QED
    BY <2>1, <2>2
<1>8. \A c \in Clients : Len(backlog'[c]) + Cardinality(Unpublished') <= changes
  BY <1>1, <1>2, <1>3, <1>4, <1>7
<1> QED
  BY <1>1, <1>2, <1>6, <1>8 DEF Counted, NoLag, FrameInv

\* The places of a step's changes.
LEMMA PlacesAre ==
  \A p, r, x : <<p, r, x>> \in Unpublished <=>
    /\ r \in Listed /\ x \in Listed
    /\ \/ p = "written" /\ r = x /\ hand[r] = "written"
       \/ p = "pending" /\ r = x /\ r \in pend
       \/ p = "flushing" /\ r = x /\ r \in flushing
       \/ p = "taken" /\ x \in taken[r]
  BY DEF Unpublished, Places, Pending

LEMMA PlacesNext ==
  \A p, r, x : <<p, r, x>> \in Unpublished' <=>
    /\ r \in Listed /\ x \in Listed
    /\ \/ p = "written" /\ r = x /\ hand'[r] = "written"
       \/ p = "pending" /\ r = x /\ r \in pend'
       \/ p = "flushing" /\ r = x /\ r \in flushing'
       \/ p = "taken" /\ x \in taken'[r]
  BY DEF Unpublished, Places, Pending

\* Nothing changes places.
LEMMA SamePlaces ==
  ASSUME hand' = hand \/ \A r \in Listed : hand'[r] = "written" <=> hand[r] = "written",
         UNCHANGED <<taken, pend, flushing>>
  PROVE  Unpublished' = Unpublished
  BY DEF Unpublished, Places, Pending

\* A mark puts its room into the map, or takes the map for its producer.
LEMMA MarkCounts ==
  ASSUME FrameInv, NEW r \in Listed, Fanout!Mark(r)
  PROVE  IsFiniteSet(Unpublished') /\ Cardinality(Unpublished') <= Cardinality(Unpublished)
<1> DEFINE publish == closed \/ Fanout!Full(pend \cup {r})
<1>1. /\ hand[r] = "written" /\ UNCHANGED flushing
      /\ pend' = IF publish THEN {} ELSE pend \cup {r}
      /\ taken' = [taken EXCEPT ![r] = IF publish THEN pend \cup {r} ELSE {}]
      /\ hand' = [hand EXCEPT ![r] =
           IF publish THEN "publish" ELSE IF Fanout!Wakes THEN "wake" ELSE "idle"]
  BY DEF Fanout!Mark
<1> HIDE DEF publish
<1>2. /\ hand \in [Listed -> {"idle", "written", "wake", "publish"}]
      /\ taken \in [Listed -> SUBSET Listed] /\ pend \subseteq Listed /\ taken[r] = {}
  BY <1>1 DEF FrameInv, SignalInv, Hands
<1>3. /\ hand'[r] # "written" /\ taken'[r] = (IF publish THEN pend \cup {r} ELSE {})
      /\ \A x \in Listed \ {r} : hand'[x] = hand[x] /\ taken'[x] = taken[x]
  BY <1>1, <1>2
<1> DEFINE From(t) == IF t \in Unpublished THEN t
                      ELSE IF t[3] \in pend THEN <<"pending", t[3], t[3]>>
                      ELSE <<"written", r, r>>
           f == [t \in Unpublished' |-> From(t)]
<1>4. \A t \in Unpublished' : t = <<t[1], t[2], t[3]>>
  BY DEF Unpublished, Places
<1>5. \A t \in Unpublished' \ Unpublished :
        /\ t[3] \in pend \cup {r}
        /\ t = IF publish THEN <<"taken", r, t[3]>> ELSE <<"pending", r, r>>
  BY <1>1, <1>2, <1>3, <1>4, PlacesAre, PlacesNext
<1>6. \A t \in Unpublished' : From(t) \in Unpublished
  BY <1>1, <1>2, <1>5, PlacesAre
<1>7. <<"written", r, r>> \notin Unpublished'
  BY <1>3, PlacesNext
<1>8. publish => \A x : <<"pending", x, x>> \notin Unpublished'
  BY <1>1, PlacesNext
<1>9. ~publish /\ r \in pend => Unpublished' \subseteq Unpublished
  BY <1>1, <1>2, <1>5, PlacesAre
<1>10. \A s, t \in Unpublished' : From(s) = From(t) => s = t
  BY <1>5, <1>7, <1>8, <1>9
<1>11. f \in [Unpublished' -> Unpublished] /\ \A s, t \in Unpublished' : f[s] = f[t] => s = t
  BY <1>6, <1>10
<1> HIDE DEF f
<1> QED
  BY <1>11, Moves DEF FrameInv, Counted

\* The flusher takes the map.
LEMMA TakeCounts ==
  ASSUME FrameInv, flushing = {}, flushing' = pend, pend' = {}, UNCHANGED <<hand, taken>>
  PROVE  IsFiniteSet(Unpublished') /\ Cardinality(Unpublished') <= Cardinality(Unpublished)
<1> DEFINE From(t) == IF t[1] = "flushing" THEN <<"pending", t[2], t[3]>> ELSE t
           f == [t \in Unpublished' |-> From(t)]
<1>1. \A t \in Unpublished' : t = <<t[1], t[2], t[3]>>
  BY DEF Unpublished, Places
<1>2. \A t \in Unpublished' : From(t) \in Unpublished /\ t[1] # "pending"
  BY <1>1, PlacesAre, PlacesNext
<1>3. \A s, t \in Unpublished' : From(s) = From(t) => s = t
  BY <1>1, <1>2
<1>4. f \in [Unpublished' -> Unpublished] /\ \A s, t \in Unpublished' : f[s] = f[t] => s = t
  BY <1>2, <1>3
<1> HIDE DEF f
<1> QED
  BY <1>4, Moves DEF FrameInv, Counted

LEMMA ProducerCounts ==
  ASSUME Fanout!LiveFanoutBounds, ~Busy, MaxChanges <= Backlog, FrameInv, NEW r \in Listed,
         Fanout!Change(r) \/ Fanout!Mark(r) \/ Fanout!MarkWakes(r) \/ Fanout!MarkPublishes(r)
  PROVE  Counted' /\ NoLag'
<1>0. \A c \in Clients : Len(backlog[c]) \in Nat
  BY DEF FrameInv, SignalInv, Wire
<1>a. IsFiniteSet(Unpublished) /\ Cardinality(Unpublished) \in Nat
  BY FS_CardinalityType DEF FrameInv, Counted
<1>b. /\ hand \in [Listed -> {"idle", "written", "wake", "publish"}]
      /\ taken \in [Listed -> SUBSET Listed] /\ pend \subseteq Listed
  BY DEF FrameInv, SignalInv, Hands
<1>1. CASE Fanout!Change(r)
  <2>1. /\ changes < MaxChanges /\ changes' = changes + 1 /\ hand[r] = "idle"
        /\ hand' = [hand EXCEPT ![r] = "written"]
        /\ UNCHANGED <<taken, pend, flushing, backlog, lagged>>
    BY <1>1 DEF Fanout!Change, Fanout!coalescer, Fanout!channel
  <2>2. Unpublished' \subseteq Unpublished \cup {<<"written", r, r>>}
    <3>1. \A t \in Unpublished' : t = <<t[1], t[2], t[3]>>
      BY DEF Unpublished, Places
    <3> QED
      BY <1>b, <2>1, <3>1, PlacesAre, PlacesNext
  <2>3. /\ IsFiniteSet(Unpublished') /\ Cardinality(Unpublished') \in Nat
        /\ Cardinality(Unpublished') <= Cardinality(Unpublished) + 1
    <3>1. /\ IsFiniteSet(Unpublished \cup {<<"written", r, r>>})
          /\ Cardinality(Unpublished \cup {<<"written", r, r>>}) <= Cardinality(Unpublished) + 1
      <4>1. Cardinality(Unpublished \cup {<<"written", r, r>>}) =
              IF <<"written", r, r>> \in Unpublished
              THEN Cardinality(Unpublished) ELSE Cardinality(Unpublished) + 1
        BY <1>a, FS_AddElement
      <4> QED
        BY <1>a, <4>1, FS_AddElement
    <3>2. /\ IsFiniteSet(Unpublished')
          /\ Cardinality(Unpublished') <= Cardinality(Unpublished \cup {<<"written", r, r>>})
      BY <2>2, <3>1, FS_Subset
    <3> QED
      BY <1>a, <3>1, <3>2, FS_CardinalityType
  <2> QED
    BY <1>0, <1>a, <2>1, <2>3 DEF FrameInv, Counted, NoLag, Fanout!LiveFanoutBounds
<1>2. CASE Fanout!Mark(r)
  <2>1. UNCHANGED <<changes, lagged, backlog>>
    BY <1>2 DEF Fanout!Mark, Fanout!channel, Fanout!count
  <2> QED
    BY <1>0, <1>2, <2>1, MarkCounts, MovesCounted DEF FrameInv
<1>3. CASE Fanout!MarkWakes(r)
  <2>1. /\ UNCHANGED <<changes, lagged, backlog, taken, pend, flushing>>
        /\ hand[r] = "wake" /\ hand' = [hand EXCEPT ![r] = "idle"]
    BY <1>3 DEF Fanout!MarkWakes, Fanout!channel, Fanout!count
  <2>2. Unpublished' = Unpublished
    BY <1>b, <2>1, SamePlaces
  <2> QED
    BY <1>0, <1>a, <2>1, <2>2, MovesCounted DEF FrameInv
<1>4. CASE Fanout!MarkPublishes(r)
  <2>1. PICK x \in taken[r] :
          /\ Fanout!Published(x) /\ taken' = [taken EXCEPT ![r] = @ \ {x}]
          /\ hand' = [hand EXCEPT ![r] = IF taken[r] = {x} THEN "idle" ELSE @]
    BY <1>4 DEF Fanout!MarkPublishes
  <2>2. UNCHANGED <<changes, sock, pend, flushing>>
    BY <1>4 DEF Fanout!MarkPublishes, Fanout!coalescer, Fanout!sockets, Fanout!count
  <2>3. x \in Listed /\ hand[r] # "written" /\ <<"taken", r, x>> \in Unpublished
    BY <1>b, <2>1, PlacesAre DEF FrameInv, SignalInv, Hands
  <2>4. /\ taken'[r] = taken[r] \ {x} /\ hand'[r] # "written"
        /\ \A y \in Listed \ {r} : taken'[y] = taken[y] /\ hand'[y] = hand[y]
    BY <1>b, <2>1, <2>3
  <2>5. Unpublished' = Unpublished \ {<<"taken", r, x>>}
    <3>1. \A t \in Unpublished \cup Unpublished' : t = <<t[1], t[2], t[3]>>
      BY DEF Unpublished, Places
    <3>2. \A p, y, z : <<p, y, z>> \in Unpublished' <=>
                       <<p, y, z>> \in Unpublished /\ ~(p = "taken" /\ y = r /\ z = x)
      <4> SUFFICES ASSUME NEW p, NEW y, NEW z
                   PROVE  <<p, y, z>> \in Unpublished' <=>
                          <<p, y, z>> \in Unpublished /\ ~(p = "taken" /\ y = r /\ z = x)
        OBVIOUS
      <4>1. <<p, y, z>> \in Unpublished <=>
              /\ y \in Listed /\ z \in Listed
              /\ \/ p = "written" /\ y = z /\ hand[y] = "written"
                 \/ p = "pending" /\ y = z /\ y \in pend
                 \/ p = "flushing" /\ y = z /\ y \in flushing
                 \/ p = "taken" /\ z \in taken[y]
        BY PlacesAre
      <4>2. <<p, y, z>> \in Unpublished' <=>
              /\ y \in Listed /\ z \in Listed
              /\ \/ p = "written" /\ y = z /\ hand'[y] = "written"
                 \/ p = "pending" /\ y = z /\ y \in pend'
                 \/ p = "flushing" /\ y = z /\ y \in flushing'
                 \/ p = "taken" /\ z \in taken'[y]
        BY PlacesNext
      <4> QED
        BY <2>2, <2>3, <2>4, <4>1, <4>2
    <3> QED
      BY <3>1, <3>2
  <2> QED
    BY <2>1, <2>2, <2>3, <2>5, PublishCounted
<1> QED
  BY <1>1, <1>2, <1>3, <1>4

LEMMA FlusherCounts ==
  ASSUME Fanout!LiveFanoutBounds, MaxChanges <= Backlog, FrameInv,
         Fanout!FlusherStep \/ Fanout!MaxDelayPasses \/ Fanout!Cancel
  PROVE  Counted' /\ NoLag'
<1>0. \A c \in Clients : Len(backlog[c]) \in Nat
  BY DEF FrameInv, SignalInv, Wire
<1>a. IsFiniteSet(Unpublished) /\ Cardinality(Unpublished) \in Nat
  BY FS_CardinalityType DEF FrameInv, Counted
<1>1. ASSUME UNCHANGED <<hand, taken, pend, flushing, changes, lagged, backlog>>
      PROVE  Counted' /\ NoLag'
  <2>1. Unpublished' = Unpublished
    BY <1>1, SamePlaces
  <2> QED
    BY <1>0, <1>a, <1>1, <2>1, MovesCounted DEF FrameInv
<1>2. ASSUME UNCHANGED <<hand, taken, changes, lagged, backlog>>, flushing = {},
             flushing' = pend, pend' = {}
      PROVE  Counted' /\ NoLag'
  BY <1>0, <1>2, TakeCounts, MovesCounted DEF FrameInv
<1>3. CASE Fanout!FlusherWakes \/ Fanout!MaxDelayPasses \/ Fanout!Cancel
  BY <1>1, <1>3 DEF Fanout!FlusherWakes, Fanout!MaxDelayPasses, Fanout!Cancel,
     Fanout!producers, Fanout!channel, Fanout!count
<1>4. CASE Fanout!FlusherTicks
  <2>1. /\ UNCHANGED <<hand, taken, changes, lagged, backlog>> /\ flusher = "sleep"
        /\ flushing' = IF Fanout!Due THEN pend ELSE {}
        /\ pend' = IF Fanout!Due THEN {} ELSE pend
    BY <1>4 DEF Fanout!FlusherTicks, Fanout!producers, Fanout!channel, Fanout!count
  <2>2. flushing = {}
    BY <2>1 DEF FrameInv, SignalInv, Wire
  <2> QED
    BY <1>1, <1>2, <2>1, <2>2
<1>5. CASE Fanout!Close
  <2>1. /\ UNCHANGED <<hand, taken, changes, lagged, backlog>> /\ flusher \in {"wait", "sleep"}
        /\ flushing' = pend /\ pend' = {}
    BY <1>5 DEF Fanout!Close, Fanout!producers, Fanout!channel, Fanout!count
  <2>2. flushing = {}
    BY <2>1 DEF FrameInv, SignalInv, Wire
  <2> QED
    BY <1>2, <2>1, <2>2
<1>6. CASE Fanout!FlusherPublishes
  <2>1. UNCHANGED <<hand, taken, pend, changes, sock>>
    BY <1>6 DEF Fanout!FlusherPublishes, Fanout!producers, Fanout!sockets, Fanout!count
  <2>2. ASSUME NEW x \in flushing, Fanout!Published(x), flushing' = flushing \ {x}
        PROVE  Counted' /\ NoLag'
    <3>1. x \in Listed /\ <<"flushing", x, x>> \in Unpublished
      BY <2>2, PlacesAre DEF FrameInv, SignalInv, Wire
    <3>2. \A t \in Unpublished \cup Unpublished' : t = <<t[1], t[2], t[3]>>
      BY DEF Unpublished, Places
    <3>3. \A p, y, z : <<p, y, z>> \in Unpublished' <=>
                       <<p, y, z>> \in Unpublished /\ ~(p = "flushing" /\ y = x /\ z = x)
      <4> SUFFICES ASSUME NEW p, NEW y, NEW z
                   PROVE  <<p, y, z>> \in Unpublished' <=>
                          <<p, y, z>> \in Unpublished /\ ~(p = "flushing" /\ y = x /\ z = x)
        OBVIOUS
      <4>1. <<p, y, z>> \in Unpublished <=>
              /\ y \in Listed /\ z \in Listed
              /\ \/ p = "written" /\ y = z /\ hand[y] = "written"
                 \/ p = "pending" /\ y = z /\ y \in pend
                 \/ p = "flushing" /\ y = z /\ y \in flushing
                 \/ p = "taken" /\ z \in taken[y]
        BY PlacesAre
      <4>2. <<p, y, z>> \in Unpublished' <=>
              /\ y \in Listed /\ z \in Listed
              /\ \/ p = "written" /\ y = z /\ hand'[y] = "written"
                 \/ p = "pending" /\ y = z /\ y \in pend'
                 \/ p = "flushing" /\ y = z /\ y \in flushing'
                 \/ p = "taken" /\ z \in taken'[y]
        BY PlacesNext
      <4> QED
        BY <2>1, <2>2, <3>1, <4>1, <4>2
    <3>4. Unpublished' = Unpublished \ {<<"flushing", x, x>>}
      BY <3>2, <3>3
    <3> QED
      BY <2>1, <2>2, <3>1, <3>4, PublishCounted
  <2>3. CASE UNCHANGED <<flushing, Fanout!channel>>
    BY <1>1, <2>1, <2>3 DEF Fanout!channel
  <2> QED
    BY <1>6, <2>2, <2>3 DEF Fanout!FlusherPublishes
<1> QED
  BY <1>3, <1>4, <1>5, <1>6 DEF Fanout!FlusherStep

LEMMA ClientCounts ==
  ASSUME FrameInv, NEW c \in Clients,
         \/ Fanout!Verify(c) \/ Fanout!Subscribe(c) \/ Fanout!Recv(c) \/ Fanout!Beat(c) \/ Fanout!Delivered(c)
         \/ Fanout!WriteTimesOut(c) \/ Fanout!Revalidate(c) \/ Fanout!HangUp(c) \/ Fanout!Stall(c)
         \/ Fanout!Revoke(c) \/ Fanout!Read(c)
  PROVE  Counted' /\ NoLag'
<1>0. /\ backlog \in [Clients -> Seq(Listed)] /\ \A d \in Clients : Len(backlog[d]) \in Nat
  BY DEF FrameInv, SignalInv, Wire
<1>a. IsFiniteSet(Unpublished) /\ Cardinality(Unpublished) \in Nat
  BY FS_CardinalityType DEF FrameInv, Counted
<1>1. UNCHANGED <<hand, taken, pend, flushing, changes>>
  BY DEF Fanout!Verify, Fanout!Subscribe, Fanout!Recv, Fanout!Beat, Fanout!Delivered,
     Fanout!WriteTimesOut, Fanout!Revalidate, Fanout!HangUp, Fanout!Stall, Fanout!Revoke,
     Fanout!Read, Fanout!producers, Fanout!coalescer, Fanout!count
<1>2. Unpublished' = Unpublished
  BY <1>1, SamePlaces
<1>3. /\ \/ backlog' = backlog \/ backlog' = [backlog EXCEPT ![c] = <<>>]
         \/ backlog[c] # <<>> /\ backlog' = [backlog EXCEPT ![c] = Tail(@)]
      /\ lagged' = lagged \/ lagged' = [lagged EXCEPT ![c] = FALSE]
  BY DEF Fanout!Verify, Fanout!Subscribe, Fanout!Recv, Fanout!Beat, Fanout!Delivered,
     Fanout!WriteTimesOut, Fanout!Revalidate, Fanout!HangUp, Fanout!Stall, Fanout!Revoke,
     Fanout!Read, Fanout!Closed, Fanout!channel
<1>4. \A d \in Clients : Len(backlog'[d]) \in Nat /\ Len(backlog'[d]) <= Len(backlog[d])
  <2> SUFFICES ASSUME NEW d \in Clients
               PROVE  Len(backlog'[d]) \in Nat /\ Len(backlog'[d]) <= Len(backlog[d])
    OBVIOUS
  <2>1. \/ backlog'[d] = backlog[d] \/ backlog'[d] = <<>>
        \/ backlog[d] # <<>> /\ backlog'[d] = Tail(backlog[d])
    BY <1>0, <1>3
  <2>2. backlog[d] # <<>> => Len(Tail(backlog[d])) \in Nat /\ Len(Tail(backlog[d])) <= Len(backlog[d])
    BY <1>0
  <2>3. Len(<<>>) = 0
    OBVIOUS
  <2> QED
    BY <1>0, <2>1, <2>2, <2>3
<1>5. NoLag' /\ lagged' \in [Clients -> BOOLEAN]
  BY <1>3 DEF NoLag, FrameInv, Counted
<1>6. \A d \in Clients : Len(backlog'[d]) + Cardinality(Unpublished') <= changes'
  BY <1>0, <1>a, <1>1, <1>2, <1>4 DEF FrameInv, Counted
<1> QED
  BY <1>a, <1>1, <1>2, <1>5, <1>6 DEF FrameInv, Counted

LEMMA InitCounted == ASSUME Fanout!LiveFanoutBounds, Fanout!Init PROVE FrameInv
<1>1. Unpublished = {}
  BY DEF Fanout!Init, Unpublished, Places, Pending
<1>2. /\ IsFiniteSet(Unpublished) /\ Cardinality(Unpublished) = 0
  BY <1>1, FS_EmptySet
<1>3. /\ changes = 0 /\ lagged \in [Clients -> BOOLEAN]
      /\ \A c \in Clients : backlog[c] = <<>> /\ ~lagged[c]
  BY DEF Fanout!Init
<1>4. Len(<<>>) = 0
  OBVIOUS
<1> QED
  BY <1>2, <1>3, <1>4, InitSignal DEF FrameInv, Counted, NoLag, Fanout!LiveFanoutBounds

LEMMA NextCounted ==
  ASSUME Fanout!LiveFanoutBounds, ~Busy, MaxChanges <= Backlog, FrameInv,
         [Fanout!Next]_Fanout!vars
  PROVE  FrameInv'
<1>1. Counted' /\ NoLag'
  <2>1. CASE UNCHANGED Fanout!vars
    <3>1. UNCHANGED <<hand, taken, pend, flushing, changes, lagged, backlog>>
      BY <2>1 DEF Fanout!vars, Fanout!producers, Fanout!coalescer, Fanout!channel,
         Fanout!count
    <3>2. Unpublished' = Unpublished
      BY <3>1, SamePlaces
    <3> QED
      BY <3>1, <3>2 DEF FrameInv, Counted, NoLag
  <2> QED
    BY <2>1, ProducerCounts, FlusherCounts, ClientCounts DEF Fanout!Next
<1> QED
  BY <1>1, NextSignal DEF FrameInv

\* Both invariants of the live updates.
ScreenInv == FrameInv /\ WatchInv

LEMMA ScreenStarts == ASSUME Fanout!LiveFanoutBounds, Fanout!Init PROVE ScreenInv
  BY InitCounted, InitWatch DEF ScreenInv

LEMMA ScreenKeeps ==
  ASSUME Fanout!LiveFanoutBounds, ~Busy, MaxChanges <= Backlog, ScreenInv,
         [Fanout!Next]_Fanout!vars
  PROVE  ScreenInv'
  BY NextCounted, NextWatch DEF ScreenInv

LEMMA ScreenMeans == ScreenInv => NoLag /\ Fanout!StaleIsSignalled /\ Fanout!PendingIsWatched
  BY SignalledIs DEF ScreenInv, FrameInv, SignalInv, WatchInv

\* An account that does not change more often than the channel has room for overwrites no
\* frame of any client, however slowly it reads: the pending map, the flusher and the
\* producers publish every change at most once. So nothing is lost on the way to a screen.
THEOREM QuietCorrect ==
  ASSUME Fanout!LiveFanoutBounds, ~Busy, MaxChanges <= Backlog
  PROVE  Fanout!Spec => [](NoLag /\ Fanout!StaleIsSignalled)
<1>1. Fanout!Init => ScreenInv
  BY ScreenStarts
<1>2. ScreenInv /\ [Fanout!Next]_Fanout!vars => ScreenInv'
  BY ScreenKeeps
<1> QED
  BY <1>1, <1>2, ScreenMeans, PTL DEF Fanout!Spec
=============================================================================
