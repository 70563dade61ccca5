---------------------------- MODULE RoomDetails ----------------------------
(***************************************************************************)
(* The acquisition of room details from an account's homeserver: the reads *)
(* of the API that ask for jobs and report on them, the bounded queue and  *)
(* the worker of an account run (axon-sync/src/acquisition.rs), and the    *)
(* cache rows with their fences (axon-store/src/room_detail_acquisition.rs *)
(* and the triggers of its migration).                                     *)
(*                                                                         *)
(* A detail is a job with one row; the absence job has a row for every     *)
(* state type. Times are whether they have passed: a row's value is fresh  *)
(* or not, and its next attempt is held back or not.                       *)
(***************************************************************************)
EXTENDS Naturals, Sequences, FiniteSets, SequencesExt

CONSTANTS
  Rooms,
  Details,          \* local_aliases, directory_visibility
  Absence,          \* the absence job
  Types,            \* ABSENCE_ORDER, a sequence of state types
  QueueCapacity,    \* QUEUE_CAPACITY
  CooldownCapacity, \* COOLDOWN_CAPACITY
  MaxMoves,         \* changes of the account's own membership
  MaxStates,        \* state tuples that sync delivers
  MaxFaults,        \* store operations that fail
  MaxStops          \* account runs that end

RoomDetailsBounds ==
  /\ Absence \notin Details
  /\ {QueueCapacity, CooldownCapacity} \subseteq Nat \ {0}
  /\ {MaxMoves, MaxStates, MaxFaults, MaxStops} \subseteq Nat

Jobs == Details \cup (IF Types = <<>> THEN {} ELSE {Absence})
Keys == Details \cup ToSet(Types)
KeysOf(j) == IF j = Absence THEN ToSet(Types) ELSE {j}

VARIABLES
  joined, epoch, \* JOINED_EPOCH of a room
  tuples,        \* the state types a room has a tuple of
  rows,          \* room_detail_acquisitions
  queue, running, sending, cooldown, \* QueueState
  wake,          \* the permit of the Notify
  registered,    \* the queue is in RoomDetailAcquisitions
  pc,            \* where the worker is
  job,           \* what the worker knows of its job
  reader,        \* what a read of a panel has found out
  shown,         \* panels that show a refresh as queued or running
  stale,         \* panels whose value has changed since it was read
  told,          \* panels with a frame that their client has not acted on
  asked,         \* the keys whose last request, in this membership, still counts
  moves, states, faults, stops

membership == <<joined, epoch, tuples>>
queued     == <<queue, running, sending, cooldown, wake, registered>>
panels     == <<shown, stale, told>>
count      == <<moves, states, faults, stops>>
vars       == <<membership, rows, queued, pc, job, reader, panels, asked, count>>

Panels == Rooms \X Jobs
NoRow == [value |-> "no row"]
NoJob == [ep |-> 0, todo |-> <<>>, out |-> "none", sent |-> 0, changed |-> FALSE,
          local |-> FALSE]
Idle == [at |-> "idle", due |-> FALSE]
None == [room |-> "none"]

Init ==
  /\ joined = [r \in Rooms |-> TRUE] /\ epoch = [r \in Rooms |-> 1]
  /\ tuples = [r \in Rooms |-> {}]
  /\ rows = [r \in Rooms |-> [k \in Keys |-> NoRow]]
  /\ queue = <<>> /\ running = None /\ sending = FALSE /\ cooldown = <<>>
  /\ wake = FALSE /\ registered = TRUE
  /\ pc = "look" /\ job = NoJob
  /\ reader = [p \in Panels |-> Idle]
  /\ shown = {} /\ stale = {} /\ told = {}
  /\ asked = {}
  /\ moves = 0 /\ states = 0 /\ faults = 0 /\ stops = 0

-----------------------------------------------------------------------------
(* The cache.                                                              *)

\* due: no current value and no backoff in force.
Due(r, k) == rows[r][k] = NoRow \/ (~rows[r][k].fresh /\ ~rows[r][k].held)

\* Next::from
NextRow(old, out, sent) ==
  CASE out \in {"answer", "absent"} ->
         [value |-> out, fresh |-> TRUE, failed |-> FALSE, held |-> FALSE, sent |-> sent]
    [] out = "present" ->
         [value |-> "none", fresh |-> FALSE, failed |-> FALSE, held |-> TRUE, sent |-> sent]
    [] out = "failure" /\ old = NoRow ->
         [value |-> "none", fresh |-> FALSE, failed |-> TRUE, held |-> TRUE, sent |-> sent]
    [] OTHER -> [old EXCEPT !.failed = TRUE, !.held = TRUE]

Changes(old, new) ==
  \/ old = NoRow
  \/ old.value # new.value \/ old.failed # new.failed
  \/ new.fresh /\ ~old.fresh

\* The worker's transaction: it shares the lock of the summary row and, for a
\* confirmation, has the advisory lock of its type.
SummaryLocked(r) == pc = "commit" /\ running.room = r

AbsenceLocked(r, t) ==
  pc = "commit" /\ running.room = r /\ job.out = "absent" /\ Head(job.todo) = t

\* The account's own membership changes: a new epoch, which deletes the rows.
\* A kick and a rejoin may arrive as one new join.
Move(r) ==
  /\ moves < MaxMoves /\ moves' = moves + 1
  /\ ~SummaryLocked(r)
  /\ \E in \in BOOLEAN : (joined[r] \/ in) /\ joined' = [joined EXCEPT ![r] = in]
  /\ epoch' = [epoch EXCEPT ![r] = @ + 1]
  /\ rows' = [rows EXCEPT ![r] = [k \in Keys |-> NoRow]]
  /\ asked' = {a \in asked : a[1] # r}
  /\ UNCHANGED <<tuples, queued, pc, job, reader, panels, states, faults, stops>>

\* Sync delivers a tuple, which supersedes a confirmation of its absence.
Deliver(r, t) ==
  /\ states < MaxStates /\ states' = states + 1
  /\ joined[r] /\ t \notin tuples[r]
  /\ ~AbsenceLocked(r, t)
  /\ tuples' = [tuples EXCEPT ![r] = @ \cup {t}]
  /\ rows' = [rows EXCEPT ![r][t] = NoRow]
  /\ UNCHANGED <<joined, epoch, queued, pc, job, reader, panels, asked, moves, faults, stops>>

\* Time: a value expires, or a next attempt may be made.
Passes(r, k) ==
  /\ rows[r][k] # NoRow
  /\ \/ rows[r][k].fresh /\ rows' = [rows EXCEPT ![r][k].fresh = FALSE]
     \/ rows[r][k].held /\ rows' = [rows EXCEPT ![r][k].held = FALSE]
  /\ asked' = asked \ {<<r, k>>}
  /\ UNCHANGED <<membership, queued, pc, job, reader, panels, count>>

\* Time: a job that failed locally may queue again.
CooldownPasses ==
  /\ cooldown # <<>>
  /\ cooldown' = Tail(cooldown)
  /\ LET c == Head(cooldown) IN asked' = asked \ {<<c[1], k>> : k \in KeysOf(c[2])}
  /\ UNCHANGED <<membership, rows, queue, running, sending, wake, registered, pc, job,
                 reader, panels, count>>

-----------------------------------------------------------------------------
(* Reads.                                                                  *)

\* room_detail_snapshot: what is due, and whether the room is eligible.
Snapshot(p) ==
  /\ reader[p].at = "idle"
  /\ LET due == \E k \in KeysOf(p[2]) : k \notin tuples[p[1]] /\ Due(p[1], k)
     IN  reader' = [reader EXCEPT ![p] =
           [at |-> IF ~joined[p[1]] THEN "answer" ELSE IF due THEN "ask" ELSE "look",
            due |-> due]]
  /\ stale' = stale \ {p} /\ told' = told \ {p}
  /\ UNCHANGED <<membership, rows, queued, pc, job, shown, asked, count>>

Is(e, p) == e # None /\ e.room = p[1] /\ e.job = p[2]
Waiting(p) == \E i \in DOMAIN queue : Is(queue[i], p)
Held(p) == p \in ToSet(cooldown)

\* The panel of a dropped job that a read saw reads again.
DropTells(e) == IF e.observed THEN {<<e.room, e.job>>} ELSE {}

\* Mutant: a full queue takes one more.
Full_Late == Len(queue) > QueueCapacity

Full == Len(queue) >= QueueCapacity

\* notify_one
PushWakes == TRUE

\* request, push: unless the job is queued, running or held back; a full queue
\* drops its oldest job.
Ask(p) ==
  /\ reader[p].at = "ask"
  /\ reader' = [reader EXCEPT ![p].at = "look"]
  /\ IF ~registered \/ Is(running, p) \/ Waiting(p) \/ Held(p)
       THEN UNCHANGED <<queue, wake, told>>
       ELSE /\ queue' = Append(IF Full THEN Tail(queue) ELSE queue,
                               [room |-> p[1], job |-> p[2], observed |-> FALSE])
            /\ told' = told \cup (IF Full THEN DropTells(Head(queue)) ELSE {})
            /\ wake' = (wake \/ PushWakes)
  /\ UNCHANGED <<membership, rows, running, sending, cooldown, registered, pc, job, shown,
                 stale, asked, count>>

\* activity, observe: the read shows the job, and the job knows it.
Observe(p) ==
  /\ reader[p].at = "look"
  /\ reader' = [reader EXCEPT ![p] = Idle]
  /\ LET active == registered /\ (Is(running, p) \/ Waiting(p))
     IN  shown' = IF active /\ reader[p].due THEN shown \cup {p} ELSE shown \ {p}
  /\ running' = IF registered /\ Is(running, p) THEN [running EXCEPT !.observed = TRUE]
                ELSE running
  /\ queue' = IF registered
                THEN [i \in DOMAIN queue |->
                        IF Is(queue[i], p) THEN [queue[i] EXCEPT !.observed = TRUE] ELSE queue[i]]
                ELSE queue
  /\ UNCHANGED <<membership, rows, sending, cooldown, wake, registered, pc, job, stale, told,
                 asked, count>>

\* A room that is not joined reads as idle.
Answer(p) ==
  /\ reader[p].at = "answer"
  /\ reader' = [reader EXCEPT ![p] = Idle]
  /\ shown' = shown \ {p}
  /\ UNCHANGED <<membership, rows, queued, pc, job, stale, told, asked, count>>

-----------------------------------------------------------------------------
(* The worker.                                                             *)

Look ==
  /\ pc = "look"
  /\ IF queue = <<>> THEN pc' = "empty" /\ UNCHANGED <<queue, running, job>>
     ELSE /\ running' = Head(queue) /\ queue' = Tail(queue)
          /\ pc' = "start" /\ job' = NoJob
  /\ UNCHANGED <<membership, rows, sending, cooldown, wake, registered, reader, panels,
                 asked, count>>

\* The lock is released between the look and the wait.
Wait ==
  /\ pc = "empty"
  /\ pc' = "wait"
  /\ UNCHANGED <<membership, rows, queued, job, reader, panels, asked, count>>

Wake ==
  /\ pc = "wait" /\ wake
  /\ wake' = FALSE /\ pc' = "look"
  /\ UNCHANGED <<membership, rows, queue, running, sending, cooldown, registered, job,
                 reader, panels, asked, count>>

\* A store operation of the job fails: the job ends and is held back.
StoreFails(at) ==
  /\ pc = at /\ faults < MaxFaults /\ faults' = faults + 1
  /\ pc' = "finish" /\ job' = [job EXCEPT !.local = TRUE]
  /\ UNCHANGED <<membership, rows, queued, reader, panels, asked, moves, states, stops>>

\* run_job: the epoch that fences the job,
Start ==
  /\ pc = "start"
  /\ IF joined[running.room]
       THEN pc' = "check" /\ job' = [job EXCEPT !.ep = epoch[running.room]]
       ELSE pc' = "finish" /\ UNCHANGED job
  /\ UNCHANGED <<membership, rows, queued, reader, panels, asked, count>>

\* Of a job's keys, in order, those that are due.
DueKeys(r, j) ==
  SelectSeq(IF j = Absence THEN Types ELSE <<j>>, LAMBDA k : k \notin tuples[r] /\ Due(r, k))

\* and what is still due.
Check ==
  /\ pc = "check"
  /\ LET due == DueKeys(running.room, running.job)
     IN  job' = [job EXCEPT !.todo = due] /\ pc' = IF due = <<>> THEN "finish" ELSE "gate"
  /\ UNCHANGED <<membership, rows, queued, reader, panels, asked, count>>

\* request: paced, and admitted by the homeserver gate.
Admit ==
  /\ pc = "gate"
  /\ pc' = "sent" /\ sending' = TRUE
  /\ job' = [job EXCEPT !.sent = IF joined[running.room] THEN epoch[running.room] ELSE 0]
  /\ asked' = IF joined[running.room] /\ epoch[running.room] = job.ep
                THEN asked \cup {<<running.room, Head(job.todo)>>} ELSE asked
  /\ UNCHANGED <<membership, rows, queue, running, cooldown, wake, registered, reader,
                 panels, count>>

\* interpret
Outcomes(j) == IF j = Absence THEN {"absent", "answer", "present", "failure"}
               ELSE {"answer", "failure"}

Reply ==
  /\ pc = "sent"
  /\ pc' = "record" /\ sending' = FALSE
  /\ \E out \in Outcomes(running.job) : job' = [job EXCEPT !.out = out]
  /\ UNCHANGED <<membership, rows, queue, running, cooldown, wake, registered, reader,
                 panels, asked, count>>

\* Mutant: a result is fenced by the membership it finds.
Fenced_Joined(r, k) == ~joined[r] \/ (job.out = "absent" /\ k \in tuples[r])

\* record_room_detail commits in the membership its job started in; a
\* confirmation, also while there is no tuple.
Fenced(r, k) ==
  \/ ~joined[r] \/ epoch[r] # job.ep
  \/ job.out = "absent" /\ k \in tuples[r]

Record ==
  /\ pc = "record"
  /\ pc' = IF ~Fenced(running.room, Head(job.todo)) THEN "commit"
           ELSE IF running.job = Absence /\ job.out # "failure" THEN "fenced" ELSE "finish"
  /\ UNCHANGED <<membership, rows, queued, job, reader, panels, asked, count>>

\* The next type of an absence job, unless the request failed.
Continue(j) ==
  IF running.job = Absence /\ job.out # "failure" /\ Len(job.todo) > 1
    THEN pc' = "gate" /\ job' = [j EXCEPT !.todo = Tail(@)]
    ELSE pc' = "finish" /\ job' = j

Commit ==
  /\ pc = "commit"
  /\ LET r == running.room  k == Head(job.todo)
         new == NextRow(rows[r][k], job.out, job.sent)
         changed == Changes(rows[r][k], new)
     IN  /\ rows' = [rows EXCEPT ![r][k] = new]
         /\ stale' = IF changed THEN stale \cup {<<r, running.job>>} ELSE stale
         /\ Continue([job EXCEPT !.changed = @ \/ changed])
  /\ UNCHANGED <<membership, queued, reader, shown, told, asked, count>>

\* A fenced type: the job goes on in the same membership, or when the
\* membership cannot be read.
Refetch ==
  /\ pc = "fenced"
  /\ \/ /\ joined[running.room] /\ epoch[running.room] = job.ep
        /\ Continue(job) /\ UNCHANGED faults
     \/ /\ ~(joined[running.room] /\ epoch[running.room] = job.ep)
        /\ pc' = "finish" /\ UNCHANGED <<job, faults>>
     \/ /\ faults < MaxFaults /\ faults' = faults + 1
        /\ Continue(job)
  /\ UNCHANGED <<membership, rows, queued, reader, panels, asked, moves, states, stops>>

\* A change is announced, and the end of a job that a read saw.
FinishTells == job.changed \/ running.observed

\* finish, and mark.
Finish ==
  /\ pc = "finish"
  /\ pc' = "look" /\ running' = None /\ sending' = FALSE
  /\ cooldown' = IF ~job.local THEN cooldown
                 ELSE Append(IF Len(cooldown) >= CooldownCapacity THEN Tail(cooldown)
                             ELSE cooldown, <<running.room, running.job>>)
  /\ told' = IF FinishTells THEN told \cup {<<running.room, running.job>>} ELSE told
  /\ job' = NoJob
  /\ UNCHANGED <<membership, rows, queue, wake, registered, reader, shown, stale, asked, count>>

\* The account run ends: the worker is cancelled wherever it is,
Stop ==
  /\ pc # "off" /\ stops < MaxStops /\ stops' = stops + 1
  /\ pc' = "off" /\ job' = NoJob
  /\ UNCHANGED <<membership, rows, queued, reader, panels, asked, moves, states, faults>>

\* and its registration is dropped.
Unregister ==
  /\ pc = "off" /\ registered
  /\ registered' = FALSE
  /\ queue' = <<>> /\ running' = None /\ sending' = FALSE /\ cooldown' = <<>> /\ wake' = FALSE
  /\ asked' = {a \in asked : ~Due(a[1], a[2])}
  /\ UNCHANGED <<membership, rows, pc, job, reader, panels, count>>

\* The next run registers a fresh queue.
Restart ==
  /\ pc = "off" /\ ~registered
  /\ registered' = TRUE /\ pc' = "look"
  /\ UNCHANGED <<membership, rows, queue, running, sending, cooldown, wake, job, reader,
                 panels, asked, count>>

-----------------------------------------------------------------------------
WorkerStep ==
  Look \/ Wait \/ Wake \/ Start \/ Check \/ Admit \/ Reply \/ Record \/ Commit \/ Refetch \/ Finish

Next ==
  \/ \E r \in Rooms : \/ Move(r)
                      \/ \E t \in ToSet(Types) : Deliver(r, t)
                      \/ \E k \in Keys : Passes(r, k)
  \/ CooldownPasses
  \/ \E p \in Panels : Snapshot(p) \/ Ask(p) \/ Observe(p) \/ Answer(p)
  \/ WorkerStep
  \/ \E at \in {"start", "check", "record", "commit"} : StoreFails(at)
  \/ Stop \/ Unregister \/ Restart

Spec == Init /\ [][Next]_vars

\* The worker is one task; the gate admits and requests time out.
Fairness == WF_vars(WorkerStep) /\ WF_vars(Unregister)

FairSpec == Spec /\ Fairness

-----------------------------------------------------------------------------
(* Properties.                                                             *)

\* The variables keep their types and the queues their bounds, and a key is in
\* the queue once.
TypeOK ==
  /\ Len(queue) <= QueueCapacity /\ Len(cooldown) <= CooldownCapacity
  /\ \A p \in Panels : Cardinality({i \in DOMAIN queue : Is(queue[i], p)}) <= 1
  /\ pc \in {"look", "empty", "wait", "start", "check", "gate", "sent", "record", "commit",
             "fenced", "finish", "off"}
  /\ shown \subseteq Panels /\ stale \subseteq Panels /\ told \subseteq Panels
  /\ \A r \in Rooms : tuples[r] \subseteq ToSet(Types)
  /\ sending => pc = "sent" \/ (pc = "off" /\ registered)

\* What the cache holds was asked for in the present membership: no answer
\* outlives a leave, also when a rejoin follows while its request is out.
RowsOfThisMembership ==
  \A r \in Rooms, k \in Keys : rows[r][k] # NoRow => joined[r] /\ rows[r][k].sent = epoch[r]

\* A type is never confirmed absent beside a tuple of it, whichever of the
\* confirmation and the tuple commits first.
AbsenceYields ==
  \A r \in Rooms : \A t \in tuples[r] : rows[r][t].value # "absent"

\* A panel that shows a refresh as queued or running, or a value that was
\* replaced, is going to be told: its job is still there and knows that it was
\* seen, or is about to announce its change, or a frame is out, or a read is.
PanelIsAnswered ==
  \A p \in shown \cup stale :
    \/ p \in told \/ reader[p].at # "idle"
    \/ Is(running, p) /\ (running.observed \/ (p \notin shown /\ job.changed))
    \/ p \notin stale /\ \E i \in DOMAIN queue : Is(queue[i], p) /\ queue[i].observed

\* Reads do not add up to requests: a key is asked for again only after its
\* value expired, its backoff or its job's cooldown passed, or the membership
\* changed, whatever failed, was dropped or was asked for twice in between.
NoAmplificationStep == pc = "gate" /\ pc' = "sent" => <<running.room, Head(job.todo)>> \notin asked

\* NoAmplificationStep, of every step.
NoAmplification == [][NoAmplificationStep]_vars

\* A request goes out only for a room that is joined.
RequestsAreEligibleStep == pc = "gate" /\ pc' = "sent" => joined[running.room]

\* RequestsAreEligibleStep, of every step.
RequestsAreEligible == [][RequestsAreEligibleStep]_vars

\* A job that is queued ends or is dropped.
JobEnds == \A p \in Panels : []<>~Waiting(p)
=============================================================================
