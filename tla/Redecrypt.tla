------------------------------- MODULE Redecrypt -------------------------------
(***************************************************************************)
(* Events that could not be decrypted when they were stored, and what decrypts    *)
(* them later (crates/axon-sync/src/redecrypt.rs, with the ingestion of engine.rs   *)
(* and the statements of crates/axon-store/src/events.rs): the drain of the SDK's   *)
(* stream of arriving keys, the sweep of a boot, the sweep an operator asks for,   *)
(* and the second look of live ingestion.                                      *)
(*                                                                         *)
(* A decryption reads the SDK's key store, and the row is written afterwards: in    *)
(* between the key may arrive. One account, one run of its sync task at a time.    *)
(***************************************************************************)
EXTENDS Integers, Sequences, FiniteSets

CONSTANTS
  Events,
  SessionOf,       \* the megolm session of an event
  RoomOf,          \* the room of an event
  Backup,          \* the sessions the server's key backup holds
  AlwaysAll,       \* always_redecrypt_utds_on_startup
  Faults,          \* what may go wrong: "early" (a key arrives before the drain listens),
                   \* "lag" (the stream skips), "db" (a statement fails), "download", "room"
  MaxDeliveries,   \* bound: deliveries of an event
  MaxRetries,      \* bound: sweeps an operator asks for
  MaxCrashes       \* bound: deaths or restarts of the sync task

Sessions == {SessionOf[e] : e \in Events}
Rooms == {RoomOf[e] : e \in Events}

RedecryptAssumption ==
  /\ DOMAIN SessionOf = Events /\ DOMAIN RoomOf = Events
  /\ AlwaysAll \in BOOLEAN
  /\ Faults \subseteq {"early", "lag", "db", "download", "room"}
  /\ MaxDeliveries \in Nat /\ MaxRetries \in Nat /\ MaxCrashes \in Nat

Ingest == {"live", "backfill"}
Sweeps == {"startup", "retry"}
Workers == Ingest \cup Sweeps \cup {"drain"}

VARIABLES
  row,         \* events: no row, content, or a row without content and who wrote it
  marked,      \* utd_startup_redecrypt_attempted_at
  keys,        \* the SDK's store of sessions
  stream,      \* arrivals the drain has not taken
  listening,   \* whether the drain has subscribed
  worker,      \* what each task is doing
  deliveries, retries, crashes,
  swept        \* history: rows a startup sweep has tried

vars == <<row, marked, keys, stream, listening, worker, deliveries, retries, crashes, swept>>
bounds == <<deliveries, retries, crashes>>

\* `todo` and `tried` are the rows of a drain or a sweep, `room` the one it is in,
\* `cut` whether it was cancelled.
Idle == [pc |-> "idle", todo |-> {}, tried |-> {}, room |-> {}, ev |-> {}, clear |-> FALSE,
         cut |-> FALSE]

Steps == {"idle", "write", "load", "rooms", "rows", "decrypt", "update", "mark", "done"}

TypeOK ==
  /\ row \in [Events -> {"none", "clear"} \cup Ingest]
  /\ marked \subseteq Events /\ swept \subseteq Events
  /\ keys \subseteq Sessions /\ stream \in Seq(Sessions) /\ listening \in BOOLEAN
  /\ DOMAIN worker = Workers
  /\ \A w \in Workers :
       /\ worker[w].pc \in Steps /\ worker[w].ev \subseteq Events /\ worker[w].room \subseteq Rooms
       /\ worker[w].todo \cup worker[w].tried \subseteq Events
       /\ worker[w].pc \in {"write", "decrypt", "update"} => Cardinality(worker[w].ev) = 1
  /\ deliveries \in [Events -> 0..MaxDeliveries]
  /\ retries \in 0..MaxRetries /\ crashes \in 0..MaxCrashes

\* The drain subscribes in a task of its own, beside the sync that brings keys in and the
\* sweeps that download them: without "early" it is taken to be the first of them.
Listens == "early" \notin Faults

Init ==
  /\ row = [e \in Events |-> "none"] /\ marked = {} /\ swept = {}
  /\ keys = {} /\ stream = <<>> /\ listening = Listens
  /\ worker = [w \in Workers |-> IF w = "startup" THEN [Idle EXCEPT !.pc = "load"] ELSE Idle]
  /\ deliveries = [e \in Events |-> 0] /\ retries = 0 /\ crashes = 0

-----------------------------------------------------------------------------
(* Keys *)

Utd(e) == row[e] \in Ingest
Keyed(e) == SessionOf[e] \in keys

\* Sessions enter the store, and those that are new are announced to whoever listens.
Import(S) ==
  /\ keys' = keys \cup S
  /\ \E s \in [1..Cardinality(S \ keys) -> S \ keys] :
       /\ \A i, j \in DOMAIN s : s[i] = s[j] => i = j
       /\ stream' = IF listening THEN stream \o s ELSE stream

KeyArrives ==
  /\ \E s \in Sessions \ keys : Import({s})
  /\ UNCHANGED <<row, marked, listening, worker, bounds, swept>>

Subscribe ==
  /\ ~listening
  /\ listening' = TRUE
  /\ UNCHANGED <<row, marked, keys, stream, worker, bounds, swept>>

\* The stream has skipped arrivals: the drain only says so.
Lag ==
  /\ "lag" \in Faults /\ stream # <<>>
  /\ stream' = <<>>
  /\ UNCHANGED <<row, marked, keys, listening, worker, bounds, swept>>

-----------------------------------------------------------------------------
(* Ingestion *)

EventOf(w) == CHOOSE e \in worker[w].ev : TRUE
Set(w, r) == worker' = [worker EXCEPT ![w] = r]

\* The SDK has decrypted the event, or not, before it hands it over.
Receive(w) ==
  /\ worker[w].pc = "idle"
  /\ \E e \in Events :
       /\ deliveries[e] < MaxDeliveries
       /\ deliveries' = [deliveries EXCEPT ![e] = @ + 1]
       /\ Set(w, [Idle EXCEPT !.pc = "write", !.ev = {e}, !.clear = Keyed(e)])
  /\ UNCHANGED <<row, marked, keys, stream, listening, retries, crashes, swept>>

\* upsert_event leaves the content of an existing row alone, whatever it delivers.
Upsert(w, e) ==
  row' = IF row[e] = "none" THEN [row EXCEPT ![e] = IF worker[w].clear THEN "clear" ELSE w] ELSE row

\* Mutant: live ingestion takes no second look.
SecondLook_None(w) == FALSE
\* Live ingestion tries a row that it stored without content once more.
SecondLook(w) == w = "live" /\ ~worker[w].clear

Persist(w) ==
  /\ worker[w].pc = "write"
  /\ \/ /\ Upsert(w, EventOf(w))
        /\ Set(w, IF SecondLook(w) THEN [worker[w] EXCEPT !.pc = "decrypt"] ELSE Idle)
     \/ /\ "db" \in Faults
        /\ Set(w, Idle) /\ UNCHANGED row
  /\ UNCHANGED <<marked, keys, stream, listening, bounds, swept>>

-----------------------------------------------------------------------------
(* redecrypt_one: decrypt, then write what is still without content *)

Decrypt(w) ==
  /\ worker[w].pc = "decrypt"
  /\ Set(w, [worker[w] EXCEPT !.pc = "update", !.clear = Keyed(EventOf(w))])
  /\ UNCHANGED <<row, marked, keys, stream, listening, bounds, swept>>

\* A row that fails is skipped.
Following(w) == IF w = "live" THEN Idle ELSE [worker[w] EXCEPT !.pc = "rows", !.ev = {}, !.clear = FALSE]

Update(w) ==
  /\ worker[w].pc = "update"
  /\ LET e == EventOf(w)
     IN  \/ /\ row' = IF worker[w].clear /\ Utd(e) THEN [row EXCEPT ![e] = "clear"] ELSE row
            /\ Set(w, Following(w))
         \/ /\ "db" \in Faults /\ worker[w].clear
            /\ Set(w, Following(w)) /\ UNCHANGED row
  /\ UNCHANGED <<marked, keys, stream, listening, bounds, swept>>

-----------------------------------------------------------------------------
(* The drain and the sweeps *)

\* An arrival is taken and the rows that wait for its session are loaded.
Drain ==
  /\ worker["drain"].pc = "idle" /\ stream # <<>>
  /\ stream' = Tail(stream)
  /\ \/ Set("drain", [Idle EXCEPT !.pc = "rows", !.todo = {e \in Events : Utd(e) /\ SessionOf[e] = Head(stream)}])
     \/ "db" \in Faults /\ UNCHANGED worker
  /\ UNCHANGED <<row, marked, keys, listening, bounds, swept>>

\* recover and the operator's endpoint.
Retry ==
  /\ worker["retry"].pc \in {"idle", "done"} /\ retries < MaxRetries
  /\ retries' = retries + 1
  /\ Set("retry", [Idle EXCEPT !.pc = "load"])
  /\ UNCHANGED <<row, marked, keys, stream, listening, deliveries, crashes, swept>>

Selected(w) ==
  {e \in Events : Utd(e) /\ (w = "startup" /\ ~AlwaysAll => e \notin marked)}

Load(w) ==
  /\ worker[w].pc = "load"
  /\ \/ Set(w, [Idle EXCEPT !.pc = "rooms", !.todo = Selected(w)])
     \/ "db" \in Faults /\ Set(w, [Idle EXCEPT !.pc = "done"])
  /\ UNCHANGED <<row, marked, keys, stream, listening, bounds, swept>>

\* The operator's sweep runs out of time, or the account's task is cancelled.
Timeout ==
  /\ worker["retry"].pc \in Steps \ {"idle", "done"} /\ ~worker["retry"].cut
  /\ Set("retry", [worker["retry"] EXCEPT !.cut = TRUE])
  /\ UNCHANGED <<row, marked, keys, stream, listening, bounds, swept>>

RowsIn(w, r) == {e \in worker[w].todo : RoomOf[e] = r}

\* The next room: its keys are downloaded from the backup first.
EnterRoom(w) ==
  /\ worker[w].pc = "rooms" /\ worker[w].todo # {} /\ ~worker[w].cut
  /\ \E r \in Rooms :
       /\ RowsIn(w, r) # {}
       /\ \/ /\ Import({s \in Backup : \E e \in Events : RoomOf[e] = r /\ SessionOf[e] = s})
             /\ Set(w, [worker[w] EXCEPT !.pc = "rows", !.room = {r}])
          \/ /\ "download" \in Faults
             /\ Set(w, [worker[w] EXCEPT !.pc = "rows", !.room = {r}])
             /\ UNCHANGED <<keys, stream>>
          \/ /\ "room" \in Faults
             /\ Set(w, [worker[w] EXCEPT !.todo = @ \ RowsIn(w, r)])
             /\ UNCHANGED <<keys, stream>>
  /\ UNCHANGED <<row, marked, listening, bounds, swept>>

\* The rows a worker may take now: those of its room, or all for the drain.
Within(w) == IF w = "drain" THEN worker[w].todo ELSE UNION {RowsIn(w, r) : r \in worker[w].room}

TakeRow(w) ==
  /\ worker[w].pc = "rows" /\ ~worker[w].cut
  /\ \E e \in Within(w) :
       /\ Set(w, [worker[w] EXCEPT !.pc = "decrypt", !.ev = {e}, !.todo = @ \ {e}, 
                                     !.tried = IF w = "startup" THEN @ \cup {e} ELSE @])
       /\ swept' = IF w = "startup" THEN swept \cup {e} ELSE swept
  /\ UNCHANGED <<row, marked, keys, stream, listening, bounds>>

\* A room, a drain or a sweep is through, or was cancelled.
LeaveRows(w) ==
  /\ worker[w].pc = "rows" /\ (Within(w) = {} \/ worker[w].cut)
  /\ Set(w, IF w = "drain" THEN Idle ELSE [worker[w] EXCEPT !.pc = "rooms", !.room = {}])
  /\ UNCHANGED <<row, marked, keys, stream, listening, bounds, swept>>

\* Only a sweep of the rows no boot has tried marks what it tried.
Marks(w) == w = "startup" /\ ~AlwaysAll

EndSweep(w) ==
  /\ worker[w].pc = "rooms" /\ (worker[w].todo = {} \/ worker[w].cut)
  /\ Set(w, [worker[w] EXCEPT !.pc = IF Marks(w) THEN "mark" ELSE "done", !.todo = {}])
  /\ UNCHANGED <<row, marked, keys, stream, listening, bounds, swept>>

Attempted == worker["startup"].tried

\* mark_utd_startup_redecrypt_attempted
Mark ==
  /\ worker["startup"].pc = "mark"
  /\ \/ marked' = marked \cup {e \in Attempted : Utd(e)}
     \/ "db" \in Faults /\ UNCHANGED marked
  /\ Set("startup", [Idle EXCEPT !.pc = "done"])
  /\ UNCHANGED <<row, keys, stream, listening, bounds, swept>>

\* The task ends and is started again: the rows, the marks and the key store stay.
Restart ==
  /\ crashes < MaxCrashes /\ crashes' = crashes + 1
  /\ stream' = <<>> /\ listening' = Listens
  /\ worker' = [w \in Workers |-> IF w = "startup" THEN [Idle EXCEPT !.pc = "load"] ELSE Idle]
  /\ UNCHANGED <<row, marked, keys, deliveries, retries, swept>>

-----------------------------------------------------------------------------
Work(w) ==
  \/ w \in Ingest /\ Persist(w)
  \/ w \in Sweeps /\ (Load(w) \/ EnterRoom(w) \/ EndSweep(w))
  \/ w = "drain" /\ Drain
  \/ w = "startup" /\ Mark
  \/ Decrypt(w) \/ Update(w) \/ TakeRow(w) \/ LeaveRows(w)

Next ==
  \/ \E w \in Workers : Work(w)
  \/ \E w \in Ingest : Receive(w)
  \/ KeyArrives \/ Subscribe \/ Lag \/ Retry \/ Timeout \/ Restart

Spec == Init /\ [][Next]_vars

\* The tasks run. Nothing says that an event or a key arrives or that anyone retries.
Fairness == WF_vars(Subscribe) /\ \A w \in Workers : WF_vars(Work(w))

FairSpec == Spec /\ Fairness

-----------------------------------------------------------------------------
(* Properties *)

Quiet ==
  /\ listening /\ stream = <<>>
  /\ \A w \in Workers : worker[w].pc \in {"idle", "done"}

\* When nothing is under way, an event stored by live ingestion whose key is in the
\* store has its content: the drain finds the row, or the second look finds the key.
LiveIsDecrypted == Quiet => \A e \in Events : row[e] = "live" => ~Keyed(e)

\* The same of an event that history backfill stored (persist_backfilled_event).
BackfilledIsDecrypted == Quiet => \A e \in Events : row[e] = "backfill" => ~Keyed(e)

\* Content, once there, stays: no second delivery or late attempt takes it away.
ContentStaysStep == \A e \in Events : row[e] = "clear" => row'[e] = "clear"

\* ContentStaysStep, of every step.
ContentStays == [][ContentStaysStep]_vars

\* Later boots pass over a row only when a sweep has tried it: one that a restart cut
\* short leaves the rest to the next.
MarkedWasTried == marked \subseteq swept

Decrypted(e) == row[e] = "live" => ~Keyed(e)

\* A row of live ingestion whose key is in the store gets its content.
KeyDecrypts == \A e \in Events : []<>Decrypted(e)
=============================================================================
