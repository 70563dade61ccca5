------------------------------ MODULE RoomProofs ------------------------------
(***************************************************************************)
(* What the store keeps of rooms.                                          *)
(*                                                                         *)
(* Redecrypt, for any events, sessions and rooms, any deliveries, sweeps   *)
(* and restarts: the types, the marks of the startup sweep, content that   *)
(* stays, and rows that are decrypted once their key has come.             *)
(*                                                                         *)
(* StateProjection, for any types, events, redactions and resets: the      *)
(* types, that only redacted content is pruned and stays so, that tuples   *)
(* move forward, and that a repair is hinted.                              *)
(*                                                                         *)
(* UnreadCounts, for any rooms, receipts, changes, faults and restarts:    *)
(* what is counted, kept, pinned to zero and found to be gone.             *)
(***************************************************************************)
EXTENDS Integers, Sequences, FiniteSets, FiniteSetTheorems, SequenceTheorems,
        NaturalsInduction, WellFoundedInduction, TLAPS

CONSTANTS Events, MegolmOf, RoomOf, Backup, AlwaysAll, Faults, MaxDeliveries, MaxRetries,
          MaxCrashes

CONSTANTS Types, SdkTypes, SuppTypes, DisplayTypes, NumEvents, TypeOf, Ts, Forbidden,
          MaxRedactions, MaxResets, Lossy, Failing

VARIABLES events, marked, keys, stream, listening, worker, deliveries, retries, crashes, swept

VARIABLES sent, redacted, sdk, synced, noted, polled, resets, inbox, job, tuples, log, summary,
          ingest, hint, work, dirty

CONSTANTS Rooms, Senders, MaxCount, MaxChanges, MaxSends, MaxFaults, MaxRestarts, Happenings,
          ProbesPerSweep, Concurrency, Stubborn, SeedFails, Flaky, LostAcks

VARIABLES infos, loaded, served, changes, upd, send, sends, suspects, goneRows, counts, told,
          last, gone, watch, captures, faults, restarts, left, pinned, ok, overtaken

\* The rows without content, the keys and the tasks that try them.
Timeline == INSTANCE Redecrypt WITH SessionOf <- MegolmOf, row <- events

\* The state of a room, and its unread counts. The three share no state.
Projection == INSTANCE StateProjection WITH Faults <- Failing, row <- tuples

Unread == INSTANCE UnreadCounts WITH Kinds <- Happenings, room <- infos, row <- counts,
  cap <- captures, late <- overtaken

-----------------------------------------------------------------------------
(* Re-decryption                                                             *)

LEMMA SameSize == \A S : Timeline!Cardinality(S) = Cardinality(S)
  BY Zenon DEF Timeline!Cardinality, Cardinality

WorkRecords == [pc : Timeline!Steps, todo : SUBSET Events, tried : SUBSET Events, room : SUBSET Timeline!Rooms,
                ev : SUBSET Events, clear : BOOLEAN, cut : BOOLEAN]

RedecryptTypes ==
  /\ events \in [Events -> {"none", "clear", "live", "backfill"}]
  /\ marked \subseteq swept /\ swept \subseteq Events
  /\ keys \subseteq Timeline!Sessions /\ stream \in Seq(Timeline!Sessions) /\ listening \in BOOLEAN
  /\ worker \in [Timeline!Workers -> WorkRecords]
  /\ deliveries \in [Events -> 0..MaxDeliveries]
  /\ retries \in 0..MaxRetries /\ crashes \in 0..MaxCrashes

\* A worker that decrypts or writes has one event in hand.
InHand ==
  \A w \in Timeline!Workers : worker[w].pc \in {"write", "decrypt", "update"} =>
    \E e \in Events : worker[w].ev = {e}

\* Only the operator's sweep is cut short, and a startup sweep records what it tries.
Uncut == \A w \in Timeline!Workers : w # "retry" => worker[w].cut = FALSE
TriedIsSwept == worker["startup"].tried \subseteq swept

RedecryptInv == RedecryptTypes /\ InHand /\ Uncut /\ TriedIsSwept

LEMMA IdleWorks ==
  /\ Timeline!Idle \in WorkRecords
  /\ Timeline!Idle.pc = "idle" /\ Timeline!Idle.todo = {} /\ Timeline!Idle.tried = {} /\ Timeline!Idle.ev = {}
  /\ Timeline!Idle.clear = FALSE /\ Timeline!Idle.cut = FALSE /\ Timeline!Idle.room = {}
  BY DEF Timeline!Idle, WorkRecords, Timeline!Steps

LEMMA WorkFields ==
  ASSUME NEW r \in WorkRecords
  PROVE  /\ r.pc \in Timeline!Steps /\ r.todo \in SUBSET Events /\ r.tried \in SUBSET Events
         /\ r.room \in SUBSET Timeline!Rooms /\ r.ev \in SUBSET Events
         /\ r.clear \in BOOLEAN /\ r.cut \in BOOLEAN
  BY DEF WorkRecords

\* The event in hand.
LEMMA EventInHand ==
  ASSUME RedecryptInv, NEW w \in Timeline!Workers, worker[w].pc \in {"write", "decrypt",
         "update"}
  PROVE  Timeline!EventOf(w) \in Events /\ worker[w].ev = {Timeline!EventOf(w)}
<1>1. PICK e \in Events : worker[w].ev = {e}
  BY DEF RedecryptInv, InHand
<1>2. Timeline!EventOf(w) \in {e}
  BY <1>1 DEF Timeline!EventOf
<1> QED
  BY <1>1, <1>2

\* A worker moves and the rest of the bookkeeping keeps its types.
LEMMA WorkerMoves ==
  ASSUME RedecryptInv, NEW w \in Timeline!Workers, NEW r \in WorkRecords, Timeline!Set(w, r),
         r.pc \in {"write", "decrypt", "update"} => \E e \in Events : r.ev = {e},
         w # "retry" => r.cut = FALSE,
         w = "startup" => r.tried \subseteq swept',
         swept \subseteq swept', swept' \subseteq Events, marked' \subseteq swept',
         events' \in [Events -> {"none", "clear", "live", "backfill"}],
         keys' \subseteq Timeline!Sessions, stream' \in Seq(Timeline!Sessions), listening' \in BOOLEAN,
         deliveries' \in [Events -> 0..MaxDeliveries],
         retries' \in 0..MaxRetries, crashes' \in 0..MaxCrashes
  PROVE  RedecryptInv'
<1>1. worker' = [worker EXCEPT ![w] = r]
  BY DEF Timeline!Set
<1>2. worker \in [Timeline!Workers -> WorkRecords]
  BY DEF RedecryptInv, RedecryptTypes
<1>3. worker' \in [Timeline!Workers -> WorkRecords]
      /\ \A u \in Timeline!Workers : worker'[u] = IF u = w THEN r ELSE worker[u]
  BY <1>1, <1>2
<1>4. RedecryptTypes'
  BY <1>3 DEF RedecryptTypes
<1>5. InHand'
  BY <1>3 DEF RedecryptInv, InHand
<1>6. Uncut'
  BY <1>3 DEF RedecryptInv, Uncut
<1>7. TriedIsSwept'
  BY <1>3 DEF RedecryptInv, TriedIsSwept, Timeline!Workers, Timeline!Sweeps
<1> QED
  BY <1>4, <1>5, <1>6, <1>7 DEF RedecryptInv

\* The usual case: only the worker and the rows change.
LEMMA WorkerOnly ==
  ASSUME RedecryptInv, NEW w \in Timeline!Workers, NEW r \in WorkRecords, Timeline!Set(w, r),
         r.pc \in {"write", "decrypt", "update"} => \E e \in Events : r.ev = {e},
         w # "retry" => r.cut = FALSE,
         w = "startup" => r.tried \subseteq swept,
         events' \in [Events -> {"none", "clear", "live", "backfill"}],
         UNCHANGED <<marked, keys, stream, listening, swept>>, UNCHANGED Timeline!bounds
  PROVE  RedecryptInv'
<1>1. /\ swept \subseteq swept' /\ swept' \subseteq Events /\ marked' \subseteq swept'
      /\ keys' \subseteq Timeline!Sessions /\ stream' \in Seq(Timeline!Sessions) /\ listening' \in BOOLEAN
      /\ deliveries' \in [Events -> 0..MaxDeliveries]
      /\ retries' \in 0..MaxRetries /\ crashes' \in 0..MaxCrashes
  BY DEF RedecryptInv, RedecryptTypes, Timeline!bounds
<1> QED
  BY <1>1, WorkerMoves

\* The worker's record, before a step.
LEMMA WorkerNow ==
  ASSUME RedecryptInv, NEW w \in Timeline!Workers
  PROVE  /\ worker[w] \in WorkRecords
         /\ worker[w].pc \in Timeline!Steps /\ worker[w].todo \subseteq Events
         /\ worker[w].tried \subseteq Events /\ worker[w].room \subseteq Timeline!Rooms
         /\ worker[w].ev \subseteq Events /\ worker[w].clear \in BOOLEAN
         /\ worker[w].cut \in BOOLEAN /\ (w # "retry" => worker[w].cut = FALSE)
         /\ (w = "startup" => worker[w].tried \subseteq swept)
<1>1. worker[w] \in WorkRecords
  BY DEF RedecryptInv, RedecryptTypes
<1> QED
  BY <1>1, WorkFields DEF RedecryptInv, Uncut, TriedIsSwept

\* Sessions that are new are announced, each once: the arrivals are those sessions.
LEMMA Imported ==
  ASSUME RedecryptInv, IsFiniteSet(Timeline!Sessions), NEW S \in SUBSET Timeline!Sessions,
         Timeline!Import(S)
  PROVE  /\ keys' = keys \cup S /\ keys' \subseteq Timeline!Sessions /\ stream' \in Seq(Timeline!Sessions)
         /\ \E s \in Seq(Timeline!Sessions) :
              /\ stream' = IF listening THEN stream \o s ELSE stream
              /\ \A x \in S \ keys : \E i \in DOMAIN s : s[i] = x
<1>1. PICK s \in [1..Cardinality(S \ keys) -> S \ keys] :
        /\ \A i, j \in DOMAIN s : s[i] = s[j] => i = j
        /\ stream' = IF listening THEN stream \o s ELSE stream
  BY SameSize DEF Timeline!Import
<1>2. keys' = keys \cup S /\ keys' \subseteq Timeline!Sessions /\ stream \in Seq(Timeline!Sessions)
  BY DEF Timeline!Import, RedecryptInv, RedecryptTypes
<1> DEFINE T == S \ keys
<1>3. IsFiniteSet(T) /\ Cardinality(T) \in Nat
  BY FS_Subset, FS_CardinalityType
<1>4. s \in Seq(Timeline!Sessions)
  <2>1. s \in [1..Cardinality(T) -> Timeline!Sessions]
    BY <1>1
  <2> QED
    BY <1>3, <2>1, SeqDef
<1>5. ASSUME NEW x \in T PROVE \E i \in DOMAIN s : s[i] = x
  <2>1. s \in Injection(1..Cardinality(T), T)
    BY <1>1 DEF Injection, IsInjective
  <2>2. Cardinality(1..Cardinality(T)) = Cardinality(T)
    BY <1>3, FS_Interval
  <2>3. s \in Surjection(1..Cardinality(T), T)
    BY <1>3, <2>1, <2>2, FS_Injection
  <2> QED
    BY <2>3, <1>5 DEF Surjection
<1>6. stream' \in Seq(Timeline!Sessions)
  BY <1>1, <1>2, <1>4
<1> QED
  BY <1>1, <1>2, <1>4, <1>5, <1>6

\* Ingestion.
LEMMA ReceiveKeeps ==
  ASSUME Timeline!RedecryptAssumption, RedecryptInv, NEW w \in Timeline!Ingest,
         Timeline!Receive(w)
  PROVE  RedecryptInv'
<1>1. PICK e \in Events :
        /\ deliveries[e] < MaxDeliveries
        /\ deliveries' = [deliveries EXCEPT ![e] = @ + 1]
        /\ Timeline!Set(w, [Timeline!Idle EXCEPT !.pc = "write", !.ev = {e}, !.clear = Timeline!Keyed(e)])
  BY DEF Timeline!Receive
<1>2. UNCHANGED <<events, marked, keys, stream, listening, retries, crashes, swept>>
  BY DEF Timeline!Receive
<1>3. PICK r : r = [Timeline!Idle EXCEPT !.pc = "write", !.ev = {e}, !.clear = Timeline!Keyed(e)]
  OBVIOUS
<1>4. Timeline!Keyed(e) \in BOOLEAN
  BY DEF Timeline!Keyed
<1>5. /\ r \in WorkRecords /\ r.pc = "write" /\ r.ev = {e} /\ r.cut = FALSE /\ r.tried = {}
  BY <1>3, <1>4 DEF Timeline!Idle, WorkRecords, Timeline!Steps
<1>6. deliveries' \in [Events -> 0..MaxDeliveries]
  BY <1>1 DEF RedecryptInv, RedecryptTypes, Timeline!RedecryptAssumption
<1>7. w \in Timeline!Workers
  BY DEF Timeline!Workers
<1>8. /\ swept \subseteq swept' /\ swept' \subseteq Events /\ marked' \subseteq swept'
      /\ keys' \subseteq Timeline!Sessions /\ stream' \in Seq(Timeline!Sessions) /\ listening' \in BOOLEAN
      /\ events' \in [Events -> {"none", "clear", "live", "backfill"}]
      /\ retries' \in 0..MaxRetries /\ crashes' \in 0..MaxCrashes
  BY <1>2 DEF RedecryptInv, RedecryptTypes
<1> QED
  BY <1>1, <1>3, <1>5, <1>6, <1>7, <1>8, WorkerMoves

LEMMA PersistKeeps ==
  ASSUME RedecryptInv, NEW w \in Timeline!Ingest, Timeline!Persist(w)
  PROVE  RedecryptInv'
<1>1. w \in Timeline!Workers /\ w # "retry" /\ w # "startup"
  BY DEF Timeline!Workers, Timeline!Ingest
<1>2. PICK p : p = worker[w]
  OBVIOUS
<1>3. p \in WorkRecords /\ p.cut = FALSE /\ p.pc = "write"
  BY <1>1, <1>2, WorkerNow DEF Timeline!Persist
<1>4. Timeline!EventOf(w) \in Events /\ p.ev = {Timeline!EventOf(w)}
  BY <1>1, <1>2, <1>3, EventInHand
<1>5. UNCHANGED <<marked, keys, stream, listening, swept>> /\ UNCHANGED Timeline!bounds
  BY DEF Timeline!Persist
<1>6. events' \in [Events -> {"none", "clear", "live", "backfill"}]
  <2>1. events \in [Events -> {"none", "clear", "live", "backfill"}]
    BY DEF RedecryptInv, RedecryptTypes
  <2>2. events' = events \/ \E v \in {"clear", "live", "backfill"} : events' = [events EXCEPT ![Timeline!EventOf(w)] = v]
    BY DEF Timeline!Persist, Timeline!Upsert, Timeline!Ingest
  <2> QED
    BY <1>4, <2>1, <2>2
<1>7. Timeline!Set(w, Timeline!Idle) \/ Timeline!Set(w, [p EXCEPT !.pc = "decrypt"])
  BY <1>2 DEF Timeline!Persist
<1>8. CASE Timeline!Set(w, Timeline!Idle)
  BY <1>1, <1>5, <1>6, <1>8, IdleWorks, WorkerOnly
<1>9. CASE Timeline!Set(w, [p EXCEPT !.pc = "decrypt"])
  <2>1. PICK r : r = [p EXCEPT !.pc = "decrypt"]
    OBVIOUS
  <2>2. r \in WorkRecords /\ r.pc = "decrypt" /\ r.ev = p.ev /\ r.cut = FALSE
    BY <1>3, <2>1 DEF WorkRecords, Timeline!Steps
  <2> QED
    BY <1>1, <1>4, <1>5, <1>6, <1>9, <2>1, <2>2, WorkerOnly
<1> QED
  BY <1>7, <1>8, <1>9

\* redecrypt_one.
LEMMA DecryptKeeps ==
  ASSUME RedecryptInv, NEW w \in Timeline!Workers, Timeline!Decrypt(w)
  PROVE  RedecryptInv'
<1>1. PICK p : p = worker[w]
  OBVIOUS
<1>2. /\ p \in WorkRecords /\ p.pc = "decrypt" /\ (w # "retry" => p.cut = FALSE)
      /\ (w = "startup" => p.tried \subseteq swept)
  BY <1>1, WorkerNow DEF Timeline!Decrypt
<1>3. Timeline!EventOf(w) \in Events /\ p.ev = {Timeline!EventOf(w)}
  BY <1>1, <1>2, EventInHand
<1>4. PICK r : r = [p EXCEPT !.pc = "update", !.clear = Timeline!Keyed(Timeline!EventOf(w))]
  OBVIOUS
<1>5. /\ r \in WorkRecords /\ r.pc = "update" /\ r.ev = p.ev /\ r.cut = p.cut
      /\ r.tried = p.tried
  <2>1. Timeline!Keyed(Timeline!EventOf(w)) \in BOOLEAN
    BY DEF Timeline!Keyed
  <2> QED
    BY <1>2, <1>4, <2>1 DEF WorkRecords, Timeline!Steps
<1>6. /\ Timeline!Set(w, r) /\ UNCHANGED events
      /\ UNCHANGED <<marked, keys, stream, listening, swept>> /\ UNCHANGED Timeline!bounds
  BY <1>1, <1>4 DEF Timeline!Decrypt
<1>7. events' \in [Events -> {"none", "clear", "live", "backfill"}]
  BY <1>6 DEF RedecryptInv, RedecryptTypes
<1> QED
  BY <1>2, <1>3, <1>5, <1>6, <1>7, WorkerOnly

LEMMA FollowingWorks ==
  ASSUME RedecryptInv, NEW w \in Timeline!Workers
  PROVE  LET r == Timeline!Following(w)
         IN  /\ r \in WorkRecords /\ r.pc \in {"idle", "rows"}
             /\ (w # "retry" => r.cut = FALSE)
             /\ (w = "startup" => r.tried \subseteq swept)
             /\ (w # "live" => r.pc = "rows" /\ r.todo = worker[w].todo)
<1>1. PICK p : p = worker[w]
  OBVIOUS
<1>2. /\ p \in WorkRecords /\ (w # "retry" => p.cut = FALSE)
      /\ (w = "startup" => p.tried \subseteq swept)
  BY <1>1, WorkerNow
<1>3. CASE w = "live"
  BY <1>3, IdleWorks DEF Timeline!Following
<1>4. CASE w # "live"
  <2>1. PICK r : r = [p EXCEPT !.pc = "rows", !.ev = {}, !.clear = FALSE]
    OBVIOUS
  <2>2. r \in WorkRecords /\ r.pc = "rows" /\ r.cut = p.cut /\ r.tried = p.tried /\ r.todo = p.todo
    BY <1>2, <2>1 DEF WorkRecords, Timeline!Steps
  <2>3. Timeline!Following(w) = r
    BY <1>1, <1>4, <2>1 DEF Timeline!Following
  <2> QED
    BY <1>1, <1>2, <1>4, <2>2, <2>3
<1> QED
  BY <1>3, <1>4

LEMMA UpdateKeeps ==
  ASSUME RedecryptInv, NEW w \in Timeline!Workers, Timeline!Update(w)
  PROVE  RedecryptInv'
<1>1. worker[w].pc = "update"
  BY DEF Timeline!Update
<1>2. Timeline!EventOf(w) \in Events
  BY <1>1, EventInHand
<1>3. /\ Timeline!Set(w, Timeline!Following(w))
      /\ UNCHANGED <<marked, keys, stream, listening, swept>> /\ UNCHANGED Timeline!bounds
      /\ events' = events \/ events' = [events EXCEPT ![Timeline!EventOf(w)] = "clear"]
  BY DEF Timeline!Update
<1>4. events' \in [Events -> {"none", "clear", "live", "backfill"}]
  <2>1. events \in [Events -> {"none", "clear", "live", "backfill"}]
    BY DEF RedecryptInv, RedecryptTypes
  <2> QED
    BY <1>2, <1>3, <2>1
<1>5. PICK r : r = Timeline!Following(w)
  OBVIOUS
<1>6. /\ r \in WorkRecords /\ r.pc \in {"idle", "rows"}
      /\ (w # "retry" => r.cut = FALSE) /\ (w = "startup" => r.tried \subseteq swept)
  BY <1>5, FollowingWorks
<1> QED
  BY <1>3, <1>4, <1>5, <1>6, WorkerOnly

\* The drain and the sweeps.
LEMMA DrainKeeps ==
  ASSUME RedecryptInv, Timeline!Drain
  PROVE  RedecryptInv'
<1>1. "drain" \in Timeline!Workers
  BY DEF Timeline!Workers
<1>2. PICK T : T = {e \in Events : Timeline!Utd(e) /\ MegolmOf[e] = Head(stream)}
  OBVIOUS
<1>3. /\ stream # <<>> /\ stream' = Tail(stream)
      /\ UNCHANGED <<events, marked, keys, listening, swept>> /\ UNCHANGED Timeline!bounds
      /\ Timeline!Set("drain", [Timeline!Idle EXCEPT !.pc = "rows", !.todo = T]) \/ UNCHANGED worker
  BY <1>2 DEF Timeline!Drain
<1>4. stream' \in Seq(Timeline!Sessions)
  BY <1>3 DEF RedecryptInv, RedecryptTypes
<1>5. /\ swept \subseteq swept' /\ swept' \subseteq Events /\ marked' \subseteq swept'
      /\ keys' \subseteq Timeline!Sessions /\ listening' \in BOOLEAN
      /\ events' \in [Events -> {"none", "clear", "live", "backfill"}]
      /\ deliveries' \in [Events -> 0..MaxDeliveries]
      /\ retries' \in 0..MaxRetries /\ crashes' \in 0..MaxCrashes
  BY <1>3 DEF RedecryptInv, RedecryptTypes, Timeline!bounds
<1>6. CASE Timeline!Set("drain", [Timeline!Idle EXCEPT !.pc = "rows", !.todo = T])
  <2>1. PICK r : r = [Timeline!Idle EXCEPT !.pc = "rows", !.todo = T]
    OBVIOUS
  <2>2. r \in WorkRecords /\ r.pc = "rows" /\ r.cut = FALSE
    BY <1>2, <2>1 DEF Timeline!Idle, WorkRecords, Timeline!Steps
  <2> QED
    BY <1>1, <1>4, <1>5, <1>6, <2>1, <2>2, WorkerMoves
<1>7. CASE UNCHANGED worker
  BY <1>3, <1>4, <1>5, <1>7
     DEF RedecryptInv, RedecryptTypes, InHand, Uncut, TriedIsSwept
<1> QED
  BY <1>3, <1>6, <1>7

LEMMA RetryKeeps ==
  ASSUME Timeline!RedecryptAssumption, RedecryptInv, Timeline!Retry
  PROVE  RedecryptInv'
<1>1. "retry" \in Timeline!Workers
  BY DEF Timeline!Workers, Timeline!Sweeps
<1>2. /\ retries < MaxRetries /\ retries' = retries + 1
      /\ Timeline!Set("retry", [Timeline!Idle EXCEPT !.pc = "load"])
      /\ UNCHANGED <<events, marked, keys, stream, listening, deliveries, crashes, swept>>
  BY DEF Timeline!Retry
<1>3. PICK r : r = [Timeline!Idle EXCEPT !.pc = "load"]
  OBVIOUS
<1>4. r \in WorkRecords /\ r.pc = "load"
  BY <1>3 DEF Timeline!Idle, WorkRecords, Timeline!Steps
<1>5. retries' \in 0..MaxRetries
  BY <1>2 DEF RedecryptInv, RedecryptTypes, Timeline!RedecryptAssumption
<1>6. /\ swept \subseteq swept' /\ swept' \subseteq Events /\ marked' \subseteq swept'
      /\ keys' \subseteq Timeline!Sessions /\ listening' \in BOOLEAN /\ stream' \in Seq(Timeline!Sessions)
      /\ events' \in [Events -> {"none", "clear", "live", "backfill"}]
      /\ deliveries' \in [Events -> 0..MaxDeliveries] /\ crashes' \in 0..MaxCrashes
  BY <1>2 DEF RedecryptInv, RedecryptTypes
<1> QED
  BY <1>1, <1>2, <1>3, <1>4, <1>5, <1>6, WorkerMoves

\* The steps of a sweep that touch only its own record.
LEMMA LoadKeeps ==
  ASSUME RedecryptInv, NEW w \in Timeline!Sweeps, Timeline!Load(w)
  PROVE  RedecryptInv'
<1>1. w \in Timeline!Workers
  BY DEF Timeline!Workers
<1>2. /\ \/ Timeline!Set(w, [Timeline!Idle EXCEPT !.pc = "rooms", !.todo = Timeline!Selected(w)])
         \/ Timeline!Set(w, [Timeline!Idle EXCEPT !.pc = "done"])
      /\ UNCHANGED <<events, marked, keys, stream, listening, swept>> /\ UNCHANGED Timeline!bounds
  BY DEF Timeline!Load
<1>3. events' \in [Events -> {"none", "clear", "live", "backfill"}]
  BY <1>2 DEF RedecryptInv, RedecryptTypes
<1>4. Timeline!Selected(w) \subseteq Events
  BY DEF Timeline!Selected
<1>5. PICK r \in {[Timeline!Idle EXCEPT !.pc = "rooms", !.todo = Timeline!Selected(w)],
                  [Timeline!Idle EXCEPT !.pc = "done"]} : Timeline!Set(w, r)
  BY <1>2
<1>6. r \in WorkRecords /\ r.pc \in {"rooms", "done"} /\ r.cut = FALSE /\ r.tried = {}
  BY <1>4, <1>5 DEF Timeline!Idle, WorkRecords, Timeline!Steps
<1> QED
  BY <1>1, <1>2, <1>3, <1>5, <1>6, WorkerOnly

LEMMA TimeoutKeeps ==
  ASSUME RedecryptInv, Timeline!Timeout
  PROVE  RedecryptInv'
<1>1. "retry" \in Timeline!Workers
  BY DEF Timeline!Workers, Timeline!Sweeps
<1>2. PICK p : p = worker["retry"]
  OBVIOUS
<1>3. p \in WorkRecords /\ p.pc \in Timeline!Steps
  BY <1>1, <1>2, WorkerNow
<1>4. PICK r : r = [p EXCEPT !.cut = TRUE]
  OBVIOUS
<1>5. r \in WorkRecords /\ r.pc = p.pc /\ r.ev = p.ev
  BY <1>3, <1>4 DEF WorkRecords
<1>6. /\ Timeline!Set("retry", r)
      /\ UNCHANGED <<events, marked, keys, stream, listening, swept>> /\ UNCHANGED Timeline!bounds
  BY <1>2, <1>4 DEF Timeline!Timeout
<1>7. events' \in [Events -> {"none", "clear", "live", "backfill"}]
  BY <1>6 DEF RedecryptInv, RedecryptTypes
<1>8. r.pc \in {"write", "decrypt", "update"} => \E e \in Events : r.ev = {e}
  BY <1>1, <1>2, <1>5 DEF RedecryptInv, InHand
<1> QED
  BY <1>1, <1>5, <1>6, <1>7, <1>8, WorkerOnly

LEMMA EnterRoomKeeps ==
  ASSUME RedecryptInv, IsFiniteSet(Timeline!Sessions), NEW w \in Timeline!Sweeps,
         Timeline!EnterRoom(w)
  PROVE  RedecryptInv'
<1>1. w \in Timeline!Workers
  BY DEF Timeline!Workers
<1>2. PICK p : p = worker[w]
  OBVIOUS
<1>3. /\ p \in WorkRecords /\ p.pc = "rooms" /\ (w # "retry" => p.cut = FALSE)
      /\ (w = "startup" => p.tried \subseteq swept)
  BY <1>1, <1>2, WorkerNow DEF Timeline!EnterRoom
<1>4. PICK x \in Timeline!Rooms :
        \/ /\ Timeline!Import({s \in Backup : \E e \in Events : RoomOf[e] = x /\ MegolmOf[e] = s})
           /\ Timeline!Set(w, [p EXCEPT !.pc = "rows", !.room = {x}])
        \/ /\ Timeline!Set(w, [p EXCEPT !.pc = "rows", !.room = {x}])
           /\ UNCHANGED <<keys, stream>>
        \/ /\ Timeline!Set(w, [p EXCEPT !.todo = p.todo \ Timeline!RowsIn(w, x)])
           /\ UNCHANGED <<keys, stream>>
  BY <1>2 DEF Timeline!EnterRoom
<1>5. UNCHANGED <<events, marked, listening, swept>> /\ UNCHANGED Timeline!bounds
  BY DEF Timeline!EnterRoom
<1>6. {s \in Backup : \E e \in Events : RoomOf[e] = x /\ MegolmOf[e] = s} \in SUBSET Timeline!Sessions
  BY DEF Timeline!Sessions
<1>7. keys' \subseteq Timeline!Sessions /\ stream' \in Seq(Timeline!Sessions)
  <2>1. keys \subseteq Timeline!Sessions /\ stream \in Seq(Timeline!Sessions)
    BY DEF RedecryptInv, RedecryptTypes
  <2> QED
    BY <1>4, <1>6, <2>1, Imported
<1>8. PICK r \in {[p EXCEPT !.pc = "rows", !.room = {x}], [p EXCEPT !.todo = p.todo \ Timeline!RowsIn(w, x)]} :
        Timeline!Set(w, r)
  BY <1>4
<1>9. r \in WorkRecords /\ r.pc \in {"rooms", "rows"} /\ r.cut = p.cut /\ r.tried = p.tried
  <2>1. CASE r = [p EXCEPT !.pc = "rows", !.room = {x}]
    BY <1>3, <2>1 DEF WorkRecords, Timeline!Steps
  <2>2. CASE r = [p EXCEPT !.todo = p.todo \ Timeline!RowsIn(w, x)]
    <3>1. PICK T : T = p.todo \ Timeline!RowsIn(w, x)
      OBVIOUS
    <3>2. T \in SUBSET Events
      BY <1>3, <3>1, WorkFields
    <3>3. r = [p EXCEPT !.todo = T]
      BY <2>2, <3>1
    <3> QED
      BY <1>3, <3>2, <3>3 DEF WorkRecords
  <2> QED
    BY <1>8, <2>1, <2>2
<1>10. /\ swept \subseteq swept' /\ swept' \subseteq Events /\ marked' \subseteq swept'
       /\ listening' \in BOOLEAN
       /\ events' \in [Events -> {"none", "clear", "live", "backfill"}]
       /\ deliveries' \in [Events -> 0..MaxDeliveries]
       /\ retries' \in 0..MaxRetries /\ crashes' \in 0..MaxCrashes
  BY <1>5 DEF RedecryptInv, RedecryptTypes, Timeline!bounds
<1> QED
  BY <1>1, <1>3, <1>7, <1>8, <1>9, <1>10, <1>5, WorkerMoves

LEMMA TakeRowKeeps ==
  ASSUME RedecryptInv, NEW w \in Timeline!Workers, Timeline!TakeRow(w)
  PROVE  RedecryptInv'
<1>1. PICK p : p = worker[w]
  OBVIOUS
<1>2. /\ p \in WorkRecords /\ p.pc = "rows" /\ (w # "retry" => p.cut = FALSE)
      /\ (w = "startup" => p.tried \subseteq swept)
  BY <1>1, WorkerNow DEF Timeline!TakeRow
<1>3. PICK e \in Timeline!Within(w) :
        /\ Timeline!Set(w, [p EXCEPT !.pc = "decrypt", !.ev = {e}, !.todo = p.todo \ {e},
                            !.tried = IF w = "startup" THEN p.tried \cup {e} ELSE p.tried])
        /\ swept' = IF w = "startup" THEN swept \cup {e} ELSE swept
  BY <1>1 DEF Timeline!TakeRow
<1>4. e \in p.todo /\ e \in Events
  BY <1>1, <1>2, <1>3, WorkFields DEF Timeline!Within, Timeline!RowsIn
<1>5. PICK r : r = [p EXCEPT !.pc = "decrypt", !.ev = {e}, !.todo = p.todo \ {e},
                             !.tried = IF w = "startup" THEN p.tried \cup {e} ELSE p.tried]
  OBVIOUS
<1>6. /\ r \in WorkRecords /\ r.ev = {e} /\ r.cut = p.cut
      /\ r.tried = IF w = "startup" THEN p.tried \cup {e} ELSE p.tried
  BY <1>2, <1>4, <1>5 DEF WorkRecords, Timeline!Steps
<1>7. UNCHANGED <<events, marked, keys, stream, listening>> /\ UNCHANGED Timeline!bounds
  BY DEF Timeline!TakeRow
<1>8. swept \subseteq swept' /\ swept' \subseteq Events /\ (w = "startup" => r.tried \subseteq swept')
  BY <1>2, <1>3, <1>4, <1>6 DEF RedecryptInv, RedecryptTypes
<1>9. /\ marked' \subseteq swept' /\ listening' \in BOOLEAN
      /\ keys' \subseteq Timeline!Sessions /\ stream' \in Seq(Timeline!Sessions)
      /\ events' \in [Events -> {"none", "clear", "live", "backfill"}]
      /\ deliveries' \in [Events -> 0..MaxDeliveries]
      /\ retries' \in 0..MaxRetries /\ crashes' \in 0..MaxCrashes
  BY <1>7, <1>8 DEF RedecryptInv, RedecryptTypes, Timeline!bounds
<1> QED
  BY <1>2, <1>3, <1>4, <1>5, <1>6, <1>8, <1>9, WorkerMoves

LEMMA LeavesKeep ==
  ASSUME RedecryptInv, NEW w \in Timeline!Workers, Timeline!LeaveRows(w) \/ Timeline!EndSweep(w)
  PROVE  RedecryptInv'
<1>1. PICK p : p = worker[w]
  OBVIOUS
<1>2. /\ p \in WorkRecords /\ (w # "retry" => p.cut = FALSE)
      /\ (w = "startup" => p.tried \subseteq swept)
  BY <1>1, WorkerNow
<1>3. /\ UNCHANGED <<events, marked, keys, stream, listening, swept>> /\ UNCHANGED Timeline!bounds
  BY DEF Timeline!LeaveRows, Timeline!EndSweep
<1>4. events' \in [Events -> {"none", "clear", "live", "backfill"}]
  BY <1>3 DEF RedecryptInv, RedecryptTypes
<1>5. PICK r \in {Timeline!Idle, [p EXCEPT !.pc = "rooms", !.room = {}],
                  [p EXCEPT !.pc = "mark", !.todo = {}], [p EXCEPT !.pc = "done", !.todo = {}]} :
        Timeline!Set(w, r)
  <2>1. CASE Timeline!LeaveRows(w)
    BY <1>1, <2>1 DEF Timeline!LeaveRows
  <2>2. CASE Timeline!EndSweep(w)
    BY <1>1, <2>2 DEF Timeline!EndSweep
  <2> QED
    BY <2>1, <2>2
<1>6. /\ r \in WorkRecords /\ r.pc \in {"idle", "rooms", "mark", "done"}
      /\ (w # "retry" => r.cut = FALSE) /\ (w = "startup" => r.tried \subseteq swept)
  <2>1. CASE r = Timeline!Idle
    BY <2>1, IdleWorks
  <2>2. CASE r # Timeline!Idle
    <3>1. r \in WorkRecords /\ r.pc \in {"idle", "rooms", "mark", "done"}
          /\ r.cut = p.cut /\ r.tried = p.tried
      BY <1>2, <1>5, <2>2 DEF WorkRecords, Timeline!Steps
    <3> QED
      BY <1>2, <3>1
  <2> QED
    BY <2>1, <2>2
<1> QED
  BY <1>3, <1>4, <1>5, <1>6, WorkerOnly

LEMMA MarkKeeps ==
  ASSUME RedecryptInv, Timeline!Mark
  PROVE  RedecryptInv'
<1>1. "startup" \in Timeline!Workers
  BY DEF Timeline!Workers, Timeline!Sweeps
<1>2. /\ Timeline!Set("startup", [Timeline!Idle EXCEPT !.pc = "done"])
      /\ UNCHANGED <<events, keys, stream, listening, swept>> /\ UNCHANGED Timeline!bounds
      /\ marked' \subseteq marked \cup Timeline!Attempted
  BY DEF Timeline!Mark
<1>3. PICK r : r = [Timeline!Idle EXCEPT !.pc = "done"]
  OBVIOUS
<1>4. r \in WorkRecords /\ r.pc = "done" /\ r.cut = FALSE /\ r.tried = {}
  BY <1>3 DEF Timeline!Idle, WorkRecords, Timeline!Steps
<1>5. marked' \subseteq swept'
  BY <1>2 DEF RedecryptInv, RedecryptTypes, TriedIsSwept, Timeline!Attempted
<1>6. /\ swept \subseteq swept' /\ swept' \subseteq Events
      /\ listening' \in BOOLEAN /\ keys' \subseteq Timeline!Sessions /\ stream' \in Seq(Timeline!Sessions)
      /\ events' \in [Events -> {"none", "clear", "live", "backfill"}]
      /\ deliveries' \in [Events -> 0..MaxDeliveries]
      /\ retries' \in 0..MaxRetries /\ crashes' \in 0..MaxCrashes
  BY <1>2 DEF RedecryptInv, RedecryptTypes, Timeline!bounds
<1> QED
  BY <1>1, <1>2, <1>3, <1>4, <1>5, <1>6, WorkerMoves

\* What a run of the sync task starts with.
Booted == [w \in Timeline!Workers |-> IF w = "startup" THEN [Timeline!Idle EXCEPT !.pc = "load"] ELSE Timeline!Idle]

LEMMA BootedWorks ==
  /\ Booted \in [Timeline!Workers -> WorkRecords]
  /\ \A w \in Timeline!Workers : /\ Booted[w].pc \in {"idle", "load"} /\ Booted[w].cut = FALSE
                        /\ Booted[w].tried = {}
  /\ Booted["startup"].pc = "load"
<1>1. PICK r : r = [Timeline!Idle EXCEPT !.pc = "load"]
  OBVIOUS
<1>2. r \in WorkRecords /\ r.pc = "load" /\ r.cut = FALSE /\ r.tried = {}
  BY <1>1 DEF Timeline!Idle, WorkRecords, Timeline!Steps
<1>3. \A w \in Timeline!Workers : Booted[w] = IF w = "startup" THEN r ELSE Timeline!Idle
  BY <1>1 DEF Booted
<1>4. Booted \in [Timeline!Workers -> WorkRecords]
  BY <1>1, <1>2, IdleWorks DEF Booted
<1>5. "startup" \in Timeline!Workers
  BY DEF Timeline!Workers, Timeline!Sweeps
<1> QED
  BY <1>2, <1>3, <1>4, <1>5, IdleWorks

LEMMA RestartKeeps ==
  ASSUME Timeline!RedecryptAssumption, RedecryptInv, Timeline!Restart
  PROVE  RedecryptInv'
<1>1. /\ crashes < MaxCrashes /\ crashes' = crashes + 1
      /\ stream' = <<>> /\ listening' = Timeline!Listens /\ worker' = Booted
      /\ UNCHANGED <<events, marked, keys, deliveries, retries, swept>>
  BY DEF Timeline!Restart, Booted
<1>2. crashes' \in 0..MaxCrashes /\ stream' \in Seq(Timeline!Sessions) /\ listening' \in BOOLEAN
  BY <1>1 DEF RedecryptInv, RedecryptTypes, Timeline!RedecryptAssumption, Timeline!Listens
<1>3. RedecryptTypes'
  BY <1>1, <1>2, BootedWorks DEF RedecryptInv, RedecryptTypes
<1>4. InHand' /\ Uncut' /\ TriedIsSwept'
  BY <1>1, BootedWorks DEF InHand, Uncut, TriedIsSwept, Timeline!Workers, Timeline!Sweeps
<1> QED
  BY <1>3, <1>4 DEF RedecryptInv

\* Keys arrive, the drain subscribes, the stream skips.
LEMMA StreamKeeps ==
  ASSUME RedecryptInv, IsFiniteSet(Timeline!Sessions),
         Timeline!KeyArrives \/ Timeline!Subscribe \/ Timeline!Lag
  PROVE  RedecryptInv'
<1>1. UNCHANGED <<events, marked, worker, swept>> /\ UNCHANGED Timeline!bounds
  BY DEF Timeline!KeyArrives, Timeline!Subscribe, Timeline!Lag
<1>2. keys' \subseteq Timeline!Sessions /\ stream' \in Seq(Timeline!Sessions) /\ listening' \in BOOLEAN
  <2>1. keys \subseteq Timeline!Sessions /\ stream \in Seq(Timeline!Sessions) /\ listening \in BOOLEAN
    BY DEF RedecryptInv, RedecryptTypes
  <2>2. CASE Timeline!KeyArrives
    <3>1. PICK s \in Timeline!Sessions : Timeline!Import({s})
      BY <2>2 DEF Timeline!KeyArrives
    <3>2. keys' \subseteq Timeline!Sessions /\ stream' \in Seq(Timeline!Sessions)
      BY <3>1, Imported
    <3>3. listening' = listening
      BY <2>2 DEF Timeline!KeyArrives
    <3> QED
      BY <2>1, <3>2, <3>3
  <2>3. CASE Timeline!Subscribe
    BY <2>1, <2>3 DEF Timeline!Subscribe
  <2>4. CASE Timeline!Lag
    BY <2>1, <2>4 DEF Timeline!Lag
  <2> QED
    BY <2>2, <2>3, <2>4
<1> QED
  BY <1>1, <1>2 DEF RedecryptInv, RedecryptTypes, InHand, Uncut, TriedIsSwept, Timeline!bounds

LEMMA RedecryptNext ==
  ASSUME Timeline!RedecryptAssumption, IsFiniteSet(Timeline!Sessions), RedecryptInv,
         [Timeline!Next]_Timeline!vars
  PROVE  RedecryptInv'
<1>1. ASSUME NEW w \in Timeline!Workers, Timeline!Work(w) PROVE RedecryptInv'
  <2>1. CASE w \in Timeline!Ingest /\ Timeline!Persist(w)
    BY <2>1, PersistKeeps
  <2>2. CASE w \in Timeline!Sweeps /\ Timeline!Load(w)
    BY <2>2, LoadKeeps
  <2>3. CASE w \in Timeline!Sweeps /\ Timeline!EnterRoom(w)
    BY <2>3, EnterRoomKeeps
  <2>4. CASE Timeline!Drain
    BY <2>4, DrainKeeps
  <2>5. CASE Timeline!Mark
    BY <2>5, MarkKeeps
  <2>6. CASE Timeline!Decrypt(w)
    BY <2>6, DecryptKeeps
  <2>7. CASE Timeline!Update(w)
    BY <2>7, UpdateKeeps
  <2>8. CASE Timeline!TakeRow(w)
    BY <2>8, TakeRowKeeps
  <2>9. CASE Timeline!LeaveRows(w) \/ Timeline!EndSweep(w)
    BY <2>9, LeavesKeep
  <2> QED
    BY <1>1, <2>1, <2>2, <2>3, <2>4, <2>5, <2>6, <2>7, <2>8, <2>9 DEF Timeline!Work
<1>2. ASSUME NEW w \in Timeline!Ingest, Timeline!Receive(w) PROVE RedecryptInv'
  BY <1>2, ReceiveKeeps
<1>3. CASE Timeline!KeyArrives \/ Timeline!Subscribe \/ Timeline!Lag
  BY <1>3, StreamKeeps
<1>4. CASE Timeline!Retry
  BY <1>4, RetryKeeps
<1>5. CASE Timeline!Timeout
  BY <1>5, TimeoutKeeps
<1>6. CASE Timeline!Restart
  BY <1>6, RestartKeeps
<1>7. CASE UNCHANGED Timeline!vars
  BY <1>7 DEF Timeline!vars, RedecryptInv, RedecryptTypes, InHand, Uncut, TriedIsSwept
<1> QED
  BY <1>1, <1>2, <1>3, <1>4, <1>5, <1>6, <1>7 DEF Timeline!Next

LEMMA RedecryptStarts ==
  ASSUME Timeline!RedecryptAssumption, Timeline!Init
  PROVE  RedecryptInv
<1>1. /\ events = [e \in Events |-> "none"] /\ marked = {} /\ swept = {}
      /\ keys = {} /\ stream = <<>> /\ listening = Timeline!Listens /\ worker = Booted
      /\ deliveries = [e \in Events |-> 0] /\ retries = 0 /\ crashes = 0
  BY DEF Timeline!Init, Booted
<1>2. Timeline!Listens \in BOOLEAN /\ <<>> \in Seq(Timeline!Sessions)
  BY DEF Timeline!Listens
<1>3. RedecryptTypes
  BY <1>1, <1>2, BootedWorks DEF RedecryptTypes, Timeline!RedecryptAssumption
<1>4. InHand /\ Uncut /\ TriedIsSwept
  BY <1>1, BootedWorks DEF InHand, Uncut, TriedIsSwept, Timeline!Workers, Timeline!Sweeps
<1> QED
  BY <1>3, <1>4 DEF RedecryptInv

LEMMA RedecryptHolds ==
  ASSUME Timeline!RedecryptAssumption, IsFiniteSet(Timeline!Sessions)
  PROVE  Timeline!Spec => []RedecryptInv
<1>1. Timeline!Init => RedecryptInv
  BY RedecryptStarts
<1>2. RedecryptInv /\ [Timeline!Next]_Timeline!vars => RedecryptInv'
  BY RedecryptNext
<1> QED
  BY <1>1, <1>2, PTL DEF Timeline!Spec

\* Rows, keys, arrivals and tasks keep their types, and a task that decrypts or writes has
\* one event in hand, for any faults of the store, the stream and the backup.
THEOREM RedecryptTypeCorrect ==
  ASSUME Timeline!RedecryptAssumption, IsFiniteSet(Timeline!Sessions)
  PROVE  Timeline!Spec => []Timeline!TypeOK
<1>1. ASSUME RedecryptInv PROVE Timeline!TypeOK
  <2>1. ASSUME NEW w \in Timeline!Workers
        PROVE  /\ worker[w].pc \in Timeline!Steps /\ worker[w].ev \subseteq Events
               /\ worker[w].room \subseteq Timeline!Rooms
               /\ worker[w].todo \cup worker[w].tried \subseteq Events
               /\ worker[w].pc \in {"write", "decrypt", "update"} => Cardinality(worker[w].ev) = 1
    BY <1>1, FS_Singleton, WorkerNow, SameSize DEF RedecryptInv, InHand
  <2> QED
    BY <1>1, <2>1, SameSize DEF RedecryptInv, RedecryptTypes, Timeline!TypeOK, Timeline!Ingest
<1> QED
  BY <1>1, RedecryptHolds, PTL

\* A row is marked as attempted by the startup sweep (utd_startup_redecrypt_attempted_at)
\* only if the sweep has tried it, however sweeps, deliveries and restarts interleave: the
\* mark of one sweep never hides a row that it left out from the next.
THEOREM MarkedCorrect ==
  ASSUME Timeline!RedecryptAssumption, IsFiniteSet(Timeline!Sessions)
  PROVE  Timeline!Spec => []Timeline!MarkedWasTried
<1>1. RedecryptInv => Timeline!MarkedWasTried
  BY DEF RedecryptInv, RedecryptTypes, Timeline!MarkedWasTried
<1> QED
  BY <1>1, RedecryptHolds, PTL

\* Content stays: no late delivery without a key, sweep or drain takes the content of a row
\* away once it has been decrypted (the upsert of persist_event and the UPDATE of the
\* re-decryption both keep what is there).
THEOREM ContentCorrect ==
  ASSUME Timeline!RedecryptAssumption, IsFiniteSet(Timeline!Sessions)
  PROVE  Timeline!Spec => Timeline!ContentStays
<1>1. ASSUME RedecryptInv, [Timeline!Next]_Timeline!vars PROVE Timeline!ContentStaysStep
  <2>1. events \in [Events -> {"none", "clear", "live", "backfill"}]
    BY <1>1 DEF RedecryptInv, RedecryptTypes
  <2>2. ASSUME NEW w \in Timeline!Workers,
               w \in Timeline!Ingest /\ Timeline!Persist(w) PROVE Timeline!ContentStaysStep
    BY <2>1, <2>2 DEF Timeline!Persist, Timeline!Upsert, Timeline!ContentStaysStep
  <2>3. ASSUME NEW w \in Timeline!Workers, Timeline!Update(w) PROVE Timeline!ContentStaysStep
    BY <2>1, <2>3 DEF Timeline!Update, Timeline!ContentStaysStep
  <2>4. CASE UNCHANGED events
    BY <2>4 DEF Timeline!ContentStaysStep
  <2> QED
    BY <1>1, <2>2, <2>3, <2>4 DEF Timeline!Next, Timeline!Work, Timeline!Load,
       Timeline!EnterRoom, Timeline!EndSweep, Timeline!Drain, Timeline!Mark, Timeline!Decrypt,
       Timeline!TakeRow, Timeline!LeaveRows, Timeline!Receive, Timeline!KeyArrives,
       Timeline!Subscribe, Timeline!Lag, Timeline!Retry, Timeline!Timeout, Timeline!Restart,
       Timeline!vars
<1> QED
  BY <1>1, RedecryptHolds, PTL DEF Timeline!Spec, Timeline!ContentStays

-----------------------------------------------------------------------------

\* The stream loses nothing and statements succeed; if the sync task may restart, its sweep
\* looks at every row and finds every room.
Reliable ==
  /\ "early" \notin Faults /\ "lag" \notin Faults /\ "db" \notin Faults
  /\ MaxCrashes = 0 \/ (AlwaysAll = TRUE /\ "room" \notin Faults)

\* The worker has the event in hand and will find its key, or still has it before it.
Tries(w, e) ==
  /\ worker[w].ev = {e}
  /\ worker[w].pc = "decrypt" \/ (worker[w].pc = "update" /\ worker[w].clear = TRUE)

WillTry(w, e) ==
  \/ Tries(w, e)
  \/ e \in worker[w].todo /\ worker[w].pc \in {"rooms", "rows", "decrypt", "update"}

Announced(e) == \E i \in DOMAIN stream : stream[i] = MegolmOf[e]

SweepsAll == AlwaysAll = TRUE /\ "room" \notin Faults

\* Somebody will decrypt the event: its key is announced, the drain or the boot's sweep has
\* its row, or live ingestion takes its second look.
Awaited(e) ==
  \/ Announced(e) \/ WillTry("drain", e) \/ Tries("live", e)
  \/ SweepsAll /\ (worker["startup"].pc = "load" \/ WillTry("startup", e))

LiveInv ==
  /\ listening = TRUE
  /\ \A e \in Events : events[e] = "live" /\ Timeline!Keyed(e) => Awaited(e)

LEMMA Names ==
  /\ {"drain", "live", "startup", "retry", "backfill"} \subseteq Timeline!Workers
  BY DEF Timeline!Workers, Timeline!Ingest, Timeline!Sweeps

\* A step of one worker leaves what the others do as it is.
LEMMA OthersTry ==
  ASSUME RedecryptInv, NEW w \in Timeline!Workers, NEW r, Timeline!Set(w, r)
  PROVE  /\ worker'[w] = r
         /\ \A u \in Timeline!Workers : u # w => worker'[u] = worker[u]
         /\ \A u \in Timeline!Workers, e \in Events : u # w =>
              (Tries(u, e) => Tries(u, e)') /\ (WillTry(u, e) => WillTry(u, e)')
<1>1. worker'[w] = r /\ \A u \in Timeline!Workers : u # w => worker'[u] = worker[u]
  BY DEF Timeline!Set, RedecryptInv, RedecryptTypes
<1> QED
  BY <1>1 DEF Tries, WillTry

\* A worker moves and the stream keeps its arrivals: it is enough that the worker keeps
\* what it had, of every event that still waits.
LEMMA AwaitedStays ==
  ASSUME RedecryptInv, LiveInv, NEW w \in Timeline!Workers, NEW r, Timeline!Set(w, r),
         listening' = TRUE,
         \A e \in Events : Announced(e) => Announced(e)' \/ Awaited(e)',
         \A e \in Events : events'[e] = "live" /\ Timeline!Keyed(e)' =>
           \/ events[e] = "live" /\ Timeline!Keyed(e)
           \/ Awaited(e)',
         w = "drain" => \A e \in Events : events'[e] = "live" /\ Timeline!Keyed(e)' /\ WillTry(w, e) =>
           WillTry(w, e)',
         w = "live" => \A e \in Events : events'[e] = "live" /\ Timeline!Keyed(e)' /\ Tries(w, e) =>
           Tries(w, e)',
         w = "startup" /\ SweepsAll => \A e \in Events :
           events'[e] = "live" /\ Timeline!Keyed(e)' /\ (worker[w].pc = "load" \/ WillTry(w, e)) => WillTry(w, e)'
  PROVE  LiveInv'
<1> SUFFICES ASSUME NEW e \in Events, events'[e] = "live", Timeline!Keyed(e)', ~Awaited(e)'
             PROVE  FALSE
  BY DEF LiveInv
<1>1. Awaited(e)
  BY DEF LiveInv
<1>2. ~Announced(e)
  BY DEF Awaited
<1>3. ~WillTry("drain", e)
  BY OthersTry, Names DEF Awaited
<1>4. ~Tries("live", e)
  BY OthersTry, Names DEF Awaited
<1>5. SweepsAll /\ (worker["startup"].pc = "load" \/ WillTry("startup", e))
  BY <1>1, <1>2, <1>3, <1>4 DEF Awaited
<1>6. w = "startup"
  <2> SUFFICES ASSUME w # "startup" PROVE FALSE
    OBVIOUS
  <2>1. worker'["startup"] = worker["startup"]
    BY OthersTry, Names
  <2>2. WillTry("startup", e) => WillTry("startup", e)'
    BY OthersTry, Names
  <2> QED
    BY <1>5, <2>1, <2>2 DEF Awaited, SweepsAll
<1> QED
  BY <1>5, <1>6 DEF Awaited, SweepsAll

\* What a step that leaves the stream and the keys alone leaves of them.
LEMMA StreamSame ==
  ASSUME UNCHANGED <<keys, stream>>
  PROVE  \A e \in Events : (Announced(e) <=> Announced(e)') /\ (Timeline!Keyed(e) <=> Timeline!Keyed(e)')
  BY DEF Announced, Timeline!Keyed

LEMMA LiveReceive ==
  ASSUME RedecryptInv, LiveInv, NEW w \in Timeline!Ingest, Timeline!Receive(w)
  PROVE  LiveInv'
<1>1. PICK r : Timeline!Set(w, r)
  BY DEF Timeline!Receive
<1>2. w \in Timeline!Workers /\ w # "drain" /\ w # "startup" /\ worker[w].pc = "idle"
  BY DEF Timeline!Workers, Timeline!Ingest, Timeline!Receive
<1>3. UNCHANGED <<events, keys, stream, listening>>
  BY DEF Timeline!Receive
<1>4. \A e \in Events : ~Tries(w, e)
  BY <1>2 DEF Tries
<1>5. listening' = TRUE
  BY <1>3 DEF LiveInv
<1> QED
  BY <1>1, <1>2, <1>3, <1>4, <1>5, StreamSame, AwaitedStays

LEMMA LivePersist ==
  ASSUME Reliable, RedecryptInv, LiveInv, NEW w \in Timeline!Ingest, Timeline!Persist(w)
  PROVE  LiveInv'
<1>1. w \in Timeline!Workers /\ w # "drain" /\ w # "startup" /\ worker[w].pc = "write"
  BY DEF Timeline!Workers, Timeline!Ingest, Timeline!Persist
<1>2. PICK p, x : p = worker[w] /\ x = Timeline!EventOf(w)
  OBVIOUS
<1>3. p \in WorkRecords /\ x \in Events /\ p.ev = {x} /\ p.clear \in BOOLEAN
  BY <1>1, <1>2, EventInHand, WorkerNow
<1>4. /\ Timeline!Upsert(w, x)
      /\ Timeline!Set(w, IF Timeline!SecondLook(w) THEN [p EXCEPT !.pc = "decrypt"] ELSE Timeline!Idle)
      /\ UNCHANGED <<keys, stream, listening>>
  BY <1>2 DEF Timeline!Persist, Reliable
<1>5. PICK r : r = IF Timeline!SecondLook(w) THEN [p EXCEPT !.pc = "decrypt"] ELSE Timeline!Idle
  OBVIOUS
<1>6. events \in [Events -> {"none", "clear", "live", "backfill"}]
  BY DEF RedecryptInv, RedecryptTypes
<1>7. \A e \in Events : ~Tries(w, e)
  BY <1>1 DEF Tries
<1>8. ASSUME NEW e \in Events, events'[e] = "live", events[e] # "live" PROVE Awaited(e)'
  <2>1. e = x /\ w = "live" /\ ~p.clear
    BY <1>2, <1>4, <1>6, <1>8 DEF Timeline!Upsert, Timeline!Ingest
  <2>2. r = [p EXCEPT !.pc = "decrypt"]
    BY <1>2, <1>5, <2>1 DEF Timeline!SecondLook
  <2>3. r.pc = "decrypt" /\ r.ev = {x}
    BY <1>3, <2>2 DEF WorkRecords
  <2>4. worker'["live"] = r
    BY <1>1, <1>4, <1>5, <2>1, OthersTry
  <2>5. Tries("live", e)'
    BY <2>1, <2>3, <2>4 DEF Tries
  <2> QED
    BY <2>5 DEF Awaited
<1>9. listening' = TRUE
  BY <1>4 DEF LiveInv
<1> QED
  BY <1>1, <1>4, <1>5, <1>7, <1>8, <1>9, StreamSame, AwaitedStays

LEMMA LiveDecrypt ==
  ASSUME RedecryptInv, LiveInv, NEW w \in Timeline!Workers, Timeline!Decrypt(w)
  PROVE  LiveInv'
<1>1. PICK p, x : p = worker[w] /\ x = Timeline!EventOf(w)
  OBVIOUS
<1>2. /\ p \in WorkRecords /\ p.pc = "decrypt" /\ x \in Events /\ p.ev = {x}
  BY <1>1, EventInHand, WorkerNow DEF Timeline!Decrypt
<1>3. PICK r : r = [p EXCEPT !.pc = "update", !.clear = Timeline!Keyed(x)]
  OBVIOUS
<1>4. r.pc = "update" /\ r.ev = {x} /\ r.todo = p.todo /\ r.clear = Timeline!Keyed(x)
  BY <1>2, <1>3 DEF WorkRecords
<1>5. Timeline!Set(w, r) /\ UNCHANGED <<events, keys, stream, listening>>
  BY <1>1, <1>3 DEF Timeline!Decrypt
<1>6. worker'[w] = r
  BY <1>5, OthersTry
<1>7. ASSUME NEW e \in Events, Timeline!Keyed(e), Tries(w, e) PROVE Tries(w, e)'
  <2>1. e = x
    BY <1>1, <1>2, <1>7 DEF Tries
  <2>2. r.clear = TRUE
    BY <1>4, <1>7, <2>1 DEF Timeline!Keyed
  <2> QED
    BY <1>4, <1>6, <2>1, <2>2 DEF Tries
<1>8. ASSUME NEW e \in Events, Timeline!Keyed(e), WillTry(w, e) PROVE WillTry(w, e)'
  BY <1>1, <1>4, <1>6, <1>7, <1>8 DEF WillTry
<1>9. listening' = TRUE
  BY <1>5 DEF LiveInv
<1>10. worker[w].pc # "load"
  BY <1>1, <1>2
<1> QED
  BY <1>5, <1>7, <1>8, <1>9, <1>10, StreamSame, AwaitedStays

LEMMA LiveUpdate ==
  ASSUME Reliable, RedecryptInv, LiveInv, NEW w \in Timeline!Workers, Timeline!Update(w)
  PROVE  LiveInv'
<1>1. PICK p, x : p = worker[w] /\ x = Timeline!EventOf(w)
  OBVIOUS
<1>2. /\ p \in WorkRecords /\ p.pc = "update" /\ x \in Events /\ p.ev = {x}
  BY <1>1, EventInHand, WorkerNow DEF Timeline!Update
<1>3. /\ events' = IF p.clear /\ Timeline!Utd(x) THEN [events EXCEPT ![x] = "clear"] ELSE events
      /\ Timeline!Set(w, Timeline!Following(w)) /\ UNCHANGED <<keys, stream, listening>>
  BY <1>1 DEF Timeline!Update, Reliable
<1>4. PICK r : r = Timeline!Following(w)
  OBVIOUS
<1>5. events \in [Events -> {"none", "clear", "live", "backfill"}]
  BY DEF RedecryptInv, RedecryptTypes
<1>6. \A e \in Events : events'[e] = "live" => events[e] = "live"
  BY <1>2, <1>3, <1>5
<1>7. ASSUME NEW e \in Events, events'[e] = "live" PROVE ~Tries(w, e)
  <2> SUFFICES ASSUME Tries(w, e) PROVE FALSE
    OBVIOUS
  <2>1. e = x /\ p.clear = TRUE
    BY <1>1, <1>2 DEF Tries
  <2>2. events[x] = "live"
    BY <1>6, <1>7, <2>1
  <2>3. Timeline!Utd(x)
    BY <2>2 DEF Timeline!Utd, Timeline!Ingest
  <2> QED
    BY <1>3, <1>5, <1>2, <1>7, <2>1, <2>3
<1>8. worker'[w] = r
  BY <1>3, <1>4, OthersTry
<1>9. ASSUME w # "live", NEW e \in Events, events'[e] = "live", WillTry(w,
             e) PROVE WillTry(w, e)'
  <2>1. e \in worker[w].todo
    BY <1>7, <1>9 DEF WillTry
  <2>2. r.pc = "rows" /\ r.todo = worker[w].todo
    BY <1>4, <1>9, FollowingWorks
  <2> QED
    BY <1>8, <2>1, <2>2 DEF WillTry
<1>10. listening' = TRUE
  BY <1>3 DEF LiveInv
<1>11. worker[w].pc # "load"
  BY <1>1, <1>2
<1> QED
  BY <1>3, <1>4, <1>6, <1>7, <1>9, <1>10, <1>11, StreamSame, AwaitedStays

LEMMA LiveTakeRow ==
  ASSUME RedecryptInv, LiveInv, NEW w \in Timeline!Workers, Timeline!TakeRow(w)
  PROVE  LiveInv'
<1>1. PICK p : p = worker[w]
  OBVIOUS
<1>2. p \in WorkRecords /\ p.pc = "rows"
  BY <1>1, WorkerNow DEF Timeline!TakeRow
<1>3. PICK x \in Timeline!Within(w) :
        Timeline!Set(w, [p EXCEPT !.pc = "decrypt", !.ev = {x}, !.todo = p.todo \ {x},
                         !.tried = IF w = "startup" THEN p.tried \cup {x} ELSE p.tried])
  BY <1>1 DEF Timeline!TakeRow
<1>4. PICK r : r = [p EXCEPT !.pc = "decrypt", !.ev = {x}, !.todo = p.todo \ {x},
                             !.tried = IF w = "startup" THEN p.tried \cup {x} ELSE p.tried]
  OBVIOUS
<1>5. r.pc = "decrypt" /\ r.ev = {x} /\ r.todo = p.todo \ {x}
  BY <1>2, <1>4 DEF WorkRecords
<1>6. UNCHANGED <<events, keys, stream, listening>>
  BY DEF Timeline!TakeRow
<1>7. worker'[w] = r
  BY <1>3, <1>4, OthersTry
<1>8. \A e \in Events : ~Tries(w, e)
  BY <1>1, <1>2 DEF Tries
<1>9. ASSUME NEW e \in Events, WillTry(w, e) PROVE WillTry(w, e)'
  BY <1>1, <1>5, <1>7, <1>8, <1>9 DEF WillTry, Tries
<1>10. listening' = TRUE
  BY <1>6 DEF LiveInv
<1>11. worker[w].pc # "load"
  BY <1>1, <1>2
<1> QED
  BY <1>3, <1>4, <1>6, <1>8, <1>9, <1>10, <1>11, StreamSame, AwaitedStays

LEMMA LiveLeaves ==
  ASSUME RedecryptInv, LiveInv, NEW w \in Timeline!Workers,
         Timeline!LeaveRows(w) \/ Timeline!EndSweep(w)
  PROVE  LiveInv'
<1>1. PICK p : p = worker[w]
  OBVIOUS
<1>2. /\ p \in WorkRecords /\ p.pc \in {"rows", "rooms"} /\ (w # "retry" => p.cut = FALSE)
      /\ p.todo \subseteq Events
  BY <1>1, WorkerNow DEF Timeline!LeaveRows, Timeline!EndSweep
<1>3. PICK r : Timeline!Set(w, r)
  BY DEF Timeline!LeaveRows, Timeline!EndSweep
<1>4. UNCHANGED <<events, keys, stream, listening>>
  BY DEF Timeline!LeaveRows, Timeline!EndSweep
<1>5. worker'[w] = r
  BY <1>3, OthersTry
<1>6. \A e \in Events : ~Tries(w, e)
  BY <1>1, <1>2 DEF Tries
<1>7. ASSUME w \in {"drain", "startup"}, NEW e \in Events, WillTry(w, e) PROVE WillTry(w, e)'
  <2>1. e \in p.todo
    BY <1>1, <1>6, <1>7 DEF WillTry
  <2>2. CASE Timeline!EndSweep(w)
    BY <1>1, <1>2, <1>7, <2>1, <2>2 DEF Timeline!EndSweep
  <2>3. CASE Timeline!LeaveRows(w)
    <3>1. Timeline!Within(w) = {}
      BY <1>1, <1>2, <1>7, <2>3 DEF Timeline!LeaveRows
    <3>2. w = "startup"
      BY <1>1, <1>7, <2>1, <3>1 DEF Timeline!Within
    <3>3. Timeline!Set(w, [p EXCEPT !.pc = "rooms", !.room = {}])
      BY <1>1, <2>3, <3>2 DEF Timeline!LeaveRows
    <3>4. PICK q : q = [p EXCEPT !.pc = "rooms", !.room = {}]
      OBVIOUS
    <3>5. q.pc = "rooms" /\ q.todo = p.todo
      BY <1>2, <3>4 DEF WorkRecords
    <3>6. worker'[w] = q
      BY <3>3, <3>4, OthersTry
    <3> QED
      BY <2>1, <3>5, <3>6 DEF WillTry
  <2> QED
    BY <2>2, <2>3
<1>8. listening' = TRUE
  BY <1>4 DEF LiveInv
<1>9. worker[w].pc # "load"
  BY <1>1, <1>2
<1> QED
  BY <1>3, <1>4, <1>6, <1>7, <1>8, <1>9, StreamSame, AwaitedStays

LEMMA LiveLoad ==
  ASSUME Reliable, RedecryptInv, LiveInv, NEW w \in Timeline!Sweeps, Timeline!Load(w)
  PROVE  LiveInv'
<1>1. w \in Timeline!Workers /\ w # "drain" /\ w # "live" /\ worker[w].pc = "load"
  BY DEF Timeline!Workers, Timeline!Sweeps, Timeline!Load
<1>2. PICK r : r = [Timeline!Idle EXCEPT !.pc = "rooms", !.todo = Timeline!Selected(w)]
  OBVIOUS
<1>3. r.pc = "rooms" /\ r.todo = Timeline!Selected(w)
  BY <1>2 DEF Timeline!Idle
<1>4. Timeline!Set(w, r) /\ UNCHANGED <<events, keys, stream, listening>>
  BY <1>2 DEF Timeline!Load, Reliable
<1>5. worker'[w] = r
  BY <1>1, <1>4, OthersTry
<1>6. ASSUME SweepsAll, NEW e \in Events, events'[e] = "live" PROVE WillTry(w, e)'
  <2>1. e \in Timeline!Selected(w)
    BY <1>4, <1>6 DEF Timeline!Selected, Timeline!Utd, Timeline!Ingest, SweepsAll
  <2> QED
    BY <1>3, <1>5, <2>1 DEF WillTry
<1>7. listening' = TRUE
  BY <1>4 DEF LiveInv
<1> QED
  BY <1>1, <1>4, <1>6, <1>7, StreamSame, AwaitedStays

\* New keys are announced while the drain listens, and older arrivals stay.
LEMMA ImportAnnounces ==
  ASSUME RedecryptInv, LiveInv, IsFiniteSet(Timeline!Sessions),
         NEW S \in SUBSET Timeline!Sessions, Timeline!Import(S)
  PROVE  \A e \in Events : /\ Announced(e) => Announced(e)'
                           /\ Timeline!Keyed(e)' => Timeline!Keyed(e) \/ Announced(e)'
<1>1. PICK s \in Seq(Timeline!Sessions) :
        /\ stream' = IF listening THEN stream \o s ELSE stream
        /\ \A x \in S \ keys : \E i \in DOMAIN s : s[i] = x
  BY Imported
<1>2. stream \in Seq(Timeline!Sessions) /\ stream' = stream \o s
  BY <1>1 DEF LiveInv, RedecryptInv, RedecryptTypes
<1>3. keys' = keys \cup S
  BY Imported
<1>4. /\ DOMAIN stream = 1..Len(stream) /\ DOMAIN s = 1..Len(s)
      /\ DOMAIN (stream \o s) = 1..(Len(stream) + Len(s))
      /\ Len(stream) \in Nat /\ Len(s) \in Nat
  BY <1>2
<1>5. ASSUME NEW i \in DOMAIN stream PROVE i \in DOMAIN stream' /\ stream'[i] = stream[i]
  BY <1>2, <1>4, <1>5
<1>6. ASSUME NEW i \in DOMAIN s
      PROVE  Len(stream) + i \in DOMAIN stream' /\ stream'[Len(stream) + i] = s[i]
  BY <1>2, <1>4, <1>6
<1>7. ASSUME NEW e \in Events, Announced(e) PROVE Announced(e)'
  BY <1>5, <1>7 DEF Announced
<1>8. ASSUME NEW e \in Events, Timeline!Keyed(e)', ~Timeline!Keyed(e) PROVE Announced(e)'
  <2>1. MegolmOf[e] \in S \ keys
    BY <1>3, <1>8 DEF Timeline!Keyed
  <2>2. PICK i \in DOMAIN s : s[i] = MegolmOf[e]
    BY <1>1, <2>1
  <2> QED
    BY <1>6, <2>2 DEF Announced
<1> QED
  BY <1>7, <1>8

LEMMA LiveEnterRoom ==
  ASSUME RedecryptInv, LiveInv, IsFiniteSet(Timeline!Sessions), NEW w \in Timeline!Sweeps,
         Timeline!EnterRoom(w)
  PROVE  LiveInv'
<1>1. w \in Timeline!Workers /\ w # "drain" /\ w # "live"
  BY DEF Timeline!Workers, Timeline!Sweeps
<1>2. PICK p : p = worker[w]
  OBVIOUS
<1>3. p \in WorkRecords /\ p.pc = "rooms"
  BY <1>1, <1>2, WorkerNow DEF Timeline!EnterRoom
<1>4. PICK x \in Timeline!Rooms :
        \/ /\ Timeline!Import({s \in Backup : \E e \in Events : RoomOf[e] = x /\ MegolmOf[e] = s})
           /\ Timeline!Set(w, [p EXCEPT !.pc = "rows", !.room = {x}])
        \/ /\ Timeline!Set(w, [p EXCEPT !.pc = "rows", !.room = {x}])
           /\ UNCHANGED <<keys, stream>>
        \/ /\ "room" \in Faults
           /\ Timeline!Set(w, [p EXCEPT !.todo = p.todo \ Timeline!RowsIn(w, x)])
           /\ UNCHANGED <<keys, stream>>
  BY <1>2 DEF Timeline!EnterRoom
<1>5. UNCHANGED <<events, listening>>
  BY DEF Timeline!EnterRoom
<1>6. {s \in Backup : \E e \in Events : RoomOf[e] = x /\ MegolmOf[e] = s} \in SUBSET Timeline!Sessions
  BY DEF Timeline!Sessions
<1>7. \A e \in Events : /\ Announced(e) => Announced(e)'
                        /\ Timeline!Keyed(e)' => Timeline!Keyed(e) \/ Announced(e)'
  <2>1. CASE UNCHANGED <<keys, stream>>
    BY <2>1, StreamSame
  <2>2. CASE Timeline!Import({s \in Backup : \E e \in Events : RoomOf[e] = x /\ MegolmOf[e] = s})
    BY <1>6, <2>2, ImportAnnounces
  <2> QED
    BY <1>4, <2>1, <2>2
<1>8. PICK r : Timeline!Set(w, r)
  BY <1>4
<1>9. worker'[w] = r
  BY <1>1, <1>8, OthersTry
<1>10. ASSUME SweepsAll, NEW e \in Events, WillTry(w, e) PROVE WillTry(w, e)'
  <2>1. e \in p.todo
    BY <1>2, <1>3, <1>10 DEF WillTry, Tries
  <2>2. PICK q : q = [p EXCEPT !.pc = "rows", !.room = {x}]
    OBVIOUS
  <2>3. q.pc = "rows" /\ q.todo = p.todo
    BY <1>3, <2>2 DEF WorkRecords
  <2>4. Timeline!Set(w, q)
    BY <1>4, <1>10, <2>2 DEF SweepsAll
  <2>5. worker'[w] = q
    BY <1>1, <2>4, OthersTry
  <2> QED
    BY <2>1, <2>3, <2>5 DEF WillTry
<1>11. listening' = TRUE
  BY <1>5 DEF LiveInv
<1>12. worker[w].pc # "load"
  BY <1>2, <1>3
<1>13. \A e \in Events : Announced(e)' => Awaited(e)'
  BY DEF Awaited
<1> QED
  BY <1>1, <1>5, <1>7, <1>8, <1>10, <1>11, <1>12, <1>13, AwaitedStays

\* The drain takes an arrival and loads the rows that wait for it.
LEMMA LiveDrain ==
  ASSUME Reliable, RedecryptInv, LiveInv, Timeline!Drain
  PROVE  LiveInv'
<1>1. PICK T : T = {e \in Events : Timeline!Utd(e) /\ MegolmOf[e] = Head(stream)}
  OBVIOUS
<1>2. PICK r : r = [Timeline!Idle EXCEPT !.pc = "rows", !.todo = T]
  OBVIOUS
<1>3. r.pc = "rows" /\ r.todo = T
  BY <1>2 DEF Timeline!Idle
<1>4. /\ worker["drain"].pc = "idle" /\ stream # <<>> /\ stream' = Tail(stream)
      /\ Timeline!Set("drain", r) /\ UNCHANGED <<events, keys, listening>>
  BY <1>1, <1>2 DEF Timeline!Drain, Reliable
<1>5. worker'["drain"] = r
  BY <1>4, OthersTry, Names
<1>6. \A e \in Events : ~WillTry("drain", e)
  BY <1>4 DEF WillTry, Tries
<1>7. stream \in Seq(Timeline!Sessions)
  BY DEF RedecryptInv, RedecryptTypes
<1>8. ASSUME NEW e \in Events, events'[e] = "live", Announced(e) PROVE Awaited(e)'
  <2>1. PICK i \in DOMAIN stream : stream[i] = MegolmOf[e]
    BY <1>8 DEF Announced
  <2>2. CASE i = 1
    <3>1. Head(stream) = MegolmOf[e]
      BY <1>4, <1>7, <2>1, <2>2
    <3>2. Timeline!Utd(e)
      BY <1>4, <1>8 DEF Timeline!Utd, Timeline!Ingest
    <3>3. e \in T
      BY <1>1, <3>1, <3>2
    <3>4. WillTry("drain", e)'
      BY <1>3, <1>5, <3>3 DEF WillTry
    <3> QED
      BY <3>4 DEF Awaited
  <2>3. CASE i # 1
    <3>1. i \in 2..Len(stream)
      BY <1>7, <2>1, <2>3
    <3>2. i - 1 \in DOMAIN stream' /\ stream'[i - 1] = stream[i]
      BY <1>4, <1>7, <3>1
    <3> QED
      BY <2>1, <3>2 DEF Awaited, Announced
  <2> QED
    BY <2>2, <2>3
<1>9. LiveInv'
  <2> SUFFICES ASSUME NEW e \in Events, events'[e] = "live",
                      Timeline!Keyed(e)' PROVE Awaited(e)'
    BY <1>4 DEF LiveInv
  <2>1. Awaited(e)
    BY <1>4 DEF LiveInv, Timeline!Keyed
  <2>2. CASE Announced(e)
    BY <1>8, <2>2
  <2>3. CASE Tries("live", e)
    <3>1. Tries("live", e)'
      BY <1>4, <2>3, OthersTry, Names
    <3> QED
      BY <3>1 DEF Awaited
  <2>4. CASE SweepsAll /\ (worker["startup"].pc = "load" \/ WillTry("startup", e))
    <3>1. worker'["startup"] = worker["startup"] /\ (WillTry("startup", e) => WillTry("startup", e)')
      BY <1>4, OthersTry, Names
    <3> QED
      BY <2>4, <3>1 DEF Awaited, SweepsAll
  <2> QED
    BY <1>6, <2>1, <2>2, <2>3, <2>4 DEF Awaited
<1> QED
  BY <1>9

\* The steps of the operator's sweep, and the end of the boot's.
LEMMA LiveRest ==
  ASSUME RedecryptInv, LiveInv, Timeline!Retry \/ Timeline!Timeout \/ Timeline!Mark
  PROVE  LiveInv'
<1>1. UNCHANGED <<events, keys, stream, listening>>
  BY DEF Timeline!Retry, Timeline!Timeout, Timeline!Mark
<1>2. PICK w, r : /\ w \in {"retry", "startup"} /\ Timeline!Set(w, r)
                  /\ w = "startup" => worker[w].pc = "mark"
  BY DEF Timeline!Retry, Timeline!Timeout, Timeline!Mark
<1>3. w \in Timeline!Workers
  BY <1>2, Names
<1>4. w = "startup" => \A e \in Events : ~WillTry(w, e)
  BY <1>2 DEF WillTry, Tries
<1>5. listening' = TRUE
  BY <1>1 DEF LiveInv
<1> QED
  BY <1>1, <1>2, <1>3, <1>4, <1>5, StreamSame, AwaitedStays

LEMMA LiveRestart ==
  ASSUME Timeline!RedecryptAssumption, Reliable, RedecryptInv, LiveInv, Timeline!Restart
  PROVE  LiveInv'
<1>1. crashes < MaxCrashes /\ crashes \in 0..MaxCrashes
  BY DEF Timeline!Restart, RedecryptInv, RedecryptTypes
<1>2. SweepsAll
  BY <1>1 DEF Reliable, SweepsAll, Timeline!RedecryptAssumption
<1>3. worker' = Booted /\ listening' = Timeline!Listens
  BY DEF Timeline!Restart, Booted
<1>4. worker'["startup"].pc = "load"
  BY <1>3, BootedWorks
<1>5. listening' = TRUE
  BY <1>3 DEF Timeline!Listens, Reliable
<1> QED
  BY <1>2, <1>4, <1>5 DEF LiveInv, Awaited, SweepsAll

LEMMA LiveArrives ==
  ASSUME Reliable, RedecryptInv, LiveInv, IsFiniteSet(Timeline!Sessions),
         Timeline!KeyArrives \/ Timeline!Subscribe \/ Timeline!Lag
  PROVE  LiveInv'
<1>1. Timeline!KeyArrives
  BY DEF Timeline!Subscribe, Timeline!Lag, LiveInv, Reliable
<1>2. PICK s \in Timeline!Sessions : Timeline!Import({s})
  BY <1>1 DEF Timeline!KeyArrives
<1>3. UNCHANGED <<events, listening, worker>>
  BY <1>1 DEF Timeline!KeyArrives
<1>4. \A e \in Events : /\ Announced(e) => Announced(e)'
                        /\ Timeline!Keyed(e)' => Timeline!Keyed(e) \/ Announced(e)'
  BY <1>2, ImportAnnounces
<1>5. ASSUME NEW e \in Events, events'[e] = "live", Timeline!Keyed(e)' PROVE Awaited(e)'
  <2>1. Announced(e)' \/ Awaited(e)
    BY <1>3, <1>4, <1>5 DEF LiveInv
  <2>2. (Tries("live", e) => Tries("live", e)') /\ (WillTry("drain", e) => WillTry("drain", e)')
        /\ (WillTry("startup", e) => WillTry("startup", e)')
    BY <1>3 DEF Tries, WillTry
  <2> QED
    BY <1>3, <1>4, <2>1, <2>2 DEF Awaited, SweepsAll
<1> QED
  BY <1>3, <1>5 DEF LiveInv

LEMMA LiveNext ==
  ASSUME Timeline!RedecryptAssumption, Reliable, IsFiniteSet(Timeline!Sessions),
         RedecryptInv, LiveInv,
         [Timeline!Next]_Timeline!vars
  PROVE  LiveInv'
<1>1. ASSUME NEW w \in Timeline!Workers, Timeline!Work(w) PROVE LiveInv'
  <2>1. CASE w \in Timeline!Ingest /\ Timeline!Persist(w)
    BY <2>1, LivePersist
  <2>2. CASE w \in Timeline!Sweeps /\ Timeline!Load(w)
    BY <2>2, LiveLoad
  <2>3. CASE w \in Timeline!Sweeps /\ Timeline!EnterRoom(w)
    BY <2>3, LiveEnterRoom
  <2>4. CASE Timeline!Drain
    BY <2>4, LiveDrain
  <2>5. CASE Timeline!Mark
    BY <2>5, LiveRest
  <2>6. CASE Timeline!Decrypt(w)
    BY <2>6, LiveDecrypt
  <2>7. CASE Timeline!Update(w)
    BY <2>7, LiveUpdate
  <2>8. CASE Timeline!TakeRow(w)
    BY <2>8, LiveTakeRow
  <2>9. CASE Timeline!LeaveRows(w) \/ Timeline!EndSweep(w)
    BY <2>9, LiveLeaves
  <2> QED
    BY <1>1, <2>1, <2>2, <2>3, <2>4, <2>5, <2>6, <2>7, <2>8, <2>9 DEF Timeline!Work
<1>2. ASSUME NEW w \in Timeline!Ingest, Timeline!Receive(w) PROVE LiveInv'
  BY <1>2, LiveReceive
<1>3. CASE Timeline!KeyArrives \/ Timeline!Subscribe \/ Timeline!Lag
  BY <1>3, LiveArrives
<1>4. CASE Timeline!Retry \/ Timeline!Timeout
  BY <1>4, LiveRest
<1>5. CASE Timeline!Restart
  BY <1>5, LiveRestart
<1>6. CASE UNCHANGED Timeline!vars
  BY <1>6 DEF Timeline!vars, LiveInv, Awaited, Announced, WillTry, Tries, Timeline!Keyed,
     SweepsAll
<1> QED
  BY <1>1, <1>2, <1>3, <1>4, <1>5, <1>6 DEF Timeline!Next

LEMMA LiveStarts == ASSUME Reliable, Timeline!Init PROVE LiveInv
  BY DEF Timeline!Init, LiveInv, Timeline!Listens, Reliable

LEMMA LiveMeans == ASSUME LiveInv PROVE Timeline!LiveIsDecrypted
<1> SUFFICES ASSUME Timeline!Quiet, NEW e \in Events, events[e] = "live",
                    Timeline!Keyed(e) PROVE FALSE
  BY DEF Timeline!LiveIsDecrypted
<1>1. Awaited(e)
  BY DEF LiveInv
<1>2. stream = <<>> /\ \A w \in Timeline!Workers : worker[w].pc \in {"idle", "done"}
  BY DEF Timeline!Quiet
<1>3. ~Announced(e)
  BY <1>2 DEF Announced
<1>4. \A w \in Timeline!Workers : ~WillTry(w, e) /\ ~Tries(w, e) /\ worker[w].pc # "load"
  BY <1>2 DEF WillTry, Tries
<1> QED
  BY <1>1, <1>3, <1>4, Names DEF Awaited

\* When everything has come to rest, no row that came live is without content while its key
\* is in the store: a key that arrives between the attempt to decrypt an event and the write
\* of its row is caught by the second look after the write or by the drain, and one that
\* arrives across a restart by the startup sweep. The stream must lose no arrival and
\* statements must succeed; after a restart, the sweep must look at every row and find
\* every room, as the code says of it (redecrypt.rs).
THEOREM LiveCorrect ==
  ASSUME Timeline!RedecryptAssumption, IsFiniteSet(Timeline!Sessions), Reliable
  PROVE  Timeline!Spec => []Timeline!LiveIsDecrypted
<1>1. Timeline!Init => LiveInv
  BY LiveStarts
<1>2. RedecryptInv /\ LiveInv /\ [Timeline!Next]_Timeline!vars => LiveInv'
  BY LiveNext
<1>3. LiveInv => Timeline!LiveIsDecrypted
  BY LiveMeans
<1> QED
  BY <1>1, <1>2, <1>3, RedecryptHolds, PTL DEF Timeline!Spec

-----------------------------------------------------------------------------
(* Room state                                                                *)

Items == [kind : {"state", "redaction"}, ev : Projection!Events, pruned : BOOLEAN]
Jobs == [pc : Projection!Pcs, ev : Projection!Events \cup {0}, pruned : BOOLEAN, prior : Projection!Rows, changed : BOOLEAN,
         snap : Projection!Views, hit : BOOLEAN]
Copies == [ev : Projection!Events \cup {0}, pruned : BOOLEAN]

\* The event and its type: the events of the room, and those of a cache or a tuple.
OfType(t, e) == e # 0 => TypeOf[e] = t

ProjectionTypes ==
  /\ sent \in 0..NumEvents /\ redacted \subseteq 1..sent
  /\ noted \subseteq redacted /\ log \subseteq noted
  /\ sdk \in [SdkTypes -> Copies] /\ tuples \in [Types -> Projection!Rows]
  /\ synced \in [Types -> 0..sent] /\ polled \in [SuppTypes -> 0..sent]
  /\ resets \in 0..MaxResets
  /\ inbox \in [Projection!Writers -> SUBSET Items] /\ job \in [Projection!Writers -> Jobs]
  /\ summary \in [there : BOOLEAN, shows : Projection!Views]
  /\ ingest \in [on : BOOLEAN, snap : Projection!Views]
  /\ hint \in BOOLEAN /\ dirty \subseteq Types

\* The repair: what it has planned, and the tuple it has locked.
RepairTypes ==
  /\ work = [on |-> work.on, todo |-> work.todo, missing |-> work.missing, plan |-> work.plan,
             tx |-> work.tx]
  /\ work.tx = [on |-> work.tx.on, t |-> work.tx.t, snap |-> work.tx.snap, hit |-> work.tx.hit]
  /\ work.on \in BOOLEAN /\ work.tx.on \in BOOLEAN /\ work.todo \subseteq Types
  /\ work.missing \subseteq Types
  /\ work.tx.on => work.tx.t \in Types /\ work.tx.snap \in Projection!Views /\ work.tx.hit \in BOOLEAN

\* What a response still has to be handled, and the handler at work.
Inboxes ==
  \A w \in Projection!Writers : \A i \in inbox[w] :
    /\ i.ev <= sent
    /\ i.kind = "redaction" => w = "sync" /\ i.ev \in noted

Handlers ==
  \A w \in Projection!Writers :
    /\ job[w].pc # "idle" => job[w].ev \in 1..sent
    /\ job[w].pc \in {"log", "filter"} => w = "sync" /\ job[w].ev \in noted

\* Whatever is pruned was redacted, and the homeserver applied the redaction.
OnlyRedacted ==
  /\ \A t \in Types : /\ OfType(t, tuples[t].ev) /\ tuples[t].pruned = tuples[t].red
                      /\ tuples[t].pruned => tuples[t].ev \in Projection!Applied
  /\ \A t \in SdkTypes : OfType(t, sdk[t].ev) /\ (sdk[t].pruned => sdk[t].ev \in Projection!Applied)
  /\ \A w \in Projection!Writers : /\ job[w].pruned => job[w].ev \in Projection!Applied
                        /\ \A i \in inbox[w] : i.pruned => i.ev \in Projection!Applied
  /\ work.plan \subseteq Projection!Applied
  /\ work.tx.on => tuples[work.tx.t].ev \in Projection!Applied

\* A redaction the primary sync has brought is of an event it has passed.
NotedIsPast == \A e \in noted : e <= synced[TypeOf[e]]

ProjectionInv ==
  ProjectionTypes /\ RepairTypes /\ Inboxes /\ Handlers /\ OnlyRedacted /\ NotedIsPast

\* A redaction of the event is still to be handled.
Redacting(e) ==
  \/ \E i \in inbox["sync"] : i.kind = "redaction" /\ i.ev = e
  \/ job["sync"].pc \in {"log", "filter"} /\ job["sync"].ev = e

\* A handler that has written the event in its original form will look at the cache.
WillLook(e) ==
  \E w \in Projection!Writers : /\ job[w].pc \in {"view", "refresh", "mark", "hint"}
                     /\ job[w].ev = e /\ ~job[w].pruned

\* The repair will come to the tuple.
WillRepair(t) ==
  work.on /\ (t \in work.todo \/ tuples[t].ev \in work.plan \/ (work.tx.on /\ work.tx.t = t))

HintInv ==
  \A t \in Types : Projection!Stale(t) => hint \/ Redacting(tuples[t].ev) \/ WillLook(tuples[t].ev) \/ WillRepair(t)

\* A set of natural numbers has a least one.
LEMMA LeastEvent == ASSUME NEW T \in SUBSET Nat, T # {} PROVE \E n \in T : \A m \in T : n <= m
<1> DEFINE R == OpToRel(<, Nat)
<1>1. ASSUME NEW x \in Nat, NEW y \in Nat, y < x PROVE <<y, x>> \in R
  <2>1. <<y, x>>[1] = y /\ <<y, x>>[2] = x /\ <<y, x>> \in Nat \X Nat
    OBVIOUS
  <2> QED
    BY <1>1, <2>1, Zenon DEF OpToRel
<1>2. \E x \in T : \A y \in T : ~(<<y, x>> \in R)
  BY NatLessThanWellFounded, WFMin, Zenon
<1>3. \E x \in T : \A y \in T : ~(y < x)
  BY <1>1, <1>2, Zenon
<1> QED
  BY <1>3

\* The newest event of a type, or 0.
LEMMA CurrentIs ==
  ASSUME Projection!StateProjectionAssumption, ProjectionTypes, NEW t
  PROVE  /\ Projection!Current(t) \in 0..sent
         /\ Projection!Current(t) # 0 => Projection!Current(t) \in Projection!Events /\ TypeOf[Projection!Current(t)] = t
         /\ \A e \in 1..sent : TypeOf[e] = t => e <= Projection!Current(t)
<1> DEFINE S == {e \in 1..sent : TypeOf[e] = t} \cup {0}
           T == {k \in Nat : \E e \in S : e = sent - k}
<1>1. sent \in Nat /\ S \subseteq 0..sent /\ 1..sent \subseteq Projection!Events
  BY DEF ProjectionTypes, Projection!StateProjectionAssumption, Projection!Events
<1>2. sent \in T
  BY <1>1
<1>3. PICK k \in T : \A j \in T : k <= j
  BY <1>2, LeastEvent
<1>4. PICK m \in S : m = sent - k
  OBVIOUS
<1>5. ASSUME NEW e \in S PROVE e <= m
  <2>1. sent - e \in T
    BY <1>1
  <2> QED
    BY <1>1, <1>3, <1>4, <2>1
<1>6. Projection!Max(S) \in S /\ \A e \in S : e <= Projection!Max(S)
  <2>1. \E x \in S : \A y \in S : x >= y
    BY <1>1, <1>4, <1>5
  <2>2. Projection!Max(S) = CHOOSE x \in S : \A y \in S : x >= y
    BY DEF Projection!Max
  <2>3. Projection!Max(S) \in S /\ \A y \in S : Projection!Max(S) >= y
    BY <2>1, <2>2
  <2> QED
    BY <1>1, <2>3
<1>7. Projection!Current(t) = Projection!Max(S)
  BY DEF Projection!Current
<1> QED
  BY <1>1, <1>6, <1>7

LEMMA EventTypes ==
  ASSUME Projection!StateProjectionAssumption, ProjectionTypes
  PROVE  /\ sent \in Nat /\ NumEvents \in Nat /\ 1..sent \subseteq Projection!Events /\ 0 \notin Projection!Events
         /\ \A e \in Projection!Events : TypeOf[e] \in Types /\ e \in Nat /\ e # 0
         /\ SdkTypes \subseteq Types /\ SuppTypes \subseteq Types /\ DisplayTypes \subseteq Types
         /\ \A e \in Forbidden : TypeOf[e] \notin SdkTypes
         /\ Projection!Applied \subseteq 1..sent /\ noted \subseteq 1..sent /\ log \subseteq 1..sent
BY DEF ProjectionTypes, Projection!StateProjectionAssumption, Projection!Events,
   Projection!Applied

LEMMA Blanks == /\ Projection!NoCache \in Copies /\ Projection!NoRow \in Projection!Rows /\ Projection!Blank \in Projection!Views /\ Projection!Idle \in Jobs
                /\ Projection!Idle.pc = "idle" /\ Projection!Idle.ev = 0 /\ Projection!Idle.pruned = FALSE
<1>1. Projection!NoCache \in Copies
  BY DEF Projection!NoCache, Copies
<1>2. Projection!NoRow \in Projection!Rows
  BY DEF Projection!NoRow, Projection!Rows
<1>3. Projection!Blank \in Projection!Views
  BY <1>1 DEF Projection!Blank, Projection!Views, Copies
<1>4. Projection!Idle \in Jobs
  BY <1>2, <1>3 DEF Projection!Idle, Jobs, Projection!Pcs
<1> QED
  BY <1>1, <1>2, <1>3, <1>4 DEF Projection!Idle

\* What the columns of a tuple show.
LEMMA ShownIs == ASSUME NEW r, \A t \in Types : r[t] \in Projection!Rows, DisplayTypes \subseteq Types
                 PROVE  Projection!Shown(r) \in Projection!Views
BY DEF Projection!Shown, Projection!Views, Projection!Rows

\* The conditions on one handler and on one response.
HandlerOK(w, j) ==
  /\ j \in Jobs
  /\ j.pc # "idle" => j.ev \in 1..sent
  /\ j.pc \in {"log", "filter"} => w = "sync" /\ j.ev \in noted
  /\ j.pruned => j.ev \in Projection!Applied

LEMMA HandlersAre == ASSUME ProjectionInv, NEW w \in Projection!Writers PROVE HandlerOK(w, job[w])
BY DEF ProjectionInv, ProjectionTypes, Handlers, OnlyRedacted, HandlerOK

\* A step of a handler that leaves everything but its own record and the inbox alone.
LEMMA HandlerMoves ==
  ASSUME Projection!StateProjectionAssumption, ProjectionInv, NEW w \in Projection!Writers,
         NEW j,
         HandlerOK(w, j), job' = [job EXCEPT ![w] = j],
         UNCHANGED <<sent, redacted, sdk, synced, noted, polled, resets, tuples, ingest, work>>,
         inbox' \in [Projection!Writers -> SUBSET Items], \A v \in Projection!Writers : inbox'[v] \subseteq inbox[v],
         log' \subseteq noted, summary' \in [there : BOOLEAN, shows : Projection!Views],
         hint' \in BOOLEAN, dirty' \subseteq Types
  PROVE  ProjectionInv'
<1>1. job' \in [Projection!Writers -> Jobs] /\ \A v \in Projection!Writers : job'[v] = IF v = w THEN j ELSE job[v]
  BY DEF ProjectionInv, ProjectionTypes, HandlerOK
<1>2. ProjectionTypes'
  BY <1>1 DEF ProjectionInv, ProjectionTypes
<1>3. RepairTypes' /\ NotedIsPast'
  BY DEF ProjectionInv, RepairTypes, NotedIsPast
<1>4. Inboxes'
  BY DEF ProjectionInv, Inboxes
<1>5. Handlers'
  BY <1>1 DEF ProjectionInv, Handlers, HandlerOK
<1>6. Projection!Applied' = Projection!Applied
  BY DEF Projection!Applied
<1>7. OnlyRedacted'
  BY <1>1, <1>6 DEF ProjectionInv, OnlyRedacted, HandlerOK, OfType
<1> QED
  BY <1>2, <1>3, <1>4, <1>5, <1>7 DEF ProjectionInv

-----------------------------------------------------------------------------

LEMMA ServerKeeps ==
  ASSUME Projection!StateProjectionAssumption, ProjectionInv,
         Projection!Emit \/ \E e \in Projection!Events : Projection!Redact(e)
  PROVE  ProjectionInv'
<1>0. sent \in 0..NumEvents /\ redacted \subseteq 1..sent /\ NumEvents \in Nat
  BY DEF ProjectionInv, ProjectionTypes, Projection!StateProjectionAssumption
<1>1. /\ sent' \in 0..NumEvents /\ sent <= sent' /\ redacted \subseteq redacted'
      /\ redacted' \subseteq 1..sent'
      /\ UNCHANGED <<sdk, synced, noted, polled, resets, inbox, job, tuples, log, summary, ingest,
                     hint, work, dirty>>
  <2>1. CASE Projection!Emit
    BY <1>0, <2>1 DEF Projection!Emit
  <2>2. CASE \E e \in Projection!Events : Projection!Redact(e)
    <3>1. PICK e \in Projection!Events : Projection!Redact(e)
      BY <2>2
    <3>2. sent' = sent /\ redacted' = redacted \cup {e} /\ e \in 1..sent
      BY <1>0, <3>1 DEF Projection!Redact, Projection!Events
    <3>3. UNCHANGED <<sdk, synced, noted, polled, resets, inbox, job, tuples, log, summary,
                      ingest, hint, work, dirty>>
      BY <3>1 DEF Projection!Redact
    <3> QED
      BY <1>0, <3>2, <3>3
  <2> QED
    BY <2>1, <2>2
<1>2. sent \in Nat /\ sent' \in Nat /\ 1..sent \subseteq 1..sent' /\ 0..sent \subseteq 0..sent'
      /\ Projection!Applied \subseteq Projection!Applied'
  BY <1>1, EventTypes DEF ProjectionInv, Projection!Applied
<1>3. ProjectionTypes'
  BY <1>1, <1>2 DEF ProjectionInv, ProjectionTypes
<1>4. RepairTypes' /\ NotedIsPast'
  BY <1>1 DEF ProjectionInv, RepairTypes, NotedIsPast
<1>5. Inboxes'
  BY <1>1, <1>2, EventTypes DEF ProjectionInv, ProjectionTypes, Inboxes, Items
<1>6. Handlers'
  BY <1>1, <1>2 DEF ProjectionInv, Handlers
<1>7. OnlyRedacted'
  BY <1>1, <1>2 DEF ProjectionInv, OnlyRedacted, OfType
<1> QED
  BY <1>3, <1>4, <1>5, <1>6, <1>7 DEF ProjectionInv

LEMMA ItemIs ==
  \A e \in Projection!Events : \A b \in BOOLEAN :
    /\ Projection!StateItem(e, b) \in Items /\ Projection!StateItem(e, b).ev = e /\ Projection!StateItem(e, b).kind = "state"
    /\ Projection!StateItem(e, b).pruned = b
BY DEF Projection!StateItem, Items

LEMMA CopyIs ==
  \A e \in Projection!Events : \A b \in BOOLEAN :
    LET c == [ev |-> e, pruned |-> b] IN c \in Copies /\ c.ev = e /\ c.pruned = b
BY DEF Copies

\* The items of a response of either connection.
BoxOK(w, S) ==
  S \subseteq Items /\ \A i \in S : /\ i.ev <= sent
                                    /\ i.kind = "redaction" => w = "sync" /\ i.ev \in noted'
                                    /\ i.pruned => i.ev \in Projection!Applied

LEMMA ResponseKeeps ==
  ASSUME Projection!StateProjectionAssumption, ProjectionInv, NEW w \in Projection!Writers,
         NEW S, BoxOK(w, S),
         inbox' = [inbox EXCEPT ![w] = S],
         UNCHANGED <<sent, redacted, resets, job, tuples, log, summary, ingest, hint, work, dirty>>,
         noted \subseteq noted', noted' \subseteq redacted,
         sdk' \in [SdkTypes -> Copies], synced' \in [Types -> 0..sent],
         polled' \in [SuppTypes -> 0..sent],
         \A t \in SdkTypes : OfType(t, sdk'[t].ev) /\ (sdk'[t].pruned => sdk'[t].ev \in Projection!Applied),
         NotedIsPast'
  PROVE  ProjectionInv'
<1>1. Projection!Applied' = Projection!Applied
  BY DEF Projection!Applied
<1>2. inbox' \in [Projection!Writers -> SUBSET Items]
      /\ \A v \in Projection!Writers : inbox'[v] = IF v = w THEN S ELSE inbox[v]
  BY DEF ProjectionInv, ProjectionTypes, BoxOK
<1>3. ProjectionTypes'
  BY <1>2 DEF ProjectionInv, ProjectionTypes
<1>4. RepairTypes'
  BY DEF ProjectionInv, RepairTypes
<1>5. Inboxes'
  BY <1>2 DEF ProjectionInv, Inboxes, BoxOK
<1>6. Handlers'
  BY DEF ProjectionInv, Handlers
<1>7. OnlyRedacted'
  BY <1>1, <1>2 DEF ProjectionInv, OnlyRedacted, OfType, BoxOK
<1> QED
  BY <1>3, <1>4, <1>5, <1>6, <1>7 DEF ProjectionInv

\* What the primary sync leaves in the cache and in its inbox.
LEMMA SyncDoes ==
  ASSUME Projection!StateProjectionAssumption, ProjectionInv, Projection!Sync
  PROVE  /\ Projection!Free("sync") /\ noted' = redacted
         /\ UNCHANGED <<sent, redacted, polled, resets, job, tuples, log, summary, ingest, hint, work,
                        dirty>>
         /\ \E S : BoxOK("sync", S) /\ inbox' = [inbox EXCEPT !["sync"] = S]
                   /\ \A e \in redacted \ noted : Projection!RedactionItem(e) \in S
         /\ sdk' \in [SdkTypes -> Copies] /\ synced' \in [Types -> 0..sent]
         /\ \A t \in SdkTypes :
              /\ OfType(t, sdk'[t].ev) /\ (sdk'[t].pruned => sdk'[t].ev \in Projection!Applied)
              /\ sdk'[t].pruned /\ sdk'[t].ev # 0 =>
                   sdk'[t] = sdk[t] \/ sdk'[t].ev \in redacted \ noted
         /\ NotedIsPast'
<1> DEFINE required == {Projection!Current(t) : t \in {u \in SdkTypes : Projection!Current(u) > synced[u]}}
           new == {e \in 1..sent : e > synced[TypeOf[e]]}
           redactions == redacted \ noted
<1>0. ProjectionTypes
  BY DEF ProjectionInv
<1>1. PICK timeline \in SUBSET new, late \in SUBSET (redactions \cap Projection!Applied) :
        /\ inbox' = [inbox EXCEPT !["sync"] =
             {Projection!StateItem(e, e \in Projection!Applied \ late) : e \in required \cup timeline}
               \cup {Projection!RedactionItem(e) : e \in redactions}]
        /\ sdk' = [t \in SdkTypes |->
             LET cached == IF Projection!Current(t) > synced[t]
                           THEN [ev |-> Projection!Current(t), pruned |-> Projection!Current(t) \in Projection!Applied \ late]
                           ELSE sdk[t]
             IN [cached EXCEPT !.pruned = @ \/ cached.ev \in redactions]]
  BY DEF Projection!Sync
<1>2. /\ Projection!Free("sync") /\ noted' = redacted /\ synced' = [t \in Types |-> Projection!Current(t)]
      /\ UNCHANGED <<sent, redacted, polled, resets, job, tuples, log, summary, ingest, hint, work,
                     dirty>>
  BY DEF Projection!Sync, Projection!server
<1>3. synced' \in [Types -> 0..sent]
  BY <1>0, <1>2, CurrentIs
<1>4. NotedIsPast'
  BY <1>0, <1>2, CurrentIs, EventTypes DEF NotedIsPast, ProjectionTypes
<1>5. required \cup timeline \subseteq 1..sent
  <2>1. \A t \in SdkTypes : Projection!Current(t) > synced[t] => Projection!Current(t) \in 1..sent
    BY <1>0, CurrentIs, EventTypes DEF ProjectionTypes
  <2> QED
    BY <2>1
<1> DEFINE S == {Projection!StateItem(e, e \in Projection!Applied \ late) : e \in required \cup timeline}
                  \cup {Projection!RedactionItem(e) : e \in redactions}
<1>6. BoxOK("sync", S)
  <2>1. ASSUME NEW e \in required \cup timeline
        PROVE  LET i == Projection!StateItem(e, e \in Projection!Applied \ late)
               IN  /\ i \in Items /\ i.ev <= sent /\ i.kind # "redaction"
                   /\ i.pruned => i.ev \in Projection!Applied
    <3>1. e \in Projection!Events /\ e <= sent
      BY <1>0, <1>5, EventTypes
    <3>2. (e \in Projection!Applied \ late) \in BOOLEAN
      OBVIOUS
    <3>3. LET i == Projection!StateItem(e, e \in Projection!Applied \ late)
          IN  i \in Items /\ i.ev = e /\ i.kind = "state" /\ i.pruned = (e \in Projection!Applied \ late)
      BY <3>1, <3>2, ItemIs, Zenon
    <3> QED
      BY <3>1, <3>3
  <2>2. ASSUME NEW e \in redactions
        PROVE  LET i == Projection!RedactionItem(e)
               IN  i \in Items /\ i.ev <= sent /\ i.ev \in noted' /\ ~i.pruned
    <3>1. e \in Projection!Events /\ e <= sent
      BY <1>0, EventTypes DEF ProjectionTypes
    <3> QED
      BY <1>2, <3>1 DEF Projection!RedactionItem, Items
  <2> HIDE DEF required, redactions
  <2> QED
    BY <2>1, <2>2 DEF BoxOK
<1>7. \A e \in redactions : Projection!RedactionItem(e) \in S
  OBVIOUS
<1>8. ASSUME NEW t \in SdkTypes
      PROVE  /\ sdk'[t] \in Copies
             /\ OfType(t, sdk'[t].ev) /\ (sdk'[t].pruned => sdk'[t].ev \in Projection!Applied)
             /\ sdk'[t].pruned /\ sdk'[t].ev # 0 =>
                  sdk'[t] = sdk[t] \/ sdk'[t].ev \in redacted \ noted
  <2>1. /\ sdk[t] \in Copies /\ OfType(t, sdk[t].ev) /\ (sdk[t].pruned => sdk[t].ev \in Projection!Applied)
        /\ NotedIsPast /\ noted \subseteq redacted /\ redacted \subseteq 1..sent
        /\ sent \in Nat /\ synced[t] \in 0..sent
    BY EventTypes DEF ProjectionInv, ProjectionTypes, OnlyRedacted
  <2>2. ASSUME NEW c \in Copies, OfType(t, c.ev), c.pruned => c.ev \in Projection!Applied,
               sdk'[t] = [c EXCEPT !.pruned = @ \/ c.ev \in redactions]
        PROVE  /\ sdk'[t] \in Copies
               /\ OfType(t, sdk'[t].ev) /\ (sdk'[t].pruned => sdk'[t].ev \in Projection!Applied)
               /\ sdk'[t].pruned => sdk'[t] = c \/ sdk'[t].ev \in redacted \ noted
               /\ sdk'[t].ev = c.ev
    <3>1. /\ sdk'[t] = [ev |-> c.ev, pruned |-> (c.pruned \/ c.ev \in redactions)]
          /\ c = [ev |-> c.ev, pruned |-> c.pruned] /\ c.pruned \in BOOLEAN
          /\ c.ev \in Projection!Events \cup {0}
      BY <2>2 DEF Copies
    <3>2. c.ev \in redactions => c.ev \in Projection!Applied
      BY <1>0, <2>1, <2>2, EventTypes DEF OfType, Projection!Applied
    <3>3. sdk'[t].ev = c.ev /\ sdk'[t].pruned = (c.pruned \/ c.ev \in redactions)
      BY <3>1
    <3>4. sdk'[t] \in Copies
      BY <3>1 DEF Copies
    <3>5. sdk'[t].pruned => sdk'[t] = c \/ sdk'[t].ev \in redacted \ noted
      BY <3>1
    <3> QED
      BY <2>2, <3>2, <3>3, <3>4, <3>5
  <2>3. CASE Projection!Current(t) > synced[t]
    <3> DEFINE c == [ev |-> Projection!Current(t), pruned |-> Projection!Current(t) \in Projection!Applied \ late]
    <3>1. Projection!Current(t) \in Projection!Events /\ Projection!Current(t) \in 1..sent /\ TypeOf[Projection!Current(t)] = t
      BY <1>0, <2>1, <2>3, CurrentIs
    <3>6. (Projection!Current(t) \in Projection!Applied \ late) \in BOOLEAN
      OBVIOUS
    <3>7. c \in Copies /\ c.ev = Projection!Current(t) /\ c.pruned = (Projection!Current(t) \in Projection!Applied \ late)
      BY <3>1, <3>6, CopyIs, Zenon
    <3>2. c \in Copies /\ OfType(t, c.ev) /\ (c.pruned => c.ev \in Projection!Applied) /\ c.ev = Projection!Current(t)
      BY <3>1, <3>7 DEF OfType
    <3>3. Projection!Current(t) \notin noted
      BY <1>0, <2>1, <2>3, <3>1, EventTypes DEF NotedIsPast
    <3>4. sdk'[t] = [c EXCEPT !.pruned = @ \/ c.ev \in redactions]
      BY <1>1, <2>3
    <3>5. c.pruned => Projection!Current(t) \in redacted
      BY <3>7 DEF Projection!Applied
    <3> HIDE DEF c
    <3> QED
      BY <2>2, <3>2, <3>3, <3>4, <3>5
  <2>4. CASE ~(Projection!Current(t) > synced[t])
    <3>1. sdk'[t] = [sdk[t] EXCEPT !.pruned = @ \/ sdk[t].ev \in redactions]
      BY <1>1, <2>4
    <3> QED
      BY <2>1, <2>2, <3>1
  <2> QED
    BY <2>3, <2>4
<1>9. sdk' \in [SdkTypes -> Copies]
  BY <1>1, <1>8
<1> HIDE DEF S, required, redactions
<1>10. inbox' = [inbox EXCEPT !["sync"] = S]
  BY <1>1 DEF S
<1>11. \E Q : BoxOK("sync", Q) /\ inbox' = [inbox EXCEPT !["sync"] = Q]
             /\ \A e \in redacted \ noted : Projection!RedactionItem(e) \in Q
  BY <1>6, <1>7, <1>10 DEF redactions
<1> QED
  BY <1>2, <1>3, <1>4, <1>8, <1>9, <1>11

LEMMA SyncKeeps == ASSUME Projection!StateProjectionAssumption, ProjectionInv, Projection!Sync PROVE ProjectionInv'
<1>1. PICK S : BoxOK("sync", S) /\ inbox' = [inbox EXCEPT !["sync"] = S]
  BY SyncDoes
<1>2. "sync" \in Projection!Writers
  BY DEF Projection!Writers
<1>3. noted \subseteq redacted /\ polled' \in [SuppTypes -> 0..sent]
  BY SyncDoes DEF ProjectionInv, ProjectionTypes
<1> QED
  BY <1>1, <1>2, <1>3, SyncDoes, ResponseKeeps

LEMMA PollKeeps ==
  ASSUME Projection!StateProjectionAssumption, ProjectionInv,
         Projection!Poll \/ Projection!UnknownPos
  PROVE  ProjectionInv'
<1>0. ProjectionTypes
  BY DEF ProjectionInv
<1>1. /\ sdk \in [SdkTypes -> Copies] /\ synced \in [Types -> 0..sent]
      /\ \A t \in SdkTypes : OfType(t, sdk[t].ev) /\ (sdk[t].pruned => sdk[t].ev \in Projection!Applied)
      /\ NotedIsPast /\ noted \subseteq redacted /\ polled \in [SuppTypes -> 0..sent]
      /\ "supp" \in Projection!Writers
  BY DEF ProjectionInv, ProjectionTypes, OnlyRedacted, Projection!Writers
<1>2. CASE Projection!Poll
  <2> DEFINE changed == {t \in SuppTypes : Projection!Current(t) > polled[t]}
             S == {Projection!StateItem(Projection!Current(t), Projection!Current(t) \in Projection!Applied) : t \in changed}
  <2>1. /\ inbox' = [inbox EXCEPT !["supp"] = S] /\ polled' = [t \in SuppTypes |-> Projection!Current(t)]
        /\ UNCHANGED <<sent, redacted, sdk, synced, noted, resets, job, tuples, log, summary, ingest,
                       hint, work, dirty>>
    BY <1>2 DEF Projection!Poll, Projection!server
  <2>2. polled' \in [SuppTypes -> 0..sent]
    BY <1>0, <2>1, CurrentIs
  <2>3. ASSUME NEW t \in changed
        PROVE  LET i == Projection!StateItem(Projection!Current(t),
               Projection!Current(t) \in Projection!Applied)
               IN  i \in Items /\ i.ev <= sent /\ i.kind # "redaction" /\ (i.pruned => i.ev \in Projection!Applied)
    <3>1. Projection!Current(t) \in Projection!Events /\ Projection!Current(t) <= sent
      BY <1>0, <1>1, CurrentIs, EventTypes
    <3>2. (Projection!Current(t) \in Projection!Applied) \in BOOLEAN
      OBVIOUS
    <3>3. LET i == Projection!StateItem(Projection!Current(t), Projection!Current(t) \in Projection!Applied)
          IN  /\ i \in Items /\ i.ev = Projection!Current(t) /\ i.kind = "state"
              /\ i.pruned = (Projection!Current(t) \in Projection!Applied)
      BY <3>1, <3>2, ItemIs, Zenon
    <3> QED
      BY <3>1, <3>3
  <2> HIDE DEF changed
  <2>4. BoxOK("supp", S)
    BY <2>3 DEF BoxOK
  <2>5. NotedIsPast'
    BY <1>1, <2>1 DEF NotedIsPast
  <2> HIDE DEF S
  <2>6. /\ sdk' \in [SdkTypes -> Copies] /\ synced' \in [Types -> 0..sent]
        /\ \A t \in SdkTypes : OfType(t, sdk'[t].ev) /\ (sdk'[t].pruned => sdk'[t].ev \in Projection!Applied)
        /\ noted \subseteq noted' /\ noted' \subseteq redacted
    BY <1>1, <2>1
  <2> QED
    BY <1>1, <2>1, <2>2, <2>4, <2>5, <2>6, ResponseKeeps
<1>3. CASE Projection!UnknownPos
  <2>1. /\ resets' \in 0..MaxResets /\ polled' = [t \in SuppTypes |-> 0]
        /\ UNCHANGED <<sent, redacted, sdk, synced, noted, inbox, job, tuples, log, summary, ingest,
                       hint, work, dirty>>
    BY <1>0, <1>3 DEF Projection!UnknownPos, Projection!server, ProjectionTypes,
       Projection!StateProjectionAssumption
  <2>2. ProjectionTypes'
    BY <1>0, <2>1, EventTypes DEF ProjectionTypes
  <2>3. Projection!Applied' = Projection!Applied
    BY <2>1 DEF Projection!Applied
  <2> QED
    BY <2>1, <2>2, <2>3 DEF ProjectionInv, RepairTypes, Inboxes, Handlers, OnlyRedacted,
       OfType, NotedIsPast
<1> QED
  BY <1>2, <1>3

LEMMA TakeKeeps ==
  ASSUME Projection!StateProjectionAssumption, ProjectionInv, NEW w \in Projection!Writers,
         Projection!Take(w)
  PROVE  ProjectionInv'
<1>0. ProjectionTypes
  BY DEF ProjectionInv
<1>1. PICK i \in inbox[w] :
        /\ inbox' = [inbox EXCEPT ![w] = @ \ {i}]
        /\ job' = [job EXCEPT ![w] =
             IF i.kind = "state"
             THEN [Projection!Idle EXCEPT !.pc = "upsert", !.ev = i.ev, !.pruned = i.pruned,
                               !.prior = tuples[TypeOf[i.ev]]]
             ELSE [Projection!Idle EXCEPT !.pc = "log", !.ev = i.ev]]
  BY DEF Projection!Take
<1>2. /\ i \in Items /\ i.ev \in Projection!Events /\ i.ev <= sent /\ i.pruned \in BOOLEAN
      /\ i.kind \in {"state", "redaction"}
      /\ i.kind = "redaction" => w = "sync" /\ i.ev \in noted
      /\ i.pruned => i.ev \in Projection!Applied
  BY DEF ProjectionInv, ProjectionTypes, Inboxes, OnlyRedacted, Items
<1>3. i.ev \in 1..sent /\ tuples[TypeOf[i.ev]] \in Projection!Rows
  BY <1>0, <1>2, EventTypes DEF ProjectionTypes
<1> DEFINE a == [Projection!Idle EXCEPT !.pc = "upsert", !.ev = i.ev, !.pruned = i.pruned,
                             !.prior = tuples[TypeOf[i.ev]]]
           b == [Projection!Idle EXCEPT !.pc = "log", !.ev = i.ev]
<1>4. a \in Jobs /\ a.pc = "upsert" /\ a.ev = i.ev /\ a.pruned = i.pruned
  BY <1>2, <1>3, Blanks DEF Jobs, Projection!Pcs
<1>5. b \in Jobs /\ b.pc = "log" /\ b.ev = i.ev /\ b.pruned = FALSE
  BY <1>2, Blanks DEF Jobs, Projection!Pcs
<1>6. HandlerOK(w, a) /\ (i.kind = "redaction" => HandlerOK(w, b))
  BY <1>2, <1>3, <1>4, <1>5 DEF HandlerOK
<1>7. PICK j : j = IF i.kind = "state" THEN a ELSE b
  OBVIOUS
<1>8. HandlerOK(w, j) /\ job' = [job EXCEPT ![w] = j]
  BY <1>1, <1>2, <1>6, <1>7
<1>9. /\ inbox' \in [Projection!Writers -> SUBSET Items] /\ \A v \in Projection!Writers : inbox'[v] \subseteq inbox[v]
  BY <1>0, <1>1 DEF ProjectionTypes
<1>10. /\ UNCHANGED <<sent, redacted, sdk, synced, noted, polled, resets, tuples, ingest, work>>
       /\ UNCHANGED <<log, summary, hint, dirty>>
  BY DEF Projection!Take, Projection!server
<1>11. /\ log' \subseteq noted /\ summary' \in [there : BOOLEAN, shows : Projection!Views]
       /\ hint' \in BOOLEAN /\ dirty' \subseteq Types
  BY <1>0, <1>10 DEF ProjectionTypes
<1> QED
  BY <1>8, <1>9, <1>10, <1>11, HandlerMoves

\* The fields of a handler.
LEMMA JobFields ==
  ASSUME NEW j \in Jobs
  PROVE  /\ j = [pc |-> j.pc, ev |-> j.ev, pruned |-> j.pruned, prior |-> j.prior,
                 changed |-> j.changed, snap |-> j.snap, hit |-> j.hit]
         /\ j.pc \in Projection!Pcs /\ j.ev \in Projection!Events \cup {0} /\ j.pruned \in BOOLEAN /\ j.prior \in Projection!Rows
         /\ j.changed \in BOOLEAN /\ j.snap \in Projection!Views /\ j.hit \in BOOLEAN
BY DEF Jobs

\* What becomes of the record of a handler that goes on.
Onward(j, k, p) == k \in Jobs /\ k.pc = p /\ k.ev = j.ev /\ k.pruned = j.pruned

LEMMA JobMoves ==
  ASSUME NEW j \in Jobs, NEW p \in Projection!Pcs, NEW r \in Projection!Rows,
         NEW c \in BOOLEAN, NEW s \in Projection!Views,
         NEW h \in BOOLEAN
  PROVE  /\ Onward(j, [j EXCEPT !.changed = c, !.prior = r, !.pc = p], p)
         /\ Onward(j, [j EXCEPT !.pc = p, !.snap = s, !.hit = h], p)
         /\ Onward(j, [j EXCEPT !.pc = p, !.changed = c], p)
         /\ Onward(j, [j EXCEPT !.pc = p], p)
BY DEF Jobs, Onward

\* A handler goes on with its event.
LEMMA GoesOn ==
  ASSUME Projection!StateProjectionAssumption, ProjectionInv, NEW w \in Projection!Writers,
         NEW p,
         job[w].pc \notin {"idle", "log"}, p \notin {"log", "filter"},
         NEW k, Onward(job[w], k, p)
  PROVE  HandlerOK(w, k)
BY HandlersAre DEF HandlerOK, Onward

\* The tuple after a write.
LEMMA MergedIs ==
  ASSUME NEW e \in Projection!Events, NEW p \in BOOLEAN, NEW cur \in Projection!Rows,
         cur.pruned = cur.red
  PROVE  LET m == Projection!Merged(e, p, cur)
         IN  /\ m \in Projection!Rows /\ m.ev = e /\ m.pruned = m.red
             /\ m.red <=> (cur.ev = e /\ cur.red) \/ p
<1>1. cur.red \in BOOLEAN /\ cur.pruned \in BOOLEAN
  BY DEF Projection!Rows
<1>2. CASE cur.ev = e /\ cur.red
  <2>1. Projection!Merged(e, p, cur) = [ev |-> e, pruned |-> TRUE, red |-> TRUE]
    BY <1>1, <1>2 DEF Projection!Merged
  <2> QED
    BY <1>2, <2>1 DEF Projection!Rows
<1>3. CASE ~(cur.ev = e /\ cur.red)
  <2>1. Projection!Merged(e, p, cur) = [ev |-> e, pruned |-> p, red |-> p]
    BY <1>1, <1>3 DEF Projection!Merged
  <2> QED
    BY <1>3, <2>1 DEF Projection!Rows
<1> QED
  BY <1>2, <1>3

\* What the upsert of a handler does to the tuple of its type.
Wrote(w, new) ==
  /\ job[w].pc = "upsert" /\ job[w].ev \in 1..sent /\ job[w].ev \in Projection!Events
  /\ ~(work.tx.on /\ work.tx.t = TypeOf[job[w].ev])
  /\ tuples' = [tuples EXCEPT ![TypeOf[job[w].ev]] = new]
  /\ new \in Projection!Rows /\ new.pruned = new.red
  /\ \/ new = tuples[TypeOf[job[w].ev]]
     \/ /\ new.ev = job[w].ev /\ Projection!Fresh(job[w].ev, tuples[TypeOf[job[w].ev]])
        /\ new.red <=> \/ tuples[TypeOf[job[w].ev]].ev = job[w].ev /\ tuples[TypeOf[job[w].ev]].red
                       \/ job[w].pruned

LEMMA UpsertDoes ==
  ASSUME Projection!StateProjectionAssumption, ProjectionInv, NEW w \in Projection!Writers,
         Projection!upsert_room_state(w)
  PROVE  /\ \E new : Wrote(w, new)
         /\ \E j : /\ HandlerOK(w, j) /\ job' = [job EXCEPT ![w] = j]
                   /\ j.ev = job[w].ev /\ j.pruned = job[w].pruned /\ j.pc \in {"view", "mark"}
         /\ UNCHANGED <<sent, redacted, sdk, synced, noted, polled, resets, inbox, log, summary,
                        ingest, hint, work>>
         /\ dirty' \subseteq Types
<1>0. ProjectionTypes /\ HandlerOK(w, job[w]) /\ job \in [Projection!Writers -> Jobs]
  BY HandlersAre DEF ProjectionInv, ProjectionTypes
<1> DEFINE e == job[w].ev
           t == TypeOf[e]
           fresh == Projection!Fresh(e, tuples[t])
           new == IF fresh THEN Projection!Merged(e, job[w].pruned, tuples[t]) ELSE tuples[t]
<1>1. /\ job[w].pc = "upsert" /\ ~(work.tx.on /\ work.tx.t = t)
      /\ tuples' = [tuples EXCEPT ![t] = new]
      /\ dirty' = IF new /= tuples[t] THEN dirty \cup {t} ELSE dirty
      /\ job' = [job EXCEPT ![w].changed = fresh /\ Projection!Changed(new, job[w].prior),
                            ![w].prior = Projection!NoRow,
                            ![w].pc = IF t \in DisplayTypes THEN "view" ELSE "mark"]
      /\ UNCHANGED <<sent, redacted, sdk, synced, noted, polled, resets, inbox, log, summary,
                     ingest, hint, work>>
  BY DEF Projection!upsert_room_state, Projection!server
<1>2. /\ e \in 1..sent /\ e \in Projection!Events /\ t \in Types /\ tuples[t] \in Projection!Rows /\ tuples[t].pruned = tuples[t].red
      /\ job[w].pruned \in BOOLEAN
  BY <1>0, <1>1, EventTypes, JobFields DEF HandlerOK, ProjectionInv, ProjectionTypes,
     OnlyRedacted
<1>3. Wrote(w, new)
  <2>1. CASE fresh
    BY <1>1, <1>2, <2>1, MergedIs DEF Wrote
  <2>2. CASE ~fresh
    BY <1>1, <1>2, <2>2 DEF Wrote
  <2> QED
    BY <2>1, <2>2
<1>4. dirty' \subseteq Types
  BY <1>0, <1>1, <1>2 DEF ProjectionTypes
<1> HIDE DEF new, fresh
<1>5. PICK c : c = (fresh /\ Projection!Changed(new, job[w].prior))
  OBVIOUS
<1>6. c \in BOOLEAN
  BY <1>5
<1>7. PICK p \in {"view", "mark"} : p = IF t \in DisplayTypes THEN "view" ELSE "mark"
  OBVIOUS
<1> DEFINE j == [job[w] EXCEPT !.changed = c, !.prior = Projection!NoRow, !.pc = p]
<1>8. job' = [job EXCEPT ![w].changed = c, ![w].prior = Projection!NoRow, ![w].pc = p]
  BY <1>1, <1>5, <1>7
<1>9. job[w] \in Jobs
  BY <1>0
<1>10. job' = [job EXCEPT ![w] = j]
  BY <1>0, <1>8
<1>13. p \in Projection!Pcs /\ Projection!NoRow \in Projection!Rows /\ Projection!Blank \in Projection!Views
  BY Blanks DEF Projection!Pcs
<1>14. Onward(job[w], j, p)
  BY <1>6, <1>9, <1>13, JobMoves, Zenon
<1> HIDE DEF j
<1>11. HandlerOK(w, j)
  BY <1>1, <1>14, GoesOn
<1>12. \E k : /\ HandlerOK(w, k) /\ job' = [job EXCEPT ![w] = k]
              /\ k.ev = job[w].ev /\ k.pruned = job[w].pruned /\ k.pc \in {"view", "mark"}
  BY <1>10, <1>11, <1>14 DEF Onward
<1> QED
  BY <1>1, <1>3, <1>4, <1>12

LEMMA UpsertKeeps ==
  ASSUME Projection!StateProjectionAssumption, ProjectionInv, NEW w \in Projection!Writers,
         Projection!upsert_room_state(w)
  PROVE  ProjectionInv'
<1>1. PICK new : Wrote(w, new)
  BY UpsertDoes
<1>2. PICK j : HandlerOK(w, j) /\ job' = [job EXCEPT ![w] = j]
  BY UpsertDoes
<1>3. /\ UNCHANGED <<sent, redacted, sdk, synced, noted, polled, resets, inbox, log, summary,
                     ingest, hint, work>>
      /\ dirty' \subseteq Types
  BY UpsertDoes
<1>0. ProjectionTypes /\ HandlerOK(w, job[w]) /\ Projection!Applied' = Projection!Applied
  BY <1>3, HandlersAre DEF ProjectionInv, Projection!Applied
<1>4. job' \in [Projection!Writers -> Jobs] /\ \A v \in Projection!Writers : job'[v] = IF v = w THEN j ELSE job[v]
  BY <1>0, <1>2 DEF ProjectionTypes, HandlerOK
<1> DEFINE t == TypeOf[job[w].ev]
<1>5. /\ t \in Types /\ job[w].ev \in Projection!Events /\ tuples' \in [Types -> Projection!Rows]
      /\ \A u \in Types : tuples'[u] = IF u = t THEN new ELSE tuples[u]
  BY <1>0, <1>1, EventTypes DEF Wrote, ProjectionTypes
<1>6. ProjectionTypes'
  BY <1>0, <1>3, <1>4, <1>5 DEF ProjectionTypes
<1>7. RepairTypes' /\ NotedIsPast' /\ Inboxes'
  BY <1>3 DEF ProjectionInv, RepairTypes, NotedIsPast, Inboxes
<1>8. Handlers'
  BY <1>2, <1>3, <1>4 DEF ProjectionInv, Handlers, HandlerOK
<1>9. /\ OfType(t, new.ev) /\ new.pruned = new.red /\ (new.pruned => new.ev \in Projection!Applied)
  <2>1. /\ OfType(t, tuples[t].ev) /\ tuples[t].pruned = tuples[t].red /\ (tuples[t].pruned => tuples[t].ev \in Projection!Applied)
        /\ job[w].pruned => job[w].ev \in Projection!Applied
    BY <1>0, <1>5 DEF ProjectionInv, OnlyRedacted, HandlerOK
  <2> QED
    BY <1>1, <2>1 DEF Wrote, OfType
<1>10. OnlyRedacted'
  <2>1. \A u \in Types : /\ OfType(u, tuples'[u].ev) /\ tuples'[u].pruned = tuples'[u].red
                         /\ tuples'[u].pruned => tuples'[u].ev \in Projection!Applied
    BY <1>5, <1>9 DEF ProjectionInv, OnlyRedacted
  <2>2. work.tx.on => tuples'[work.tx.t] = tuples[work.tx.t]
    BY <1>1, <1>5 DEF Wrote, ProjectionInv, RepairTypes
  <2>3. \A v \in Projection!Writers : job'[v].pruned => job'[v].ev \in Projection!Applied
    BY <1>2, <1>4 DEF ProjectionInv, OnlyRedacted, HandlerOK
  <2>4. /\ \A v \in Projection!Writers : \A i \in inbox'[v] : i.pruned => i.ev \in Projection!Applied
        /\ work'.plan \subseteq Projection!Applied
        /\ work'.tx.on => tuples'[work'.tx.t].ev \in Projection!Applied
        /\ \A u \in SdkTypes : OfType(u, sdk'[u].ev) /\ (sdk'[u].pruned => sdk'[u].ev \in Projection!Applied)
    BY <1>3, <2>2 DEF ProjectionInv, OnlyRedacted
  <2> QED
    BY <1>0, <2>1, <2>3, <2>4 DEF OnlyRedacted, OfType
<1> QED
  BY <1>6, <1>7, <1>8, <1>10 DEF ProjectionInv

\* A step of a handler between its first and its last.
Follows(p, q) ==
  \/ p = "view" /\ q = "refresh"
  \/ p = "refresh" /\ q \in {"mark", "hint"}
  \/ p = "mark" /\ q = "hint"
  \/ p = "upsert" /\ q = "hint"
  \/ p = "log" /\ q = "filter"

Proceeds(w, k) ==
  /\ job' = [job EXCEPT ![w] = k] /\ Onward(job[w], k, k.pc) /\ Follows(job[w].pc, k.pc)
  /\ UNCHANGED <<sent, redacted, sdk, synced, noted, polled, resets, inbox, tuples, ingest, hint,
                 work>>
  /\ log' \subseteq noted /\ dirty' \subseteq Types
  /\ summary' \in [there : BOOLEAN, shows : Projection!Views]

LEMMA HandlerProceeds ==
  ASSUME Projection!StateProjectionAssumption, ProjectionInv, NEW w \in Projection!Writers,
         Projection!View(w) \/ Projection!Refresh(w) \/ Projection!Mark(w) \/ Projection!Fail(w) \/ (w = "sync" /\ Projection!StoreRedaction)
  PROVE  \E k : Proceeds(w, k)
<1>0. /\ ProjectionTypes /\ job \in [Projection!Writers -> Jobs] /\ HandlerOK(w, job[w]) /\ job[w] \in Jobs
      /\ summary \in [there : BOOLEAN, shows : Projection!Views] /\ log \subseteq noted /\ dirty \subseteq Types
  BY HandlersAre DEF ProjectionInv, ProjectionTypes
<1>1. Projection!Blank \in Projection!Views /\ Projection!NoRow \in Projection!Rows /\ Projection!Idle \in Jobs /\ job[w].snap \in Projection!Views
      /\ Projection!Pcs = {"idle", "upsert", "view", "refresh", "mark", "hint", "log", "filter"}
  BY <1>0, Blanks, JobFields DEF Projection!Pcs
<1>2. CASE Projection!View(w)
  <2> DEFINE k == [job[w] EXCEPT !.pc = "refresh", !.snap = Projection!Shown(tuples), !.hit = summary.there]
  <2>1. Projection!Shown(tuples) \in Projection!Views /\ summary.there \in BOOLEAN
    BY <1>0, ShownIs DEF ProjectionTypes, Projection!StateProjectionAssumption
  <2>2. Onward(job[w], k, "refresh")
    BY <1>0, <1>1, <2>1, JobMoves, Zenon
  <2>3. job' = [job EXCEPT ![w] = k]
    BY <1>0, <1>2 DEF Projection!View
  <2> HIDE DEF k
  <2>4. Proceeds(w, k)
    BY <1>0, <1>2, <2>2, <2>3 DEF Projection!View, Proceeds, Onward, Follows,
       Projection!server
  <2> QED
    BY <2>4
<1>3. CASE Projection!Refresh(w)
  <2> DEFINE k == [job[w] EXCEPT !.pc = "mark", !.snap = Projection!Blank, !.hit = FALSE]
  <2>1. "mark" \in Projection!Pcs /\ FALSE \in BOOLEAN
    BY <1>1
  <2>2. Onward(job[w], k, "mark")
    BY <1>0, <1>1, <2>1, JobMoves, Zenon
  <2>3. job' = [job EXCEPT ![w] = k]
    BY <1>0, <1>3 DEF Projection!Refresh
  <2>4. summary' \in [there : BOOLEAN, shows : Projection!Views]
    BY <1>0, <1>1, <1>3 DEF Projection!Refresh
  <2> HIDE DEF k
  <2>5. Proceeds(w, k)
    BY <1>0, <1>3, <2>2, <2>3, <2>4 DEF Projection!Refresh, Proceeds, Onward, Follows,
       Projection!server
  <2> QED
    BY <2>5
<1>4. CASE Projection!Mark(w)
  <2> DEFINE k == [job[w] EXCEPT !.pc = "hint", !.changed = FALSE]
  <2>1. "hint" \in Projection!Pcs /\ FALSE \in BOOLEAN
    BY <1>1
  <2>2. Onward(job[w], k, "hint")
    BY <1>0, <1>1, <2>1, JobMoves, Zenon
  <2>3. job' = [job EXCEPT ![w] = k]
    BY <1>0, <1>4 DEF Projection!Mark
  <2>4. dirty' \subseteq Types
    BY <1>0, <1>4 DEF Projection!Mark
  <2> HIDE DEF k
  <2>5. Proceeds(w, k)
    BY <1>0, <1>4, <2>2, <2>3, <2>4 DEF Projection!Mark, Proceeds, Onward, Follows,
       Projection!server
  <2> QED
    BY <2>5
<1>5. CASE Projection!Fail(w)
  <2> DEFINE k == [Projection!Idle EXCEPT !.pc = "hint", !.ev = job[w].ev, !.pruned = job[w].pruned]
  <2>1. job[w].ev \in Projection!Events \cup {0} /\ job[w].pruned \in BOOLEAN
    BY <1>0, JobFields
  <2>2. Onward(job[w], k, "hint")
    BY <1>1, <2>1 DEF Jobs, Onward
  <2>3. job' = [job EXCEPT ![w] = k]
    BY <1>0, <1>5 DEF Projection!Fail
  <2> HIDE DEF k
  <2>5. Proceeds(w, k)
    BY <1>0, <1>5, <2>2, <2>3 DEF Projection!Fail, Proceeds, Onward, Follows,
       Projection!server
  <2> QED
    BY <2>5
<1>6. CASE w = "sync" /\ Projection!StoreRedaction
  <2> DEFINE k == [job[w] EXCEPT !.pc = "filter"]
  <2>1. "filter" \in Projection!Pcs
    BY <1>1
  <2>2. Onward(job[w], k, "filter")
    BY <1>0, <1>1, <2>1, JobMoves, Zenon
  <2>3. job' = [job EXCEPT ![w] = k]
    BY <1>0, <1>6 DEF Projection!StoreRedaction
  <2>4. log' \subseteq noted
    BY <1>0, <1>6 DEF Projection!StoreRedaction, HandlerOK
  <2> HIDE DEF k
  <2>5. Proceeds(w, k)
    BY <1>0, <1>6, <2>2, <2>3, <2>4 DEF Projection!StoreRedaction, Proceeds, Onward, Follows,
       Projection!server
  <2> QED
    BY <2>5
<1> QED
  BY <1>2, <1>3, <1>4, <1>5, <1>6

LEMMA ProceedKeeps ==
  ASSUME Projection!StateProjectionAssumption, ProjectionInv, NEW w \in Projection!Writers,
         NEW k, Proceeds(w, k)
  PROVE  ProjectionInv'
<1>1. HandlerOK(w, k)
  BY HandlersAre DEF HandlerOK, Proceeds, Onward, Follows
<1>2. /\ inbox' \in [Projection!Writers -> SUBSET Items] /\ \A v \in Projection!Writers : inbox'[v] \subseteq inbox[v]
      /\ hint' \in BOOLEAN
  BY DEF Proceeds, ProjectionInv, ProjectionTypes
<1>3. job' = [job EXCEPT ![w] = k]
  BY DEF Proceeds
<1> QED
  BY <1>1, <1>2, <1>3, HandlerMoves DEF Proceeds

\* The last step of a handler: it hints, if it must, and is done.
Settles(w) ==
  /\ job' = [job EXCEPT ![w] = Projection!Idle] /\ hint' \in BOOLEAN
  /\ UNCHANGED <<sent, redacted, sdk, synced, noted, polled, resets, inbox, tuples, log, summary,
                 ingest, work, dirty>>
  /\ \/ job[w].pc = "hint"
     \/ w = "sync" /\ job[w].pc = "filter"

LEMMA HandlerSettles ==
  ASSUME Projection!StateProjectionAssumption, ProjectionInv, NEW w \in Projection!Writers,
         Projection!queue_state_hint(w) \/ (w = "sync" /\ Projection!queue_redaction_hint)
  PROVE  Settles(w)
<1>1. hint \in BOOLEAN
  BY DEF ProjectionInv, ProjectionTypes
<1> QED
  BY <1>1 DEF Projection!queue_state_hint, Projection!queue_redaction_hint,
     Projection!TrySend, Settles, Projection!server

LEMMA SettleKeeps ==
  ASSUME Projection!StateProjectionAssumption, ProjectionInv, NEW w \in Projection!Writers,
         Settles(w)
  PROVE  ProjectionInv'
<1>1. HandlerOK(w, Projection!Idle)
  BY Blanks DEF HandlerOK
<1>2. /\ inbox' \in [Projection!Writers -> SUBSET Items] /\ \A v \in Projection!Writers : inbox'[v] \subseteq inbox[v]
      /\ log' \subseteq noted /\ summary' \in [there : BOOLEAN, shows : Projection!Views]
      /\ hint' \in BOOLEAN /\ dirty' \subseteq Types
  BY DEF Settles, ProjectionInv, ProjectionTypes
<1> QED
  BY <1>1, <1>2, HandlerMoves DEF Settles

\* The record of the repair.
WorkShape(v) ==
  /\ v = [on |-> v.on, todo |-> v.todo, missing |-> v.missing, plan |-> v.plan, tx |-> v.tx]
  /\ v.tx = [on |-> v.tx.on, t |-> v.tx.t, snap |-> v.tx.snap, hit |-> v.tx.hit]

LEMMA SetOn ==
  ASSUME NEW v, WorkShape(v), NEW x,
         NEW q, q = [v EXCEPT !.on = x]
  PROVE  WorkShape(q) /\ q.on = x /\ q.todo = v.todo /\ q.missing = v.missing /\ q.plan = v.plan /\ q.tx = v.tx
BY DEF WorkShape

LEMMA SetTodo ==
  ASSUME NEW v, WorkShape(v), NEW x,
         NEW q, q = [v EXCEPT !.todo = x]
  PROVE  WorkShape(q) /\ q.todo = x /\ q.on = v.on /\ q.missing = v.missing /\ q.plan = v.plan /\ q.tx = v.tx
BY DEF WorkShape

LEMMA SetMissing ==
  ASSUME NEW v, WorkShape(v), NEW x,
         NEW q, q = [v EXCEPT !.missing = x]
  PROVE  WorkShape(q) /\ q.missing = x /\ q.on = v.on /\ q.todo = v.todo /\ q.plan = v.plan /\ q.tx = v.tx
BY DEF WorkShape

LEMMA SetPlan ==
  ASSUME NEW v, WorkShape(v), NEW x,
         NEW q, q = [v EXCEPT !.plan = x]
  PROVE  WorkShape(q) /\ q.plan = x /\ q.on = v.on /\ q.todo = v.todo /\ q.missing = v.missing /\ q.tx = v.tx
BY DEF WorkShape

LEMMA SetTx ==
  ASSUME NEW v, WorkShape(v), NEW x, x = [on |-> x.on, t |-> x.t, snap |-> x.snap,
         hit |-> x.hit],
         NEW q, q = [v EXCEPT !.tx = x]
  PROVE  WorkShape(q) /\ q.tx = x /\ q.on = v.on /\ q.todo = v.todo /\ q.missing = v.missing /\ q.plan = v.plan
BY DEF WorkShape

LEMMA RestIs ==
  /\ WorkShape(Projection!Rest) /\ Projection!Rest.on = FALSE /\ Projection!Rest.todo = {} /\ Projection!Rest.missing = {} /\ Projection!Rest.plan = {}
  /\ Projection!Rest.tx = Projection!NoTx
  /\ Projection!NoTx = [on |-> Projection!NoTx.on, t |-> Projection!NoTx.t, snap |-> Projection!NoTx.snap, hit |-> Projection!NoTx.hit]
  /\ Projection!NoTx.on = FALSE
BY DEF Projection!Rest, Projection!NoTx, WorkShape

\* The conditions on the repair.
RepairOK(v) ==
  /\ WorkShape(v) /\ v.on \in BOOLEAN /\ v.tx.on \in BOOLEAN /\ v.todo \subseteq Types
  /\ v.missing \subseteq Types /\ v.plan \subseteq Projection!Applied
  /\ v.tx.on => /\ v.tx.t \in Types /\ v.tx.snap \in Projection!Views /\ v.tx.hit \in BOOLEAN
                /\ tuples[v.tx.t].ev \in Projection!Applied

LEMMA RepairIs == ASSUME ProjectionInv PROVE RepairOK(work)
BY DEF ProjectionInv, RepairTypes, OnlyRedacted, RepairOK, WorkShape

LEMMA RepairMoves ==
  ASSUME ProjectionInv, RepairOK(work'), hint' \in BOOLEAN,
         UNCHANGED <<sent, redacted, sdk, synced, noted, polled, resets, inbox, job, tuples, log,
                     summary, ingest, dirty>>
  PROVE  ProjectionInv'
<1>1. Projection!Applied' = Projection!Applied
  BY DEF Projection!Applied
<1>2. ProjectionTypes'
  BY DEF ProjectionInv, ProjectionTypes
<1>3. RepairTypes'
  BY DEF RepairTypes, RepairOK, WorkShape
<1>4. Inboxes' /\ Handlers' /\ NotedIsPast'
  BY DEF ProjectionInv, Inboxes, Handlers, NotedIsPast
<1>5. OnlyRedacted'
  BY <1>1 DEF ProjectionInv, OnlyRedacted, RepairOK, OfType
<1> QED
  BY <1>2, <1>3, <1>4, <1>5 DEF ProjectionInv

rest == <<sent, redacted, sdk, synced, noted, polled, resets, inbox, job, tuples, log, summary,
          ingest, dirty>>

\* A hint or the sweep brings the room up; it is done, or given up.
LEMMA TickDoes ==
  ASSUME Projection!Tick
  PROVE  /\ ~work.on /\ hint' = FALSE /\ UNCHANGED rest
         /\ WorkShape(work') /\ work'.on = TRUE /\ work'.todo = Types /\ work'.missing = {}
         /\ work'.plan = {} /\ work'.tx = Projection!NoTx
<1> DEFINE a == [Projection!Rest EXCEPT !.on = TRUE]
<1>1. WorkShape(a) /\ a.on = TRUE /\ a.missing = {} /\ a.plan = {} /\ a.tx = Projection!NoTx
  BY RestIs, SetOn
<1>2. work' = [a EXCEPT !.todo = Types]
  BY DEF Projection!Tick
<1> HIDE DEF a
<1>3. /\ WorkShape(work') /\ work'.on = a.on /\ work'.todo = Types /\ work'.missing = a.missing
      /\ work'.plan = a.plan /\ work'.tx = a.tx
  BY <1>1, <1>2, SetTodo
<1> QED
  BY <1>1, <1>3 DEF Projection!Tick, rest, Projection!server

LEMMA ReadDoes ==
  ASSUME Projection!StateProjectionAssumption, ProjectionInv, Projection!ReadCache
  PROVE  /\ Projection!Scanning /\ hint' = hint /\ UNCHANGED rest
         /\ \E t \in work.todo :
              /\ WorkShape(work') /\ work'.on = work.on /\ work'.todo = work.todo \ {t}
              /\ work'.missing \subseteq work.missing \cup {t} /\ work'.tx = work.tx
              /\ work'.plan = IF t \in SdkTypes /\ sdk[t].ev /= 0 /\ sdk[t].pruned
                              THEN {sdk[t].ev} ELSE {}
<1>1. PICK t \in work.todo :
       work' = [work EXCEPT
         !.todo = @ \ {t},
         !.plan = IF t \in SdkTypes /\ sdk[t].ev /= 0 /\ sdk[t].pruned
                  THEN {sdk[t].ev} ELSE {},
         !.missing = IF t \in SdkTypes THEN @ ELSE @ \cup {t}]
  BY DEF Projection!ReadCache
<1> DEFINE p == IF t \in SdkTypes /\ sdk[t].ev /= 0 /\ sdk[t].pruned THEN {sdk[t].ev} ELSE {}
           m == IF t \in SdkTypes THEN work.missing ELSE work.missing \cup {t}
           a == [work EXCEPT !.todo = work.todo \ {t}]
           b == [a EXCEPT !.plan = p]
<1>2. work' = [b EXCEPT !.missing = m]
  BY <1>1
<1>3. WorkShape(work)
  BY RepairIs DEF RepairOK
<1>4. WorkShape(a) /\ a.todo = work.todo \ {t} /\ a.on = work.on /\ a.missing = work.missing
      /\ a.plan = work.plan /\ a.tx = work.tx
  BY <1>3, SetTodo
<1> HIDE DEF a, p, m
<1>5. WorkShape(b) /\ b.plan = p /\ b.on = a.on /\ b.todo = a.todo
                /\ b.missing = a.missing /\ b.tx = a.tx
  BY <1>4, SetPlan
<1> HIDE DEF b
<1>6. WorkShape(work') /\ work'.missing = m /\ work'.on = b.on /\ work'.todo = b.todo
                /\ work'.plan = b.plan /\ work'.tx = b.tx
  BY <1>2, <1>5, SetMissing
<1>7. m \subseteq work.missing \cup {t}
  BY DEF m
<1>8. work'.plan = IF t \in SdkTypes /\ sdk[t].ev /= 0 /\ sdk[t].pruned THEN {sdk[t].ev} ELSE {}
  BY <1>5, <1>6 DEF p
<1> QED
  BY <1>4, <1>5, <1>6, <1>7, <1>8 DEF Projection!ReadCache, rest, Projection!server

LEMMA LocalDoes ==
  ASSUME Projection!StateProjectionAssumption, ProjectionInv, Projection!locally_redacted_state
  PROVE  /\ Projection!Scanning /\ work.todo = {} /\ hint' = hint /\ UNCHANGED rest
         /\ WorkShape(work') /\ work'.on = work.on /\ work'.todo = work.todo
         /\ work'.missing = {} /\ work'.tx = work.tx
         /\ work'.plan \subseteq {e \in log : Projection!redaction_authorized(e)}
<1> DEFINE p == {e \in log : /\ TypeOf[e] \in work.missing
                             /\ tuples[TypeOf[e]].ev = e /\ ~tuples[TypeOf[e]].red
                             /\ Projection!redaction_authorized(e)}
           a == [work EXCEPT !.missing = {}]
<1>1. work' = [a EXCEPT !.plan = p]
  BY DEF Projection!locally_redacted_state
<1>2. WorkShape(work)
  BY RepairIs DEF RepairOK
<1>3. WorkShape(a) /\ a.missing = {} /\ a.on = work.on /\ a.todo = work.todo
      /\ a.plan = work.plan /\ a.tx = work.tx
  BY <1>2, SetMissing
<1>4. p \subseteq {e \in log : Projection!redaction_authorized(e)}
  OBVIOUS
<1> HIDE DEF a, p
<1>5. WorkShape(work') /\ work'.plan = p /\ work'.on = a.on /\ work'.todo = a.todo
      /\ work'.missing = a.missing /\ work'.tx = a.tx
  BY <1>1, <1>3, SetPlan
<1> QED
  BY <1>3, <1>4, <1>5 DEF Projection!locally_redacted_state, rest, Projection!server

LEMMA EndDoes ==
  ASSUME Projection!RoomDone \/ Projection!RepairTimeout
  PROVE  /\ (Projection!Scanning /\ work.todo = {}) \/ Lossy
         /\ work' = Projection!Rest /\ hint' = hint /\ UNCHANGED rest
BY DEF Projection!RoomDone, Projection!RepairTimeout, rest, Projection!server

\* An update takes the lock of the tuple, if it is still that of the event.
LEMMA UpdateDoes ==
  ASSUME Projection!StateProjectionAssumption, ProjectionInv, NEW e \in Projection!Events,
         Projection!ApplyUpdate(e)
  PROVE  /\ e \in work.plan /\ ~work.tx.on /\ hint' = hint /\ UNCHANGED rest
         /\ WorkShape(work') /\ work'.on = work.on /\ work'.todo = work.todo
         /\ work'.missing = work.missing /\ work'.plan = work.plan \ {e}
         /\ (work'.tx.on <=> Projection!Repairable(e)) /\ work'.tx.on \in BOOLEAN
         /\ work'.tx.on => /\ work'.tx.t = TypeOf[e] /\ work'.tx.snap \in Projection!Views
                           /\ work'.tx.hit \in BOOLEAN
<1> DEFINE t == TypeOf[e]
           s == Projection!Shown([tuples EXCEPT ![t] = Projection!Repaired(@)])
           x == IF Projection!Repairable(e)
                THEN [on |-> TRUE, t |-> t, hit |-> summary.there, snap |-> s] ELSE Projection!NoTx
           a == [work EXCEPT !.plan = work.plan \ {e}]
<1>0. t \in Types /\ tuples \in [Types -> Projection!Rows] /\ summary.there \in BOOLEAN /\ DisplayTypes \subseteq Types
  BY DEF ProjectionInv, ProjectionTypes, Projection!StateProjectionAssumption
<1>1. work' = [a EXCEPT !.tx = x] /\ e \in work.plan /\ ~work.tx.on
  BY DEF Projection!ApplyUpdate
<1>2. WorkShape(work)
  BY RepairIs DEF RepairOK
<1>3. WorkShape(a) /\ a.plan = work.plan \ {e} /\ a.on = work.on /\ a.todo = work.todo
      /\ a.missing = work.missing /\ a.tx = work.tx
  BY <1>2, SetPlan
<1>4. s \in Projection!Views
  <2>1. Projection!Repaired(tuples[t]) \in Projection!Rows
    BY <1>0 DEF Projection!Repaired, Projection!Rows
  <2>2. [tuples EXCEPT ![t] = Projection!Repaired(@)] \in [Types -> Projection!Rows]
    BY <1>0, <2>1
  <2> HIDE DEF t
  <2> QED
    BY <1>0, <2>2, ShownIs
<1> HIDE DEF s
<1>5. /\ x = [on |-> x.on, t |-> x.t, snap |-> x.snap, hit |-> x.hit]
      /\ (x.on <=> Projection!Repairable(e)) /\ x.on \in BOOLEAN
      /\ x.on => x.t = t /\ x.snap \in Projection!Views /\ x.hit \in BOOLEAN
  <2>1. CASE Projection!Repairable(e)
    <3>1. x = [on |-> TRUE, t |-> t, snap |-> s, hit |-> summary.there]
      BY <2>1
    <3> QED
      BY <1>0, <1>4, <2>1, <3>1
  <2>2. CASE ~Projection!Repairable(e)
    <3>1. x = Projection!NoTx
      BY <2>2
    <3> QED
      BY <2>2, <3>1, RestIs
  <2> QED
    BY <2>1, <2>2
<1> HIDE DEF a, x
<1>6. WorkShape(work') /\ work'.tx = x /\ work'.on = a.on /\ work'.todo = a.todo
      /\ work'.missing = a.missing /\ work'.plan = a.plan
  BY <1>1, <1>3, <1>5, SetTx
<1> QED
  BY <1>1, <1>3, <1>5, <1>6 DEF Projection!ApplyUpdate, rest, Projection!server

LEMMA RepairKeeps ==
  ASSUME Projection!StateProjectionAssumption, ProjectionInv,
         \/ Projection!Tick \/ Projection!ReadCache \/ Projection!locally_redacted_state \/ Projection!RoomDone \/ Projection!RepairTimeout
         \/ \E e \in Projection!Events : Projection!ApplyUpdate(e)
  PROVE  ProjectionInv'
<1>0. RepairOK(work) /\ hint \in BOOLEAN /\ SdkTypes \subseteq Types /\ log \subseteq redacted
  BY RepairIs DEF ProjectionInv, ProjectionTypes, Projection!StateProjectionAssumption
<1>1. CASE Projection!Tick
  <2>1. RepairOK(work') /\ hint' \in BOOLEAN /\ UNCHANGED rest
    BY <1>1, TickDoes, RestIs DEF RepairOK
  <2> QED
    BY <2>1, RepairMoves DEF rest
<1>2. CASE Projection!ReadCache
  <2>1. PICK t \in work.todo :
          /\ WorkShape(work') /\ work'.on = work.on /\ work'.todo = work.todo \ {t}
          /\ work'.missing \subseteq work.missing \cup {t} /\ work'.tx = work.tx
          /\ work'.plan = IF t \in SdkTypes /\ sdk[t].ev /= 0 /\ sdk[t].pruned
                          THEN {sdk[t].ev} ELSE {}
    BY <1>2, ReadDoes
  <2>2. work'.plan \subseteq Projection!Applied
    BY <2>1 DEF ProjectionInv, OnlyRedacted
  <2>3. hint' \in BOOLEAN /\ UNCHANGED rest
    BY <1>0, <1>2, ReadDoes
  <2>4. RepairOK(work')
    BY <1>0, <2>1, <2>2 DEF RepairOK
  <2> QED
    BY <2>3, <2>4, RepairMoves DEF rest
<1>3. CASE Projection!locally_redacted_state
  <2>1. work'.plan \subseteq Projection!Applied
    BY <1>0, <1>3, LocalDoes DEF Projection!redaction_authorized, Projection!Applied
  <2>2. RepairOK(work') /\ hint' \in BOOLEAN /\ UNCHANGED rest
    BY <1>0, <1>3, <2>1, LocalDoes DEF RepairOK
  <2> QED
    BY <2>2, RepairMoves DEF rest
<1>4. CASE Projection!RoomDone \/ Projection!RepairTimeout
  <2>1. RepairOK(work') /\ hint' \in BOOLEAN /\ UNCHANGED rest
    BY <1>0, <1>4, EndDoes, RestIs DEF RepairOK
  <2> QED
    BY <2>1, RepairMoves DEF rest
<1>5. CASE \E e \in Projection!Events : Projection!ApplyUpdate(e)
  <2>1. PICK e \in Projection!Events : Projection!ApplyUpdate(e)
    BY <1>5
  <2>2. TypeOf[e] \in Types /\ e \in Projection!Applied
    BY <1>0, <2>1, UpdateDoes DEF Projection!StateProjectionAssumption, RepairOK
  <2>3. Projection!Repairable(e) => tuples[TypeOf[e]].ev \in Projection!Applied
    BY <2>2 DEF Projection!Repairable
  <2>4. RepairOK(work') /\ hint' \in BOOLEAN /\ UNCHANGED rest
    BY <1>0, <2>1, <2>2, <2>3, UpdateDoes DEF RepairOK
  <2> QED
    BY <2>4, RepairMoves DEF rest
<1> QED
  BY <1>1, <1>2, <1>3, <1>4, <1>5

\* The commit of a repair prunes the tuple it has locked, and nothing else.
LEMMA CommitDoes ==
  ASSUME Projection!StateProjectionAssumption, ProjectionInv, Projection!ApplyCommit
  PROVE  /\ work.tx.on /\ work.tx.t \in Types
         /\ UNCHANGED <<sent, redacted, sdk, synced, noted, polled, resets, inbox, job, log,
                        ingest, hint>>
         /\ tuples' \in [Types -> Projection!Rows] /\ dirty' \subseteq Types
         /\ \A u \in Types : u # work.tx.t => tuples'[u] = tuples[u]
         /\ tuples'[work.tx.t].ev = tuples[work.tx.t].ev
         /\ tuples'[work.tx.t].pruned = TRUE /\ tuples'[work.tx.t].red = TRUE
         /\ summary' \in [there : BOOLEAN, shows : Projection!Views]
         /\ WorkShape(work') /\ work'.tx = Projection!NoTx /\ work'.on = work.on
         /\ work'.todo = work.todo /\ work'.missing = work.missing /\ work'.plan = work.plan
<1>0. /\ RepairOK(work) /\ tuples \in [Types -> Projection!Rows] /\ dirty \subseteq Types
      /\ summary \in [there : BOOLEAN, shows : Projection!Views]
  BY RepairIs DEF ProjectionInv, ProjectionTypes
<1> DEFINE t == work.tx.t
<1>1. work.tx.on /\ t \in Types /\ tuples[t] \in Projection!Rows /\ work.tx.snap \in Projection!Views
  BY <1>0 DEF Projection!ApplyCommit, RepairOK
<1>2. /\ Projection!Repaired(tuples[t]) \in Projection!Rows /\ Projection!Repaired(tuples[t]).ev = tuples[t].ev
      /\ Projection!Repaired(tuples[t]).pruned = TRUE /\ Projection!Repaired(tuples[t]).red = TRUE
  BY <1>1 DEF Projection!Repaired, Projection!Rows
<1>3. tuples' = [tuples EXCEPT ![t] = Projection!Repaired(tuples[t])]
  BY DEF Projection!ApplyCommit
<1>4. summary' \in [there : BOOLEAN, shows : Projection!Views]
  BY <1>0, <1>1 DEF Projection!ApplyCommit
<1>5. work' = [work EXCEPT !.tx = Projection!NoTx]
  BY DEF Projection!ApplyCommit
<1>6. /\ WorkShape(work') /\ work'.tx = Projection!NoTx /\ work'.on = work.on
      /\ work'.todo = work.todo /\ work'.missing = work.missing /\ work'.plan = work.plan
  BY <1>0, <1>5, RestIs, SetTx DEF RepairOK
<1>7. dirty' \subseteq Types
  BY <1>0 DEF Projection!ApplyCommit
<1>8. UNCHANGED <<sent, redacted, sdk, synced, noted, polled, resets, inbox, job, log, ingest,
                  hint>>
  BY DEF Projection!ApplyCommit, Projection!server
<1> HIDE DEF t
<1>9. /\ tuples' \in [Types -> Projection!Rows] /\ \A u \in Types : u # t => tuples'[u] = tuples[u]
      /\ tuples'[t] = Projection!Repaired(tuples[t])
  BY <1>0, <1>1, <1>2, <1>3
<1> QED
  BY <1>1, <1>2, <1>4, <1>6, <1>7, <1>8, <1>9 DEF t

LEMMA CommitKeeps ==
  ASSUME Projection!StateProjectionAssumption, ProjectionInv, Projection!ApplyCommit
  PROVE  ProjectionInv'
<1> DEFINE t == work.tx.t
<1>0. RepairOK(work)
  BY RepairIs
<1>1. Projection!Applied' = Projection!Applied
  BY CommitDoes DEF Projection!Applied
<1>2. ProjectionTypes'
  BY CommitDoes DEF ProjectionInv, ProjectionTypes
<1>3. RepairTypes'
  BY <1>0, CommitDoes, RestIs DEF RepairTypes, RepairOK, WorkShape
<1>4. Inboxes' /\ Handlers' /\ NotedIsPast'
  <2>1. UNCHANGED <<sent, noted, synced, inbox, job>>
    BY CommitDoes
  <2> QED
    BY <2>1 DEF ProjectionInv, Inboxes, Handlers, NotedIsPast
<1>5. tuples[t].ev \in Projection!Applied
  BY <1>0, CommitDoes DEF RepairOK
<1>6. \A u \in Types : /\ OfType(u, tuples'[u].ev) /\ tuples'[u].pruned = tuples'[u].red
                       /\ tuples'[u].pruned => tuples'[u].ev \in Projection!Applied
  BY <1>5, CommitDoes DEF ProjectionInv, OnlyRedacted, OfType
<1>7. work'.plan \subseteq Projection!Applied /\ ~work'.tx.on
  BY <1>0, CommitDoes, RestIs DEF RepairOK
<1>8. OnlyRedacted'
  BY <1>1, <1>6, <1>7, CommitDoes DEF ProjectionInv, OnlyRedacted, OfType
<1> QED
  BY <1>2, <1>3, <1>4, <1>8 DEF ProjectionInv

LEMMA IngestDoes ==
  ASSUME Projection!StateProjectionAssumption, ProjectionInv,
         Projection!IngestSnapshot \/ Projection!IngestCommit
  PROVE  /\ UNCHANGED <<sent, redacted, sdk, synced, noted, polled, resets, inbox, job, tuples, log,
                        hint, work, dirty>>
         /\ summary' \in [there : BOOLEAN, shows : Projection!Views] /\ ingest' \in [on : BOOLEAN, snap : Projection!Views]
<1>0. /\ summary \in [there : BOOLEAN, shows : Projection!Views] /\ ingest \in [on : BOOLEAN, snap : Projection!Views]
      /\ tuples \in [Types -> Projection!Rows] /\ DisplayTypes \subseteq Types
  BY DEF ProjectionInv, ProjectionTypes, Projection!StateProjectionAssumption
<1>1. Projection!Shown(tuples) \in Projection!Views /\ Projection!Blank \in Projection!Views
  BY <1>0, ShownIs, Blanks
<1>2. CASE Projection!IngestSnapshot
  <2>1. ingest' = [on |-> TRUE, snap |-> Projection!Shown(tuples)] /\ summary' = summary
    BY <1>2 DEF Projection!IngestSnapshot
  <2>2. ingest' \in [on : BOOLEAN, snap : Projection!Views]
    BY <1>1, <2>1
  <2> QED
    BY <1>0, <1>2, <2>1, <2>2 DEF Projection!IngestSnapshot, Projection!server
<1>3. CASE Projection!IngestCommit
  <2>1. /\ summary' = [there |-> TRUE, shows |-> ingest.snap]
        /\ ingest' = [on |-> FALSE, snap |-> Projection!Blank]
    BY <1>3 DEF Projection!IngestCommit
  <2>2. ingest' \in [on : BOOLEAN, snap : Projection!Views]
    BY <1>1, <2>1
  <2>3. summary' \in [there : BOOLEAN, shows : Projection!Views]
    BY <1>0, <2>1
  <2> QED
    BY <1>3, <2>2, <2>3 DEF Projection!IngestCommit, Projection!server
<1> QED
  BY <1>2, <1>3

LEMMA IngestKeeps ==
  ASSUME Projection!StateProjectionAssumption, ProjectionInv,
         Projection!IngestSnapshot \/ Projection!IngestCommit
  PROVE  ProjectionInv'
<1>1. Projection!Applied' = Projection!Applied
  BY IngestDoes DEF Projection!Applied
<1>2. ProjectionTypes'
  BY IngestDoes DEF ProjectionInv, ProjectionTypes
<1> QED
  BY <1>1, <1>2, IngestDoes DEF ProjectionInv, RepairTypes, Inboxes, Handlers, OnlyRedacted,
     OfType, NotedIsPast

LEMMA ProjectionStarts == ASSUME Projection!StateProjectionAssumption, Projection!Init PROVE ProjectionInv
<1>1. ProjectionTypes
  <2>1. sent = 0 /\ resets = 0 /\ NumEvents \in Nat /\ MaxResets \in Nat
    BY DEF Projection!Init, Projection!StateProjectionAssumption
  <2>2. sent \in 0..NumEvents /\ resets \in 0..MaxResets /\ 0 \in 0..sent
    BY <2>1
  <2>3. /\ redacted = {} /\ noted = {} /\ log = {} /\ hint \in BOOLEAN /\ dirty = {}
        /\ sdk \in [SdkTypes -> Copies] /\ tuples \in [Types -> Projection!Rows]
        /\ inbox \in [Projection!Writers -> SUBSET Items] /\ job \in [Projection!Writers -> Jobs]
    BY Blanks DEF Projection!Init
  <2>4. summary \in [there : BOOLEAN, shows : Projection!Views]
    BY Blanks DEF Projection!Init
  <2>5. ingest \in [on : BOOLEAN, snap : Projection!Views]
    BY Blanks DEF Projection!Init
  <2>6. synced \in [Types -> 0..sent] /\ polled \in [SuppTypes -> 0..sent]
    BY <2>2 DEF Projection!Init
  <2> QED
    BY <2>2, <2>3, <2>4, <2>5, <2>6 DEF ProjectionTypes
<1>2. RepairTypes
  BY RestIs DEF Projection!Init, RepairTypes, WorkShape
<1>3. Inboxes /\ NotedIsPast
  BY DEF Projection!Init, Inboxes, NotedIsPast
<1>4. Handlers
  BY Blanks DEF Projection!Init, Handlers
<1>5. OnlyRedacted
  <2>1. \A t \in Types : tuples[t].ev = 0 /\ tuples[t].pruned = FALSE /\ tuples[t].red = FALSE
    BY DEF Projection!Init, Projection!NoRow
  <2>2. \A t \in SdkTypes : sdk[t].ev = 0 /\ sdk[t].pruned = FALSE
    BY DEF Projection!Init, Projection!NoCache
  <2>3. \A w \in Projection!Writers : ~job[w].pruned /\ inbox[w] = {}
    BY Blanks DEF Projection!Init
  <2>4. work.plan = {} /\ ~work.tx.on
    BY RestIs DEF Projection!Init
  <2> QED
    BY <2>1, <2>2, <2>3, <2>4 DEF OnlyRedacted, OfType
<1> QED
  BY <1>1, <1>2, <1>3, <1>4, <1>5 DEF ProjectionInv

\* A step of a handler is its first, its write, one between, or its last.
LEMMA HandlerStep ==
  ASSUME Projection!StateProjectionAssumption, ProjectionInv,
         (\E w \in Projection!Writers : Projection!Handle(w) \/ Projection!Fail(w)) \/ Projection!HandleRedaction
  PROVE  \E w \in Projection!Writers : \/ Projection!Take(w) \/ Projection!upsert_room_state(w) \/ (\E k : Proceeds(w, k))
                            \/ Projection!queue_state_hint(w) \/ (w = "sync" /\ Projection!queue_redaction_hint)
<1>0. "sync" \in Projection!Writers
  BY DEF Projection!Writers
<1>1. ASSUME NEW w \in Projection!Writers,
             Projection!View(w) \/ Projection!Refresh(w) \/ Projection!Mark(w) \/ Projection!Fail(w) \/ (w = "sync" /\ Projection!StoreRedaction)
      PROVE  \E k : Proceeds(w, k)
  BY <1>1, HandlerProceeds
<1> QED
  BY <1>0, <1>1 DEF Projection!Handle, Projection!HandleRedaction

LEMMA ProjectionNext ==
  ASSUME Projection!StateProjectionAssumption, ProjectionInv,
         [Projection!Next]_Projection!vars
  PROVE  ProjectionInv'
<1>1. CASE UNCHANGED Projection!vars
  <2>1. Projection!Applied' = Projection!Applied
    BY <1>1 DEF Projection!vars, Projection!Applied
  <2> QED
    BY <1>1, <2>1 DEF Projection!vars, ProjectionInv, ProjectionTypes, RepairTypes, Inboxes,
       Handlers, OnlyRedacted, OfType, NotedIsPast
<1>2. CASE (\E w \in Projection!Writers : Projection!Handle(w) \/ Projection!Fail(w)) \/ Projection!HandleRedaction
  BY <1>2, HandlerStep, TakeKeeps, UpsertKeeps, ProceedKeeps, HandlerSettles, SettleKeeps
<1>3. CASE Projection!Emit \/ \E e \in Projection!Events : Projection!Redact(e)
  BY <1>3, ServerKeeps
<1>4. CASE Projection!Sync
  BY <1>4, SyncKeeps
<1>5. CASE Projection!Poll \/ Projection!UnknownPos
  BY <1>5, PollKeeps
<1>6. CASE Projection!IngestSnapshot \/ Projection!IngestCommit
  BY <1>6, IngestKeeps
<1>7. CASE Projection!Repair \/ Projection!RepairTimeout
  BY <1>7, RepairKeeps, CommitKeeps DEF Projection!Repair
<1> QED
  BY <1>1, <1>2, <1>3, <1>4, <1>5, <1>6, <1>7 DEF Projection!Next

LEMMA ProjectionHolds == ASSUME Projection!StateProjectionAssumption PROVE Projection!Spec => []ProjectionInv
<1>1. Projection!Init => ProjectionInv
  BY ProjectionStarts
<1>2. ProjectionInv /\ [Projection!Next]_Projection!vars => ProjectionInv'
  BY ProjectionNext
<1> QED
  BY <1>1, <1>2, PTL DEF Projection!Spec

\* A tuple changes by a handler's write or by the commit of a repair.
LEMMA RowSteps ==
  ASSUME Projection!StateProjectionAssumption, ProjectionInv,
         [Projection!Next]_Projection!vars, tuples' # tuples
  PROVE  (\E w \in Projection!Writers : Projection!upsert_room_state(w)) \/ Projection!ApplyCommit
<1>1. Projection!Repair => Projection!ApplyCommit
  BY TickDoes, ReadDoes, LocalDoes, EndDoes, UpdateDoes DEF Projection!Repair, rest
<1>2. ~Projection!RepairTimeout
  BY EndDoes DEF rest
<1>3. ~Projection!Sync
  BY SyncDoes
<1>4. ~(Projection!Emit \/ (\E e \in Projection!Events : Projection!Redact(e)) \/ Projection!Poll \/ Projection!UnknownPos)
  BY DEF Projection!Emit, Projection!Redact, Projection!Poll, Projection!UnknownPos
<1>5. ~(Projection!IngestSnapshot \/ Projection!IngestCommit)
  BY IngestDoes
<1>6. (\E w \in Projection!Writers : Projection!Handle(w) \/ Projection!Fail(w)) \/ Projection!HandleRedaction =>
        \E w \in Projection!Writers : Projection!upsert_room_state(w)
  <2>1. \A w \in Projection!Writers : ~Projection!Take(w) /\ (\A k : ~Proceeds(w, k)) /\ ~Projection!queue_state_hint(w)
    BY DEF Projection!Take, Proceeds, Projection!queue_state_hint
  <2>2. ~Projection!queue_redaction_hint
    BY DEF Projection!queue_redaction_hint
  <2> QED
    BY <2>1, <2>2, HandlerStep
<1>7. ~UNCHANGED Projection!vars
  BY DEF Projection!vars
<1> QED
  BY <1>1, <1>2, <1>3, <1>4, <1>5, <1>6, <1>7 DEF Projection!Next

\* Tuples, caches, responses, handlers and the repair keep their types, and a tuple holds an
\* event of its own type, with evidence exactly where content is pruned.
THEOREM ProjectionTypeCorrect == ASSUME Projection!StateProjectionAssumption PROVE Projection!Spec => []Projection!TypeOK
<1>1. ASSUME ProjectionInv PROVE Projection!TypeOK
  <2>1. work.plan \subseteq Projection!Events
    BY <1>1, EventTypes DEF ProjectionInv, OnlyRedacted
  <2> QED
    BY <1>1, <2>1 DEF ProjectionInv, ProjectionTypes, RepairTypes, OnlyRedacted, OfType,
       Projection!TypeOK, Copies, Jobs
<1> QED
  BY <1>1, ProjectionHolds, PTL

\* Only what the homeserver redacted is pruned: the repair prunes the event it planned for,
\* not the one that replaced it meanwhile, and never the target of a redaction whose sender
\* had no right to it (reconcile_redacted_room_state, redaction_authorized).
THEOREM PrunedCorrect == ASSUME Projection!StateProjectionAssumption PROVE Projection!Spec => []Projection!PrunedIsRedacted
<1>1. ProjectionInv => Projection!PrunedIsRedacted
  BY DEF ProjectionInv, OnlyRedacted, Projection!PrunedIsRedacted
<1> QED
  BY <1>1, ProjectionHolds, PTL

\* Redacted content does not come back: no replay of the original form of an event, by
\* either connection, undoes a redaction of the tuple that holds it (the CASE expressions of
\* upsert_room_state).
THEOREM StaysCorrect == ASSUME Projection!StateProjectionAssumption PROVE Projection!Spec => Projection!RedactedStays
<1>1. ASSUME ProjectionInv, [Projection!Next]_Projection!vars PROVE Projection!RedactedStaysStep
  <2>1. CASE tuples' = tuples
    BY <2>1 DEF Projection!RedactedStaysStep
  <2>2. ASSUME NEW w \in Projection!Writers,
               Projection!upsert_room_state(w) PROVE Projection!RedactedStaysStep
    <3>1. PICK new : Wrote(w, new)
      BY <1>1, <2>2, UpsertDoes
    <3>2. TypeOf[job[w].ev] \in Types /\ tuples \in [Types -> Projection!Rows]
      BY <1>1, <3>1 DEF Wrote, Projection!StateProjectionAssumption, ProjectionInv,
         ProjectionTypes
    <3>3. \A u \in Types : tuples'[u] = IF u = TypeOf[job[w].ev] THEN new ELSE tuples[u]
      BY <3>1, <3>2 DEF Wrote
    <3> QED
      BY <3>1, <3>3 DEF Wrote, Projection!RedactedStaysStep
  <2>3. CASE Projection!ApplyCommit
    BY <1>1, <2>3, CommitDoes DEF Projection!RedactedStaysStep
  <2> QED
    BY <1>1, <2>1, <2>2, <2>3, RowSteps
<1> QED
  BY <1>1, ProjectionHolds, PTL DEF Projection!Spec, Projection!RedactedStays

\* Where the timestamps of a room follow the order of its events, no late response of either
\* connection takes a tuple back to an older event (the freshness guard of
\* upsert_room_state), and no repair does.
THEOREM ForwardCorrect ==
  ASSUME Projection!StateProjectionAssumption,
         \A e, f \in Projection!Events : e < f => Ts[e] < Ts[f]
  PROVE  Projection!Spec => Projection!RowMovesForward
<1>1. ASSUME ProjectionInv,
             [Projection!Next]_Projection!vars PROVE Projection!RowMovesForwardStep
  <2>0. /\ tuples \in [Types -> Projection!Rows] /\ NumEvents \in Nat /\ Ts \in [Projection!Events -> Nat]
        /\ \A t \in Types : tuples[t].ev \in Projection!Events \cup {0}
    BY <1>1 DEF ProjectionInv, ProjectionTypes, Projection!StateProjectionAssumption,
       Projection!Rows
  <2>1. CASE tuples' = tuples
    BY <2>0, <2>1 DEF Projection!RowMovesForwardStep, Projection!Events
  <2>2. ASSUME NEW w \in Projection!Writers,
               Projection!upsert_room_state(w) PROVE Projection!RowMovesForwardStep
    <3>1. PICK new : Wrote(w, new)
      BY <1>1, <2>2, UpsertDoes
    <3> DEFINE e == job[w].ev
    <3>2. e \in Projection!Events /\ TypeOf[e] \in Types
      BY <3>1 DEF Wrote, Projection!StateProjectionAssumption
    <3>3. \A u \in Types : tuples'[u] = IF u = TypeOf[e] THEN new ELSE tuples[u]
      BY <2>0, <3>1, <3>2 DEF Wrote
    <3>4. new.ev >= tuples[TypeOf[e]].ev
      <4>1. CASE new = tuples[TypeOf[e]]
        BY <2>0, <3>2, <4>1 DEF Projection!Events
      <4>2. CASE new.ev = e /\ Projection!Fresh(e, tuples[TypeOf[e]])
        BY <2>0, <3>2, <4>2 DEF Projection!Fresh, Projection!Events
      <4> QED
        BY <3>1, <4>1, <4>2 DEF Wrote
    <3> QED
      BY <2>0, <3>3, <3>4 DEF Projection!RowMovesForwardStep, Projection!Events
  <2>3. CASE Projection!ApplyCommit
    <3>1. \A u \in Types : tuples'[u].ev = tuples[u].ev
      BY <1>1, <2>3, CommitDoes
    <3> QED
      BY <2>0, <3>1 DEF Projection!RowMovesForwardStep, Projection!Events
  <2> QED
    BY <1>1, <2>1, <2>2, <2>3, RowSteps
<1> QED
  BY <1>1, ProjectionHolds, PTL DEF Projection!Spec, Projection!RowMovesForward

-----------------------------------------------------------------------------

\* Every type is in the SDK's cache, and no hint is dropped.
Hinted == SdkTypes = Types /\ Lossy = FALSE

LEMMA StaleIs ==
  ASSUME Projection!StateProjectionAssumption, ProjectionInv, Hinted, NEW t \in Types
  PROVE  Projection!Stale(t) <=> tuples[t].ev # 0 /\ ~tuples[t].red /\ sdk[t] = [ev |-> tuples[t].ev, pruned |-> TRUE]
<1>1. tuples[t].ev # 0 => TypeOf[tuples[t].ev] = t
  BY DEF ProjectionInv, OnlyRedacted, OfType
<1> QED
  BY <1>1 DEF Projection!Stale, Projection!PrunedInCache, Hinted

\* Steps that leave the tuples and the cache alone, and everything that is on its way.
LEMMA HintStays ==
  ASSUME HintInv, Hinted, tuples' = tuples, sdk' = sdk,
         ASSUME NEW t \in Types, Projection!Stale(t),
                hint \/ Redacting(tuples[t].ev) \/ WillLook(tuples[t].ev) \/ WillRepair(t)
         PROVE  (hint \/ Redacting(tuples[t].ev) \/ WillLook(tuples[t].ev) \/ WillRepair(t))'
  PROVE  HintInv'
<1>1. ASSUME NEW t \in Types, Projection!Stale(t)' PROVE Projection!Stale(t)
  BY <1>1 DEF Projection!Stale, Projection!PrunedInCache, Hinted
<1> QED
  BY <1>1 DEF HintInv

LEMMA SyncHints ==
  ASSUME Projection!StateProjectionAssumption, ProjectionInv, HintInv, Hinted, Projection!Sync
  PROVE  HintInv'
<1>0. /\ Projection!Free("sync") /\ UNCHANGED <<job, tuples, hint, work>>
  BY SyncDoes
<1>1. PICK S : /\ inbox' = [inbox EXCEPT !["sync"] = S]
               /\ \A e \in redacted \ noted : Projection!RedactionItem(e) \in S
  BY SyncDoes
<1>2. inbox'["sync"] = S
  BY <1>1 DEF ProjectionInv, ProjectionTypes, Projection!Writers
<1>3. ASSUME NEW t \in Types, Projection!Stale(t)'
      PROVE  (hint \/ Redacting(tuples[t].ev) \/ WillLook(tuples[t].ev) \/ WillRepair(t))'
  <2>1. /\ tuples[t].ev # 0 /\ ~tuples[t].red /\ TypeOf[tuples[t].ev] = t /\ t \in SdkTypes
        /\ sdk'[t] = [ev |-> tuples[t].ev, pruned |-> TRUE]
    BY <1>0, <1>3 DEF Projection!Stale, Projection!PrunedInCache, Hinted, ProjectionInv,
       OnlyRedacted, OfType
  <2>2. sdk'[t].ev = tuples[t].ev /\ sdk'[t].pruned = TRUE
    BY <2>1
  <2>3. CASE sdk'[t] = sdk[t]
    <3>1. Projection!Stale(t)
      BY <2>1, <2>3, StaleIs
    <3>2. hint \/ Redacting(tuples[t].ev) \/ WillLook(tuples[t].ev) \/ WillRepair(t)
      BY <3>1 DEF HintInv
    <3>3. ~Redacting(tuples[t].ev)
      BY <1>0, Blanks DEF Redacting, Projection!Free
    <3> QED
      BY <1>0, <3>2, <3>3 DEF WillLook, WillRepair
  <2>4. CASE tuples[t].ev \in redacted \ noted
    <3>1. Projection!RedactionItem(tuples[t].ev) \in inbox'["sync"]
      BY <1>1, <1>2, <2>4
    <3>2. Projection!RedactionItem(tuples[t].ev).kind = "redaction" /\ Projection!RedactionItem(tuples[t].ev).ev = tuples[t].ev
      BY DEF Projection!RedactionItem
    <3>3. Redacting(tuples[t].ev)'
      BY <1>0, <3>1, <3>2 DEF Redacting
    <3> QED
      BY <3>3
  <2> QED
    BY <2>1, <2>2, <2>3, <2>4, SyncDoes
<1> QED
  BY <1>3 DEF HintInv

LEMMA TakeHints ==
  ASSUME Projection!StateProjectionAssumption, ProjectionInv, HintInv, Hinted,
         NEW w \in Projection!Writers, Projection!Take(w)
  PROVE  HintInv'
<1>1. PICK i \in inbox[w] : \E j :
        /\ inbox' = [inbox EXCEPT ![w] = inbox[w] \ {i}] /\ job' = [job EXCEPT ![w] = j]
        /\ i.kind # "state" => j = [Projection!Idle EXCEPT !.pc = "log", !.ev = i.ev]
  BY DEF Projection!Take
<1>8. PICK j :
        /\ inbox' = [inbox EXCEPT ![w] = inbox[w] \ {i}] /\ job' = [job EXCEPT ![w] = j]
        /\ i.kind # "state" => j = [Projection!Idle EXCEPT !.pc = "log", !.ev = i.ev]
  BY <1>1
<1>9. i.kind # "state" => j.pc = "log" /\ j.ev = i.ev
  BY <1>8 DEF Projection!Idle
<1>2. job[w] = Projection!Idle /\ job[w].pc = "idle" /\ UNCHANGED <<tuples, sdk, hint, work>>
  BY Blanks DEF Projection!Take
<1>3. /\ \A v \in Projection!Writers : v # w => job'[v] = job[v] /\ inbox'[v] = inbox[v]
      /\ job'[w] = j /\ inbox'[w] = inbox[w] \ {i} /\ "sync" \in Projection!Writers
  BY <1>8 DEF ProjectionInv, ProjectionTypes, Projection!Writers
<1>4. ASSUME NEW e, WillLook(e) PROVE WillLook(e)'
  BY <1>2, <1>3, <1>4 DEF WillLook
<1>5. ASSUME NEW e, Redacting(e) PROVE Redacting(e)'
  <2>1. CASE w = "sync"
    <3>1. PICK k \in inbox["sync"] : k.kind = "redaction" /\ k.ev = e
      BY <1>2, <1>5, <2>1 DEF Redacting
    <3>2. CASE k = i
      <4>1. job'["sync"].pc = "log" /\ job'["sync"].ev = e
        BY <1>3, <1>9, <2>1, <3>1, <3>2
      <4> QED
        BY <4>1 DEF Redacting
    <3>3. CASE k # i
      BY <1>3, <2>1, <3>1, <3>3 DEF Redacting
    <3> QED
      BY <3>2, <3>3
  <2>2. CASE w # "sync"
    BY <1>3, <1>5, <2>2 DEF Redacting
  <2> QED
    BY <2>1, <2>2
<1>6. \A t : WillRepair(t) => WillRepair(t)'
  BY <1>2 DEF WillRepair
<1>7. ASSUME NEW t \in Types, Projection!Stale(t),
             hint \/ Redacting(tuples[t].ev) \/ WillLook(tuples[t].ev) \/ WillRepair(t)
      PROVE  (hint \/ Redacting(tuples[t].ev) \/ WillLook(tuples[t].ev) \/ WillRepair(t))'
  <2>1. PICK e : e = tuples[t].ev
    OBVIOUS
  <2>2. tuples'[t].ev = e
    BY <1>2, <2>1
  <2>3. hint \/ Redacting(e)' \/ WillLook(e)' \/ WillRepair(t)'
    BY <1>4, <1>5, <1>6, <1>7, <2>1
  <2> QED
    BY <1>2, <2>2, <2>3 DEF Redacting, WillLook
<1> QED
  BY <1>2, <1>7, HintStays

LEMMA UpsertHints ==
  ASSUME Projection!StateProjectionAssumption, ProjectionInv, HintInv, Hinted,
         NEW w \in Projection!Writers,
         Projection!upsert_room_state(w)
  PROVE  HintInv'
<1>1. PICK new : Wrote(w, new)
  BY UpsertDoes
<1>2. PICK j : /\ HandlerOK(w, j) /\ job' = [job EXCEPT ![w] = j]
               /\ j.ev = job[w].ev /\ j.pruned = job[w].pruned /\ j.pc \in {"view", "mark"}
  BY UpsertDoes
<1>3. UNCHANGED <<sdk, inbox, hint, work>>
  BY UpsertDoes
<1>4. /\ \A v \in Projection!Writers : v # w => job'[v] = job[v]
      /\ job'[w] = j /\ job[w].pc = "upsert" /\ "sync" \in Projection!Writers
  BY <1>1, <1>2 DEF ProjectionInv, ProjectionTypes, Projection!Writers, Wrote
<1> DEFINE u == TypeOf[job[w].ev]
<1>5. u \in Types /\ \A t \in Types : tuples'[t] = IF t = u THEN new ELSE tuples[t]
  BY <1>1 DEF Wrote, ProjectionInv, ProjectionTypes, Projection!StateProjectionAssumption
<1>6. ASSUME NEW e, Redacting(e) \/ WillLook(e) PROVE Redacting(e)' \/ WillLook(e)'
  BY <1>3, <1>4, <1>6 DEF Redacting, WillLook
<1>7. ASSUME NEW t \in Types, Projection!Stale(t)'
      PROVE  (hint \/ Redacting(tuples[t].ev) \/ WillLook(tuples[t].ev) \/ WillRepair(t))'
  <2>1. CASE tuples'[t] = tuples[t]
    <3>1. Projection!Stale(t)
      BY <1>3, <1>7, <2>1 DEF Projection!Stale, Projection!PrunedInCache, Hinted
    <3>2. PICK e : e = tuples[t].ev
      OBVIOUS
    <3>3. hint \/ Redacting(e)' \/ WillLook(e)' \/ WillRepair(t)
      BY <1>6, <3>1, <3>2 DEF HintInv
    <3>4. WillRepair(t) => WillRepair(t)'
      BY <1>3, <2>1 DEF WillRepair
    <3>5. tuples'[t].ev = e
      BY <2>1, <3>2
    <3> QED
      BY <1>3, <3>3, <3>4, <3>5 DEF Redacting, WillLook
  <2>2. CASE tuples'[t] # tuples[t]
    <3>1. t = u /\ tuples'[t] = new /\ new.ev = job[w].ev /\ ~new.red
      BY <1>1, <1>5, <1>7, <2>2 DEF Wrote, Projection!Stale
    <3>2. ~j.pruned /\ j.ev = tuples'[t].ev
      BY <1>1, <1>2, <1>5, <2>2, <3>1 DEF Wrote
    <3>3. WillLook(tuples[t].ev)'
      BY <1>2, <1>4, <3>2 DEF WillLook
    <3> QED
      BY <3>3
  <2> QED
    BY <2>1, <2>2
<1> QED
  BY <1>7 DEF HintInv

LEMMA ProceedHints ==
  ASSUME Projection!StateProjectionAssumption, ProjectionInv, HintInv, Hinted,
         NEW w \in Projection!Writers, NEW k,
         Proceeds(w, k)
  PROVE  HintInv'
<1>1. UNCHANGED <<tuples, sdk, inbox, hint, work>>
  BY DEF Proceeds
<1>2. /\ \A v \in Projection!Writers : v # w => job'[v] = job[v]
      /\ job'[w] = k /\ k.ev = job[w].ev /\ k.pruned = job[w].pruned /\ Follows(job[w].pc, k.pc)
      /\ "sync" \in Projection!Writers
  BY DEF Proceeds, Onward, ProjectionInv, ProjectionTypes, Projection!Writers
<1>3. ASSUME NEW e, Redacting(e) PROVE Redacting(e)'
  BY <1>1, <1>2, <1>3 DEF Redacting, Follows
<1>4. ASSUME NEW e, WillLook(e) PROVE WillLook(e)'
  BY <1>1, <1>2, <1>4 DEF WillLook, Follows
<1>5. ASSUME NEW t \in Types, Projection!Stale(t),
             hint \/ Redacting(tuples[t].ev) \/ WillLook(tuples[t].ev) \/ WillRepair(t)
      PROVE  (hint \/ Redacting(tuples[t].ev) \/ WillLook(tuples[t].ev) \/ WillRepair(t))'
  <2>1. PICK e : e = tuples[t].ev
    OBVIOUS
  <2>2. hint \/ Redacting(e)' \/ WillLook(e)' \/ WillRepair(t)
    BY <1>3, <1>4, <1>5, <2>1
  <2> QED
    BY <1>1, <2>1, <2>2 DEF Redacting, WillLook, WillRepair
<1> QED
  BY <1>1, <1>5, HintStays

\* The last look of a handler hints if the cache has pruned what it wrote, and the filter of
\* a redaction hints if its target is in a tuple.
LEMMA SettleHints ==
  ASSUME Projection!StateProjectionAssumption, ProjectionInv, HintInv, Hinted,
         NEW w \in Projection!Writers,
         Projection!queue_state_hint(w) \/ (w = "sync" /\ Projection!queue_redaction_hint)
  PROVE  HintInv'
<1>1. UNCHANGED <<tuples, sdk, inbox, work>> /\ hint' \in BOOLEAN
  BY HandlerSettles DEF Settles
<1>2. /\ \A v \in Projection!Writers : v # w => job'[v] = job[v]
      /\ "sync" \in Projection!Writers
  BY HandlerSettles DEF Settles, ProjectionInv, ProjectionTypes, Projection!Writers
<1>3. hint => hint'
  BY DEF Projection!queue_state_hint, Projection!queue_redaction_hint, Projection!TrySend,
     Hinted
<1>4. ASSUME NEW t \in Types, Projection!Stale(t),
             hint \/ Redacting(tuples[t].ev) \/ WillLook(tuples[t].ev) \/ WillRepair(t)
      PROVE  (hint \/ Redacting(tuples[t].ev) \/ WillLook(tuples[t].ev) \/ WillRepair(t))'
  <2> DEFINE e == tuples[t].ev
  <2>1. TypeOf[e] = t /\ Projection!PrunedInCache(e)
    BY <1>4 DEF Projection!Stale, Hinted, ProjectionInv, OnlyRedacted, OfType
  <2>2. CASE job[w].ev = e /\ ~job[w].pruned /\ job[w].pc = "hint"
    <3>1. Projection!queue_state_hint(w)
      BY <2>2 DEF Projection!queue_redaction_hint
    <3>2. hint' = TRUE
      BY <2>1, <2>2, <3>1 DEF Projection!queue_state_hint, Projection!TrySend,
         Projection!Overtaken, Hinted
    <3> QED
      BY <3>2
  <2>3. CASE w = "sync" /\ job[w].ev = e /\ job[w].pc = "filter"
    <3>1. Projection!queue_redaction_hint
      BY <2>3 DEF Projection!queue_state_hint
    <3>2. hint' = TRUE
      BY <2>1, <2>3, <3>1 DEF Projection!queue_redaction_hint, Projection!TrySend,
         Projection!IsTarget, Hinted
    <3> QED
      BY <3>2
  <2>4. CASE /\ ~(job[w].ev = e /\ ~job[w].pruned /\ job[w].pc = "hint")
             /\ ~(w = "sync" /\ job[w].ev = e /\ job[w].pc = "filter")
    <3>0. job[w].pc \in {"hint", "filter"} /\ tuples'[t].ev = e
      BY <1>1, HandlerSettles DEF Settles
    <3>1. Redacting(e) => Redacting(e)'
      BY <1>1, <1>2, <2>4, <3>0 DEF Redacting
    <3>2. WillLook(e) => WillLook(e)'
      BY <1>1, <1>2, <2>4, <3>0 DEF WillLook
    <3>3. WillRepair(t) => WillRepair(t)'
      BY <1>1 DEF WillRepair
    <3> QED
      BY <1>1, <1>3, <1>4, <3>0, <3>1, <3>2, <3>3 DEF Redacting, WillLook
  <2> QED
    BY <2>2, <2>3, <2>4
<1> QED
  BY <1>1, <1>4, HintStays

\* The repair comes to every tuple it was woken for.
LEMMA RepairHints ==
  ASSUME Projection!StateProjectionAssumption, ProjectionInv, HintInv, Hinted,
         Projection!Repair \/ Projection!RepairTimeout
  PROVE  HintInv'
<1>0. RepairOK(work)
  BY RepairIs
<1>1. CASE Projection!Tick
  <2>1. \A t \in Types : WillRepair(t)'
    BY <1>1, TickDoes DEF WillRepair
  <2> QED
    BY <2>1 DEF HintInv
<1>2. ASSUME UNCHANGED rest, hint' = hint,
             ASSUME NEW t \in Types, Projection!Stale(t), WillRepair(t) PROVE WillRepair(t)'
      PROVE  HintInv'
  <2>1. UNCHANGED <<tuples, sdk, inbox, job, hint>>
    BY <1>2 DEF rest
  <2>2. ASSUME NEW t \in Types, Projection!Stale(t),
               hint \/ Redacting(tuples[t].ev) \/ WillLook(tuples[t].ev) \/ WillRepair(t)
        PROVE  (hint \/ Redacting(tuples[t].ev) \/ WillLook(tuples[t].ev) \/ WillRepair(t))'
    BY <1>2, <2>1, <2>2 DEF Redacting, WillLook
  <2> QED
    BY <2>1, <2>2, HintStays
<1>3. CASE Projection!ReadCache
  <2>1. PICK u \in work.todo :
          /\ work'.on = work.on /\ work'.todo = work.todo \ {u} /\ work'.tx = work.tx
          /\ work'.plan = IF u \in SdkTypes /\ sdk[u].ev /= 0 /\ sdk[u].pruned
                          THEN {sdk[u].ev} ELSE {}
    BY <1>3, ReadDoes
  <2>2. Projection!Scanning /\ UNCHANGED rest /\ hint' = hint
    BY <1>3, ReadDoes
  <2>3. ASSUME NEW t \in Types, Projection!Stale(t), WillRepair(t) PROVE WillRepair(t)'
    <3>1. tuples' = tuples
      BY <2>2 DEF rest
    <3>2. work.on /\ t \in work.todo
      BY <2>2, <2>3 DEF WillRepair, Projection!Scanning
    <3>3. tuples[t].ev # 0 /\ sdk[t].ev = tuples[t].ev /\ sdk[t].pruned = TRUE
      <4>1. tuples[t].ev # 0 /\ sdk[t] = [ev |-> tuples[t].ev, pruned |-> TRUE]
        BY <2>3, StaleIs
      <4> QED
        BY <4>1
    <3> QED
      BY <2>1, <3>1, <3>2, <3>3 DEF WillRepair, Hinted
  <2> QED
    BY <1>2, <2>2, <2>3
<1>4. CASE Projection!locally_redacted_state \/ Projection!RoomDone \/ Projection!RepairTimeout
  <2>1. Projection!Scanning /\ work.todo = {} /\ UNCHANGED rest /\ hint' = hint
    BY <1>4, LocalDoes, EndDoes DEF Hinted, Projection!RepairTimeout
  <2>2. \A t \in Types : ~WillRepair(t)
    BY <2>1 DEF WillRepair, Projection!Scanning
  <2> QED
    BY <1>2, <2>1, <2>2
<1>5. CASE \E e \in Projection!Events : Projection!ApplyUpdate(e)
  <2>1. PICK e \in Projection!Events : Projection!ApplyUpdate(e)
    BY <1>5
  <2>2. /\ ~work.tx.on /\ hint' = hint /\ UNCHANGED rest
        /\ work'.on = work.on /\ work'.todo = work.todo /\ work'.plan = work.plan \ {e}
        /\ Projection!Repairable(e) => work'.tx.on /\ work'.tx.t = TypeOf[e]
    BY <2>1, UpdateDoes
  <2>3. ASSUME NEW t \in Types, Projection!Stale(t), WillRepair(t) PROVE WillRepair(t)'
    <3>1. tuples' = tuples
      BY <2>2 DEF rest
    <3>2. tuples[t].ev = e => TypeOf[e] = t /\ Projection!Repairable(e)
      BY <2>3 DEF Projection!Stale, Projection!Repairable, ProjectionInv, OnlyRedacted, OfType
    <3> QED
      BY <2>2, <2>3, <3>1, <3>2 DEF WillRepair
  <2> QED
    BY <1>2, <2>2, <2>3
<1>6. CASE Projection!ApplyCommit
  <2> DEFINE u == work.tx.t
  <2>1. /\ UNCHANGED <<sdk, inbox, job, hint>> /\ tuples'[u].red = TRUE
        /\ \A t \in Types : t # u => tuples'[t] = tuples[t]
        /\ work'.on = work.on /\ work'.todo = work.todo /\ work'.plan = work.plan
    BY <1>6, CommitDoes
  <2>2. ASSUME NEW t \in Types, Projection!Stale(t)'
        PROVE  (hint \/ Redacting(tuples[t].ev) \/ WillLook(tuples[t].ev) \/ WillRepair(t))'
    <3>1. t # u /\ tuples'[t] = tuples[t]
      BY <2>1, <2>2 DEF Projection!Stale
    <3>2. Projection!Stale(t)
      BY <2>1, <2>2, <3>1 DEF Projection!Stale, Projection!PrunedInCache, Hinted
    <3>3. hint \/ Redacting(tuples[t].ev) \/ WillLook(tuples[t].ev) \/ WillRepair(t)
      BY <3>2 DEF HintInv
    <3> QED
      BY <2>1, <3>1, <3>3 DEF Redacting, WillLook, WillRepair
  <2> QED
    BY <2>2 DEF HintInv
<1> QED
  BY <1>1, <1>3, <1>4, <1>5, <1>6 DEF Projection!Repair

LEMMA HintStarts == ASSUME Projection!Init PROVE HintInv
<1>1. \A t \in Types : tuples[t].ev = 0
  BY DEF Projection!Init, Projection!NoRow
<1> QED
  BY <1>1 DEF HintInv, Projection!Stale

LEMMA HintNext ==
  ASSUME Projection!StateProjectionAssumption, Hinted, ProjectionInv, HintInv,
         [Projection!Next]_Projection!vars
  PROVE  HintInv'
<1>1. ASSUME UNCHANGED <<tuples, sdk, job, hint, work>>, inbox'["sync"] = inbox["sync"]
      PROVE  HintInv'
  <2>1. ASSUME NEW t \in Types, Projection!Stale(t),
               hint \/ Redacting(tuples[t].ev) \/ WillLook(tuples[t].ev) \/ WillRepair(t)
        PROVE  (hint \/ Redacting(tuples[t].ev) \/ WillLook(tuples[t].ev) \/ WillRepair(t))'
    BY <1>1, <2>1 DEF Redacting, WillLook, WillRepair
  <2> QED
    BY <1>1, <2>1, HintStays
<1>2. CASE UNCHANGED Projection!vars
  BY <1>1, <1>2 DEF Projection!vars
<1>3. CASE (\E w \in Projection!Writers : Projection!Handle(w) \/ Projection!Fail(w)) \/ Projection!HandleRedaction
  BY <1>3, HandlerStep, TakeHints, UpsertHints, ProceedHints, SettleHints
<1>4. CASE Projection!Emit \/ \E e \in Projection!Events : Projection!Redact(e)
  BY <1>1, <1>4 DEF Projection!Emit, Projection!Redact
<1>5. CASE Projection!Sync
  BY <1>5, SyncHints
<1>6. CASE Projection!Poll \/ Projection!UnknownPos
  <2>1. inbox'["sync"] = inbox["sync"]
    BY <1>6 DEF Projection!Poll, Projection!UnknownPos, ProjectionInv, ProjectionTypes,
       Projection!Writers
  <2> QED
    BY <1>1, <1>6, <2>1 DEF Projection!Poll, Projection!UnknownPos
<1>7. CASE Projection!IngestSnapshot \/ Projection!IngestCommit
  BY <1>1, <1>7, IngestDoes
<1>8. CASE Projection!Repair \/ Projection!RepairTimeout
  BY <1>8, RepairHints
<1> QED
  BY <1>2, <1>3, <1>4, <1>5, <1>6, <1>7, <1>8 DEF Projection!Next

LEMMA HintMeans == HintInv => Projection!RepairIsHinted
<1> SUFFICES ASSUME HintInv, Projection!Quiet, NEW t \in Types, Projection!Stale(t) PROVE hint
  BY DEF Projection!RepairIsHinted
<1>1. "sync" \in Projection!Writers /\ \A w \in Projection!Writers : inbox[w] = {} /\ job[w].pc = "idle"
  BY Blanks DEF Projection!Quiet, Projection!Free, Projection!Writers
<1>2. ~work.on
  BY DEF Projection!Quiet
<1> QED
  BY <1>1, <1>2 DEF HintInv, Redacting, WillLook, WillRepair

\* Whatever the order in which a state event, its redaction and the write of its tuple come,
\* a tuple that shows content the SDK has pruned has a repair hinted once everything rests:
\* the writer looks at the cache after its write, and the filter of the redaction at the
\* tuple after the redaction is stored, so that one of them sees the other
\* (queue_state_hint, queue_redaction_hint). Of types outside the SDK's cache only the sweep
\* can know, and a dropped hint waits for the sweep as well.
THEOREM HintedCorrect ==
  ASSUME Projection!StateProjectionAssumption, Hinted
  PROVE  Projection!Spec => []Projection!RepairIsHinted
<1>1. Projection!Init => HintInv
  BY HintStarts
<1>2. ProjectionInv /\ HintInv /\ [Projection!Next]_Projection!vars => HintInv'
  BY HintNext
<1> QED
  BY <1>1, <1>2, HintMeans, ProjectionHolds, PTL DEF Projection!Spec

-----------------------------------------------------------------------------
(* Unread counts: for any rooms, receipts, changes and restarts.              *)

Pends == {"none", "behind", "ahead"}
RoomInfos == [joined : BOOLEAN, tomb : BOOLEAN, truth : 0..MaxCount, count : Unread!Counts,
              chunk : BOOLEAN, pend : Pends]
Captures == [pc : {"off", "evidence", "write"}, pair : Unread!Counts, pend : Pends]
Stored == Unread!Counts \cup {Unread!None}

Watches == [pc : {"seed", "startup", "sweep", "idle", "probe", "verdict", "prune"},
            list : Seq(Rooms), verdict : {"none", "reachable", "absent", "inconclusive"},
            todo : SUBSET Rooms, joined : SUBSET Rooms]
Answers == [pc : {"answered"}, room : Rooms, fine : BOOLEAN]

UnreadTypes ==
  /\ infos \in [Rooms -> RoomInfos]
  /\ loaded \subseteq Rooms /\ left \subseteq Rooms /\ goneRows \subseteq Rooms
  /\ suspects \in Seq(Rooms)
  /\ counts \in [Rooms -> Stored]
  /\ told \in [Rooms -> Stored]
  /\ last \in [Rooms -> Stored]
  /\ captures \in [Rooms -> Captures]
  /\ watch \in Watches
  /\ send \in [Senders -> {Unread!NoSend} \cup Answers]

\* A row of the reconcile table is suspect or gone, and there is one of a room.
OneRow ==
  /\ \A i, j \in 1..Len(suspects) : suspects[i] = suspects[j] => i = j
  /\ \A i \in 1..Len(suspects) : suspects[i] \notin goneRows

\* The SDK counts from what it holds.
Counting == \A r \in Rooms : infos[r].count = Unread!Counted(infos[r])

\* The periodic sweep runs on a full list of rooms, in which a room that was never left is
\* joined.
Kept ==
  /\ Unread!At("probe") \/ Unread!At("verdict") \/ Unread!At("prune") => loaded = Rooms
  /\ \A r \in Rooms \ left : infos[r].joined
  /\ Unread!At("prune") => Rooms \ left \subseteq watch.joined
  /\ Unread!JoinedRowsKept

\* An answer under way that a room is served is right, or the room was purged after it.
Answered ==
  /\ \A s \in Senders : send[s] # Unread!NoSend /\ send[s].fine => send[s].room \in served \cup overtaken
  /\ Unread!At("verdict") => watch.list # <<>> /\ watch.verdict # "none"
  /\ Unread!At("verdict") /\ watch.verdict = "reachable" => Head(watch.list) \in served \cup overtaken

UnreadInv == UnreadTypes /\ OneRow /\ Counting /\ Kept /\ Answered

\* Rooms are captured within a sweep, which leaves the watcher's cache of the others alone.
HeldInv ==
  /\ ~Unread!At("sweep") => \A r \in Rooms : captures[r] = Unread!Off
  /\ Unread!HeldIsNotWritten

\* What a sweep has pinned is in the watcher's set, and so every capture of it is zero.
PinInv ==
  /\ pinned \subseteq goneRows
  /\ Unread!At("seed") => \A r \in Rooms : captures[r] = Unread!Off
  /\ ~Unread!At("seed") => pinned \subseteq gone
  /\ \A r \in Rooms : r \in pinned => counts[r] \in {0, Unread!None} /\ captures[r].pair = 0

\* A room that has answered is served, neither suspect nor gone, and no failure of it is
\* under way.
BackInv ==
  /\ ok \subseteq served
  /\ Unread!GoneIsBacked
  /\ \A i \in 1..Len(suspects) : suspects[i] \notin ok
  /\ \A s \in Senders : send[s] # Unread!NoSend /\ ~send[s].fine => send[s].room \notin ok

LEMMA UnreadNumbers ==
  ASSUME Unread!UnreadCountsAssumption
  PROVE  /\ MaxCount \in Nat /\ Unread!Counts = 0..(MaxCount + 1) /\ Unread!Phantom = MaxCount + 1
         /\ Unread!None = MaxCount + 2 /\ 0 \in Unread!Counts /\ Unread!Phantom # 0 /\ Unread!None # Unread!Phantom
         /\ Unread!None \notin Unread!Counts /\ Unread!None # 0 /\ Unread!Counts \subseteq Stored /\ Unread!None \in Stored
         /\ Unread!Off \in Captures /\ Unread!Off.pc = "off" /\ Unread!Off.pair = 0
         /\ 0..MaxCount \subseteq Unread!Counts /\ Unread!Phantom \notin 0..MaxCount /\ Unread!Phantom \in Unread!Counts
  BY DEF Unread!UnreadCountsAssumption, Unread!Counts, Unread!Phantom, Unread!None, Stored,
     Unread!Off, Captures, Pends

\* What a change of a room leaves alone, field by field.
LEMMA SetTruth ==
  ASSUME NEW v \in RoomInfos, NEW x \in 0..MaxCount, NEW q, q = [v EXCEPT !.truth = x]
  PROVE  /\ q \in RoomInfos /\ q.truth = x /\ q.count = v.count /\ q.pend = v.pend
         /\ (q.chunk <=> v.chunk) /\ (q.joined <=> v.joined)
  BY DEF RoomInfos

LEMMA SetCount ==
  ASSUME NEW v \in RoomInfos, NEW x \in Unread!Counts, NEW q, q = [v EXCEPT !.count = x]
  PROVE  /\ q \in RoomInfos /\ q.truth = v.truth /\ q.count = x /\ q.pend = v.pend
         /\ (q.chunk <=> v.chunk) /\ (q.joined <=> v.joined)
  BY DEF RoomInfos

LEMMA SetPend ==
  ASSUME NEW v \in RoomInfos, NEW x \in Pends, NEW q, q = [v EXCEPT !.pend = x]
  PROVE  /\ q \in RoomInfos /\ q.truth = v.truth /\ q.count = v.count /\ q.pend = x
         /\ (q.chunk <=> v.chunk) /\ (q.joined <=> v.joined)
  BY DEF RoomInfos

LEMMA SetChunk ==
  ASSUME NEW v \in RoomInfos, NEW x \in BOOLEAN, NEW q, q = [v EXCEPT !.chunk = x]
  PROVE  /\ q \in RoomInfos /\ q.truth = v.truth /\ q.count = v.count /\ q.pend = v.pend
         /\ (q.chunk <=> x) /\ (q.joined <=> v.joined)
  BY DEF RoomInfos

LEMMA SetJoined ==
  ASSUME NEW v \in RoomInfos, NEW x \in BOOLEAN, NEW q, q = [v EXCEPT !.joined = x]
  PROVE  /\ q \in RoomInfos /\ q.truth = v.truth /\ q.count = v.count /\ q.pend = v.pend
         /\ (q.chunk <=> v.chunk) /\ (q.joined <=> x)
  BY DEF RoomInfos

LEMMA Unjoined ==
  ASSUME NEW v \in RoomInfos, NEW q, q = [v EXCEPT !.joined = FALSE]
  PROVE  /\ q \in RoomInfos /\ q.truth = v.truth /\ q.count = v.count /\ q.pend = v.pend
         /\ (q.chunk <=> v.chunk)
  BY DEF RoomInfos

LEMMA Reloaded ==
  ASSUME NEW v \in RoomInfos, NEW q, q = [v EXCEPT !.chunk = ~v.chunk]
  PROVE  /\ q \in RoomInfos /\ q.truth = v.truth /\ q.count = v.count /\ q.pend = v.pend
         /\ (q.joined <=> v.joined)
  BY DEF RoomInfos

LEMMA SetTomb ==
  ASSUME NEW v \in RoomInfos, NEW q, q = [v EXCEPT !.tomb = TRUE]
  PROVE  /\ q \in RoomInfos /\ q.truth = v.truth /\ q.count = v.count /\ q.pend = v.pend
         /\ (q.chunk <=> v.chunk) /\ (q.joined <=> v.joined)
  BY DEF RoomInfos

\* What the SDK counts is the truth or nothing.
LEMMA CountedIs ==
  ASSUME Unread!UnreadCountsAssumption, NEW v \in RoomInfos
  PROVE  /\ Unread!Counted(v) \in Unread!Counts
         /\ Unread!Counted(v) # Unread!Phantom <=> v.chunk /\ v.pend # "ahead"
  BY UnreadNumbers DEF Unread!Counted, RoomInfos

LEMMA RecountedIs ==
  ASSUME Unread!UnreadCountsAssumption, NEW v \in RoomInfos, NEW q, q = Unread!Recounted(v)
  PROVE  /\ q \in RoomInfos /\ q.count = Unread!Counted(q) /\ q.pend = v.pend
         /\ (q.chunk <=> v.chunk) /\ (q.joined <=> v.joined)
<1>1. q = [v EXCEPT !.count = Unread!Counted(v)]
  BY DEF Unread!Recounted
<1>2. Unread!Counted(v) \in Unread!Counts
  BY CountedIs
<1> HIDE DEF Unread!Recounted
<1>3. /\ q \in RoomInfos /\ q.truth = v.truth /\ q.count = Unread!Counted(v) /\ q.pend = v.pend
      /\ (q.chunk <=> v.chunk) /\ (q.joined <=> v.joined)
  BY <1>1, <1>2, SetCount
<1> QED
  BY <1>3 DEF Unread!Counted

\* The changes of a room that the SDK sees.
Changing(r) ==
  \/ Unread!Message(r) \/ Unread!Read(r) \/ Unread!Unmatched(r, "ahead") \/ Unread!Unmatched(r, "behind")
  \/ Unread!Reload(r) \/ Unread!Tombstone(r) \/ Unread!Leave(r) \/ Unread!Rejoin(r)

\* A room after one of them.
Changed(r, s) ==
  /\ s \in RoomInfos /\ s.count = Unread!Counted(s)
  /\ infos' = [infos EXCEPT ![r] = s]
  /\ \/ left' = left \cup {r}
     \/ left' = left /\ (infos[r].joined => s.joined)
  /\ UNCHANGED <<served, ok, overtaken, loaded, Unread!noteVars, counts, told, Unread!watchVars, pinned>>

LEMMA ChangingChanges ==
  ASSUME Unread!UnreadCountsAssumption, UnreadInv, NEW r \in Rooms, Changing(r)
  PROVE  \E s : Changed(r, s)
<1> DEFINE v == infos[r]
<1>1. v \in RoomInfos /\ v.count = Unread!Counted(v)
  BY DEF UnreadInv, UnreadTypes, Counting
<1>2. /\ v.truth \in 0..MaxCount /\ 0 \in 0..MaxCount /\ MaxCount \in Nat
      /\ v.chunk \in BOOLEAN /\ v.joined \in BOOLEAN
  BY <1>1, UnreadNumbers DEF RoomInfos
<1>3. CASE Unread!Message(r)
  <2> DEFINE a == [v EXCEPT !.truth = v.truth + 1]
  <2> DEFINE s == Unread!Recounted(a)
  <2>1. /\ Unread!Sdk(r, s) /\ UNCHANGED left /\ v.truth < MaxCount
        /\ UNCHANGED <<loaded, Unread!noteVars, counts, told, Unread!watchVars, pinned>>
    BY <1>3 DEF Unread!Message, Unread!Happens
  <2>2. v.truth + 1 \in 0..MaxCount
    BY <1>2, <2>1
  <2>3. a \in RoomInfos /\ a.pend = v.pend /\ (a.chunk <=> v.chunk) /\ (a.joined <=> v.joined)
    BY <1>1, <2>2, SetTruth
  <2> HIDE DEF v, a
  <2>4. /\ s \in RoomInfos /\ s.count = Unread!Counted(s) /\ s.pend = a.pend
        /\ (s.chunk <=> a.chunk) /\ (s.joined <=> a.joined)
    BY <2>3, RecountedIs
  <2> HIDE DEF s
  <2>5. Changed(r, s)
    BY <1>1, <2>1, <2>3, <2>4 DEF Changed, Unread!Sdk, v
  <2> QED
    BY <2>5
<1>4. CASE Unread!Read(r)
  <2> DEFINE a == [v EXCEPT !.truth = 0]
             b == [a EXCEPT !.chunk = TRUE]
             c == [b EXCEPT !.pend = "none"]
  <2> DEFINE s == Unread!Recounted(c)
  <2>1. /\ Unread!Sdk(r, s) /\ UNCHANGED left
        /\ UNCHANGED <<loaded, Unread!noteVars, counts, told, Unread!watchVars, pinned>>
    BY <1>4 DEF Unread!Read, Unread!Happens
  <2>2. a \in RoomInfos /\ (a.joined <=> v.joined)
    BY <1>1, <1>2, SetTruth
  <2> HIDE DEF v, a
  <2>3. b \in RoomInfos /\ (b.joined <=> a.joined) /\ b.chunk
    BY <2>2, SetChunk
  <2> HIDE DEF b
  <2>4. "none" \in Pends
    BY DEF Pends
  <2>5. c \in RoomInfos /\ (c.joined <=> b.joined) /\ (c.chunk <=> b.chunk)
    BY <2>3, <2>4, SetPend
  <2> HIDE DEF c
  <2>6. /\ s \in RoomInfos /\ s.count = Unread!Counted(s)
        /\ (s.chunk <=> c.chunk) /\ (s.joined <=> c.joined)
    BY <2>5, RecountedIs
  <2> HIDE DEF s
  <2>7. Changed(r, s)
    BY <2>1, <2>2, <2>3, <2>5, <2>6 DEF Changed, Unread!Sdk, v
  <2> QED
    BY <2>7
<1>5. ASSUME NEW p \in {"ahead", "behind"}, Unread!Unmatched(r, p) PROVE \E s : Changed(r, s)
  <2> DEFINE a == [v EXCEPT !.pend = p]
             b == [a EXCEPT !.truth = IF p = "ahead" THEN 0 ELSE a.truth]
  <2> DEFINE s == Unread!Recounted(b)
  <2>1. /\ Unread!Sdk(r, Unread!Recounted([v EXCEPT !.pend = p,
                                   !.truth = IF p = "ahead" THEN 0 ELSE @])) /\ UNCHANGED left
        /\ UNCHANGED <<loaded, Unread!noteVars, counts, told, Unread!watchVars, pinned>>
    BY <1>5 DEF Unread!Unmatched, Unread!Happens
  <2>2. p \in Pends /\ p # "none"
    BY DEF Pends
  <2>3. /\ a \in RoomInfos /\ a.pend = p /\ a.truth = v.truth
        /\ (a.joined <=> v.joined) /\ (a.chunk <=> v.chunk)
    BY <1>1, <2>2, SetPend
  <2>4. Unread!Sdk(r, s)
    BY <2>1
  <2> HIDE DEF v, a
  <2>5. b \in RoomInfos /\ (b.joined <=> a.joined) /\ b.pend = a.pend
    BY <1>2, <2>3, SetTruth
  <2> HIDE DEF b
  <2>6. /\ s \in RoomInfos /\ s.count = Unread!Counted(s) /\ s.pend = b.pend
        /\ (s.joined <=> b.joined)
    BY <2>5, RecountedIs
  <2> HIDE DEF s
  <2>7. Changed(r, s)
    BY <2>1, <2>2, <2>3, <2>4, <2>5, <2>6 DEF Changed, Unread!Sdk, v
  <2> QED
    BY <2>7
<1>6. CASE Unread!Reload(r)
  <2> DEFINE a == [v EXCEPT !.chunk = ~v.chunk]
  <2> DEFINE s == Unread!Recounted(a)
  <2>1. /\ Unread!Sdk(r, s) /\ UNCHANGED left
        /\ UNCHANGED <<loaded, Unread!noteVars, counts, told, Unread!watchVars, pinned>>
    BY <1>6 DEF Unread!Reload, Unread!Happens
  <2>2. a \in RoomInfos /\ a.pend = v.pend /\ (a.joined <=> v.joined)
    BY <1>1, Reloaded
  <2> HIDE DEF v, a
  <2>3. /\ s \in RoomInfos /\ s.count = Unread!Counted(s) /\ s.pend = a.pend
        /\ (s.joined <=> a.joined)
    BY <2>2, RecountedIs
  <2> HIDE DEF s
  <2>4. Changed(r, s)
    BY <2>1, <2>2, <2>3 DEF Changed, Unread!Sdk, v
  <2> QED
    BY <2>4
<1>7. CASE Unread!Tombstone(r)
  <2> DEFINE s == [v EXCEPT !.tomb = TRUE]
  <2>1. /\ Unread!Sdk(r, s) /\ UNCHANGED left
        /\ UNCHANGED <<loaded, Unread!noteVars, counts, told, Unread!watchVars, pinned>>
    BY <1>7 DEF Unread!Tombstone, Unread!Happens
  <2>2. /\ s \in RoomInfos /\ s.truth = v.truth /\ s.count = v.count /\ s.pend = v.pend
        /\ (s.chunk <=> v.chunk) /\ (s.joined <=> v.joined)
    BY <1>1, SetTomb
  <2> HIDE DEF s, v
  <2>3. Changed(r, s)
    BY <1>1, <2>1, <2>2 DEF Changed, Unread!Sdk, v, Unread!Counted
  <2> QED
    BY <2>3
<1>8. CASE Unread!Leave(r)
  <2> DEFINE s == [v EXCEPT !.joined = FALSE]
  <2>1. /\ Unread!Sdk(r, s) /\ left' = left \cup {r}
        /\ UNCHANGED <<loaded, Unread!noteVars, counts, told, Unread!watchVars, pinned>>
    BY <1>8 DEF Unread!Leave, Unread!Happens
  <2>2. /\ s \in RoomInfos /\ s.truth = v.truth /\ s.count = v.count /\ s.pend = v.pend
        /\ (s.chunk <=> v.chunk)
    BY <1>1, Unjoined
  <2> HIDE DEF s, v
  <2>3. Changed(r, s)
    BY <1>1, <2>1, <2>2 DEF Changed, Unread!Sdk, v, Unread!Counted
  <2> QED
    BY <2>3
<1>9. CASE Unread!Rejoin(r)
  <2> DEFINE s == [v EXCEPT !.joined = TRUE]
  <2>1. /\ Unread!Sdk(r, s) /\ UNCHANGED left
        /\ UNCHANGED <<loaded, Unread!noteVars, counts, told, Unread!watchVars, pinned>>
    BY <1>9 DEF Unread!Rejoin, Unread!Happens
  <2>2. /\ s \in RoomInfos /\ s.truth = v.truth /\ s.count = v.count /\ s.pend = v.pend
        /\ (s.chunk <=> v.chunk) /\ s.joined
    BY <1>1, SetJoined
  <2> HIDE DEF s, v
  <2>3. Changed(r, s)
    BY <1>1, <2>1, <2>2 DEF Changed, Unread!Sdk, v, Unread!Counted
  <2> QED
    BY <2>3
<1> QED
  BY <1>3, <1>4, <1>5, <1>6, <1>7, <1>8, <1>9 DEF Changing

\* A room's row is deleted, and no other.
LEMMA DeleteIs ==
  ASSUME NEW q \in Seq(Rooms), NEW r,
         \A i, j \in 1..Len(q) : q[i] = q[j] => i = j, NEW p, p = Unread!Delete(q, r)
  PROVE  /\ p \in Seq(Rooms)
         /\ \A i, j \in 1..Len(p) : p[i] = p[j] => i = j
         /\ \A i \in 1..Len(p) : p[i] # r /\ \E j \in 1..Len(q) : q[j] = p[i]
         /\ \A j \in 1..Len(q) : q[j] # r => \E i \in 1..Len(p) : p[i] = q[j]
<1>1. CASE ~Unread!Contains(q, r)
  BY <1>1 DEF Unread!Delete, Unread!Contains
<1>2. CASE Unread!Contains(q, r)
  <2> DEFINE k == CHOOSE i \in 1..Len(q) : q[i] = r
  <2>1. k \in 1..Len(q) /\ q[k] = r
    BY <1>2 DEF Unread!Contains
  <2>2. p = SubSeq(q, 1, k - 1) \o SubSeq(q, k + 1, Len(q))
    BY <1>2 DEF Unread!Delete, Unread!RemoveAt
  <2> HIDE DEF k
  <2>3. Len(q) \in Nat
    OBVIOUS
  <2> DEFINE a == SubSeq(q, 1, k - 1)
             b == SubSeq(q, k + 1, Len(q))
  <2>4. /\ a \in Seq(Rooms) /\ Len(a) = k - 1
        /\ \A i \in 1..(k - 1) : a[i] = q[i]
    BY <2>1, <2>3
  <2>5. /\ b \in Seq(Rooms) /\ Len(b) = Len(q) - k
        /\ \A i \in 1..(Len(q) - k) : b[i] = q[k + i]
    BY <2>1, <2>3
  <2>6. p = a \o b
    BY <2>2
  <2> HIDE DEF a, b
  <2>7. /\ p \in Seq(Rooms) /\ Len(p) = Len(q) - 1
        /\ \A i \in 1..(k - 1) : p[i] = q[i]
        /\ \A i \in k..(Len(q) - 1) : p[i] = q[i + 1]
    <3>1. p \in Seq(Rooms) /\ Len(p) = Len(a) + Len(b)
      <4>1. a \in Seq(Rooms) /\ b \in Seq(Rooms)
        BY <2>4, <2>5
      <4>2. a \o b \in Seq(Rooms) /\ Len(a \o b) = Len(a) + Len(b)
        BY <4>1, ConcatProperties, Zenon
      <4> QED
        BY <2>6, <4>2
    <3>2. \A i \in 1..(k - 1) : p[i] = a[i]
      BY <2>1, <2>3, <2>4, <2>5, <2>6
    <3>3. \A i \in k..(Len(q) - 1) : p[i] = b[i - (k - 1)]
      BY <2>1, <2>3, <2>4, <2>5, <2>6
    <3>4. \A i \in k..(Len(q) - 1) : i - (k - 1) \in 1..(Len(q) - k) /\ k + (i - (k - 1)) = i + 1
      BY <2>1, <2>3
    <3>5. Len(p) = Len(q) - 1
      BY <2>1, <2>3, <2>4, <2>5, <3>1
    <3>6. \A i \in k..(Len(q) - 1) : p[i] = q[i + 1]
      <4> SUFFICES ASSUME NEW i \in k..(Len(q) - 1) PROVE p[i] = q[i + 1]
        OBVIOUS
      <4> DEFINE m == i - (k - 1)
      <4>1. m \in 1..(Len(q) - k) /\ k + m = i + 1 /\ p[i] = b[m]
        BY <3>3, <3>4
      <4> HIDE DEF m
      <4> QED
        BY <2>5, <4>1
    <3> QED
      BY <2>4, <3>1, <3>2, <3>5, <3>6
  <2>8. \A i \in 1..Len(p) : \E j \in 1..Len(q) : /\ p[i] = q[j] /\ j # k
                                                  /\ j = IF i < k THEN i ELSE i + 1
    BY <2>1, <2>3, <2>7
  <2>9. \A j \in 1..Len(q) : j # k => \E i \in 1..Len(p) : p[i] = q[j]
    <3> SUFFICES ASSUME NEW j \in 1..Len(q), j # k PROVE \E i \in 1..Len(p) : p[i] = q[j]
      OBVIOUS
    <3>1. CASE j < k
      BY <2>1, <2>3, <2>7, <3>1
    <3>2. CASE ~(j < k)
      <4>1. j - 1 \in k..(Len(q) - 1) /\ j - 1 \in 1..Len(p) /\ (j - 1) + 1 = j
        BY <2>1, <2>3, <2>7, <3>2
      <4> QED
        BY <4>1, <2>7
    <3> QED
      BY <3>1, <3>2
  <2>10. \A i, j \in 1..Len(p) : p[i] = p[j] => i = j
    BY <2>1, <2>3, <2>7, <2>8
  <2>11. \A j \in 1..Len(q) : q[j] = r <=> j = k
    BY <2>1
  <2>12. \A i \in 1..Len(p) : p[i] # r /\ \E j \in 1..Len(q) : q[j] = p[i]
    BY <2>8, <2>11
  <2>13. \A j \in 1..Len(q) : q[j] # r => \E i \in 1..Len(p) : p[i] = q[j]
    BY <2>9, <2>11
  <2> QED
    BY <2>7, <2>10, <2>12, <2>13
<1> QED
  BY <1>1, <1>2

\* What is captured of a room.
LEMMA SnapshotIs ==
  ASSUME Unread!UnreadCountsAssumption, UnreadInv, NEW r \in Rooms, NEW c,
         c = Unread!Snapshot(r)
  PROVE  /\ c \in Captures
         /\ c.pc = "write" /\ c.pend = "ahead" => ~Unread!Increased(last[r], c.pair)
         /\ r \in gone => c.pair = 0
<1>1. infos[r] \in RoomInfos /\ last[r] \in Stored
  BY DEF UnreadInv, UnreadTypes
<1>2. infos[r].count \in Unread!Counts /\ infos[r].pend \in Pends
  BY <1>1 DEF RoomInfos
<1> DEFINE pair == IF Unread!Suppressed(r) THEN 0 ELSE infos[r].count
           evident == ~Unread!Suppressed(r) /\ infos[r].pend # "none" /\ Unread!Increased(last[r], pair)
<1>3. \/ c = Unread!Off
      \/ evident /\ c = [pc |-> "evidence", pair |-> pair, pend |-> infos[r].pend]
      \/ ~evident /\ c = [pc |-> "write", pair |-> pair, pend |-> infos[r].pend]
  BY DEF Unread!Snapshot
<1>4. pair \in Unread!Counts /\ (r \in gone => pair = 0)
  BY <1>2, UnreadNumbers DEF Unread!Suppressed
<1>5. ~evident /\ infos[r].pend = "ahead" => ~Unread!Increased(last[r], pair)
  <2>1. CASE Unread!Suppressed(r)
    <3>1. pair = 0
      BY <2>1
    <3> HIDE DEF pair
    <3>2. last[r] \in Nat
      BY <1>1, UnreadNumbers DEF Stored
    <3> QED
      BY <3>1, <3>2 DEF Unread!Increased
  <2>2. CASE ~Unread!Suppressed(r)
    BY <2>2
  <2> QED
    BY <2>1, <2>2
<1> HIDE DEF pair, evident
<1>6. c \in Captures
  BY <1>2, <1>3, <1>4, UnreadNumbers DEF Captures
<1>7. c.pc = "write" /\ c.pend = "ahead" => ~Unread!Increased(last[r], c.pair)
  <2>1. CASE c = Unread!Off
    BY <2>1, UnreadNumbers
  <2>2. CASE c = [pc |-> "evidence", pair |-> pair, pend |-> infos[r].pend]
    BY <2>2
  <2>3. CASE ~evident /\ c = [pc |-> "write", pair |-> pair, pend |-> infos[r].pend]
    BY <1>5, <2>3
  <2> QED
    BY <1>3, <2>1, <2>2, <2>3
<1>8. r \in gone => c.pair = 0
  BY <1>3, <1>4, UnreadNumbers
<1> QED
  BY <1>6, <1>7, <1>8

LEMMA HydrateUnread ==
  ASSUME Unread!UnreadCountsAssumption, UnreadInv, NEW r \in Rooms, Unread!Hydrate(r)
  PROVE  UnreadInv'
<1> USE DEF UnreadInv, Unread!Hydrate, Unread!sdkVars, Unread!noteVars, Unread!watchVars, Unread!At
<1>1. UnreadTypes'
  BY UnreadNumbers DEF UnreadTypes, Watches
<1>2. OneRow'
  BY DEF OneRow
<1>3. Counting'
  BY DEF Counting, Unread!Counted
<1>4. Kept'
  BY UnreadNumbers DEF Kept, Unread!JoinedRowsKept, UnreadTypes, Watches
<1>5. Answered'
  BY DEF Answered, UnreadTypes, Watches
<1> QED
  BY <1>1, <1>2, <1>3, <1>4, <1>5

LEMMA PurgeUnread ==
  ASSUME Unread!UnreadCountsAssumption, UnreadInv, NEW r \in Rooms, Unread!Purge(r)
  PROVE  UnreadInv'
<1> USE DEF UnreadInv, Unread!Purge, Unread!Happens, Unread!AnswerUnderWay, Unread!sdkVars, Unread!noteVars, Unread!watchVars, Unread!At
<1>1. UnreadTypes'
  BY UnreadNumbers DEF UnreadTypes, Watches
<1>2. OneRow'
  BY DEF OneRow
<1>3. Counting'
  BY DEF Counting, Unread!Counted
<1>4. Kept'
  BY UnreadNumbers DEF Kept, Unread!JoinedRowsKept, UnreadTypes, Watches
<1>5. Answered'
  BY DEF Answered, UnreadTypes, Watches, Answers, Unread!NoSend
<1> QED
  BY <1>1, <1>2, <1>3, <1>4, <1>5

LEMMA RestoreUnread ==
  ASSUME Unread!UnreadCountsAssumption, UnreadInv, NEW r \in Rooms, Unread!Restore(r)
  PROVE  UnreadInv'
<1> USE DEF UnreadInv, Unread!Restore, Unread!Happens, Unread!sdkVars, Unread!noteVars, Unread!watchVars, Unread!At
<1>1. UnreadTypes'
  BY UnreadNumbers DEF UnreadTypes, Watches
<1>2. OneRow'
  BY DEF OneRow
<1>3. Counting'
  BY DEF Counting, Unread!Counted
<1>4. Kept'
  BY UnreadNumbers DEF Kept, Unread!JoinedRowsKept, UnreadTypes, Watches
<1>5. Answered'
  BY DEF Answered, UnreadTypes, Watches
<1> QED
  BY <1>1, <1>2, <1>3, <1>4, <1>5

LEMMA SendsUnread ==
  ASSUME Unread!UnreadCountsAssumption, UnreadInv, NEW r \in Rooms, NEW s \in Senders,
         Unread!SendReadReceipt(s, r)
  PROVE  UnreadInv'
<1> USE DEF UnreadInv, Unread!SendReadReceipt, Unread!sdkVars, Unread!noteVars, Unread!watchVars, Unread!At
<1>1. UnreadTypes'
  <2>1. send' \in [Senders -> {Unread!NoSend} \cup Answers]
    BY DEF UnreadTypes, Answers
  <2> QED
    BY <2>1 DEF UnreadTypes
<1>2. OneRow'
  BY DEF OneRow
<1>3. Counting'
  BY DEF Counting, Unread!Counted
<1>4. Kept'
  BY UnreadNumbers DEF Kept, Unread!JoinedRowsKept, UnreadTypes, Watches
<1>5. Answered'
  BY DEF Answered, UnreadTypes, Watches
<1> QED
  BY <1>1, <1>2, <1>3, <1>4, <1>5

LEMMA SeedUnread ==
  ASSUME Unread!UnreadCountsAssumption, UnreadInv, Unread!Seed
  PROVE  UnreadInv'
<1> USE DEF UnreadInv, Unread!Seed, Unread!sdkVars, Unread!noteVars, Unread!watchVars, Unread!At
<1>1. UnreadTypes'
  BY UnreadNumbers DEF UnreadTypes, Watches
<1>2. OneRow'
  BY DEF OneRow
<1>3. Counting'
  BY DEF Counting, Unread!Counted
<1>4. Kept'
  BY UnreadNumbers DEF Kept, Unread!JoinedRowsKept, UnreadTypes, Watches
<1>5. Answered'
  BY DEF Answered, UnreadTypes, Watches
<1> QED
  BY <1>1, <1>2, <1>3, <1>4, <1>5

LEMMA BeginStartupUnread ==
  ASSUME Unread!UnreadCountsAssumption, UnreadInv, Unread!BeginStartup
  PROVE  UnreadInv'
<1> USE DEF UnreadInv, Unread!BeginStartup, Unread!Joined, Unread!sdkVars, Unread!noteVars, Unread!watchVars, Unread!At
<1>1. UnreadTypes'
  BY UnreadNumbers DEF UnreadTypes, Watches
<1>2. OneRow'
  BY DEF OneRow
<1>3. Counting'
  BY DEF Counting, Unread!Counted
<1>4. Kept'
  BY UnreadNumbers DEF Kept, Unread!JoinedRowsKept, UnreadTypes, Watches
<1>5. Answered'
  BY DEF Answered, UnreadTypes, Watches
<1> QED
  BY <1>1, <1>2, <1>3, <1>4, <1>5

LEMMA LaggedUnread ==
  ASSUME Unread!UnreadCountsAssumption, UnreadInv, Unread!Lagged
  PROVE  UnreadInv'
<1> USE DEF UnreadInv, Unread!Lagged, Unread!sdkVars, Unread!noteVars, Unread!watchVars, Unread!At
<1>1. UnreadTypes'
  BY UnreadNumbers DEF UnreadTypes, Watches
<1>2. OneRow'
  BY DEF OneRow
<1>3. Counting'
  BY DEF Counting, Unread!Counted
<1>4. Kept'
  BY UnreadNumbers DEF Kept, Unread!JoinedRowsKept, UnreadTypes, Watches
<1>5. Answered'
  BY DEF Answered, UnreadTypes, Watches
<1> QED
  BY <1>1, <1>2, <1>3, <1>4, <1>5

LEMMA EvidenceUnread ==
  ASSUME Unread!UnreadCountsAssumption, UnreadInv, NEW r \in Rooms, Unread!Evidence(r)
  PROVE  UnreadInv'
<1> USE DEF UnreadInv, Unread!Evidence, Unread!sdkVars, Unread!noteVars, Unread!watchVars, Unread!At
<1>1. UnreadTypes'
  <2>1. captures \in [Rooms -> Captures]
    BY DEF UnreadTypes
  <2>2. captures' \in [Rooms -> Captures]
    BY <2>1, UnreadNumbers DEF Captures
  <2> QED
    BY <2>2 DEF UnreadTypes
<1>2. OneRow'
  BY DEF OneRow
<1>3. Counting'
  BY DEF Counting, Unread!Counted
<1>4. Kept'
  BY UnreadNumbers DEF Kept, Unread!JoinedRowsKept, UnreadTypes, Watches
<1>5. Answered'
  BY DEF Answered, UnreadTypes, Watches
<1> QED
  BY <1>1, <1>2, <1>3, <1>4, <1>5

LEMMA WriteUnread ==
  ASSUME Unread!UnreadCountsAssumption, UnreadInv, NEW r \in Rooms, Unread!Write(r)
  PROVE  UnreadInv'
<1> USE DEF UnreadInv, Unread!Write, Unread!sdkVars, Unread!noteVars, Unread!watchVars, Unread!At
<1>1. UnreadTypes'
  <2>1. captures' \in [Rooms -> Captures] /\ captures[r].pair \in Stored
    BY UnreadNumbers DEF UnreadTypes, Captures, Stored
  <2>2. counts' \in [Rooms -> Stored] /\ told' \in [Rooms -> Stored] /\ last' \in [Rooms -> Stored]
    BY <2>1 DEF UnreadTypes
  <2> QED
    BY <2>1, <2>2 DEF UnreadTypes
<1>2. OneRow'
  BY DEF OneRow
<1>3. Counting'
  BY DEF Counting, Unread!Counted
<1>4. Kept'
  <2>1. captures[r].pair # Unread!None
    BY UnreadNumbers DEF UnreadTypes, Captures
  <2>2. Unread!JoinedRowsKept'
    BY <2>1 DEF Kept, Unread!JoinedRowsKept, UnreadTypes
  <2> QED
    BY <2>2 DEF Kept
<1>5. Answered'
  BY DEF Answered, UnreadTypes, Watches
<1> QED
  BY <1>1, <1>2, <1>3, <1>4, <1>5

LEMMA SweepDoneUnread ==
  ASSUME Unread!UnreadCountsAssumption, UnreadInv, Unread!SweepDone
  PROVE  UnreadInv'
<1> USE DEF UnreadInv, Unread!SweepDone, Unread!sdkVars, Unread!noteVars, Unread!watchVars, Unread!At
<1>1. UnreadTypes'
  BY UnreadNumbers DEF UnreadTypes, Watches
<1>2. OneRow'
  BY DEF OneRow
<1>3. Counting'
  BY DEF Counting, Unread!Counted
<1>4. Kept'
  BY UnreadNumbers DEF Kept, Unread!JoinedRowsKept, UnreadTypes, Watches
<1>5. Answered'
  BY DEF Answered, UnreadTypes, Watches
<1> QED
  BY <1>1, <1>2, <1>3, <1>4, <1>5

LEMMA TickUnread ==
  ASSUME Unread!UnreadCountsAssumption, UnreadInv, Unread!Tick
  PROVE  UnreadInv'
<1> USE DEF UnreadInv, Unread!Tick, Unread!sdkVars, Unread!noteVars, Unread!watchVars, Unread!At
<1>1. UnreadTypes'
  <2> DEFINE n == IF Len(suspects) < ProbesPerSweep THEN Len(suspects) ELSE ProbesPerSweep
             l == SubSeq(suspects, 1, n)
  <2>1. suspects \in Seq(Rooms) /\ watch \in Watches
    BY DEF UnreadTypes
  <2>2. n \in 0..Len(suspects)
    BY <2>1 DEF Unread!UnreadCountsAssumption
  <2>3. \A i \in 1..n : suspects[i] \in Rooms
    BY <2>1, <2>2
  <2> HIDE DEF n
  <2>4. l \in Seq(Rooms)
    BY <2>1, <2>2, <2>3, SubSeqProperties
  <2>5. watch' = [watch EXCEPT !.pc = "probe", !.list = l] \/ watch' = [watch EXCEPT !.pc = "probe"]
    BY DEF n
  <2> HIDE DEF l
  <2>6. watch' \in Watches
    BY <2>1, <2>4, <2>5 DEF Watches
  <2> QED
    BY <2>6 DEF UnreadTypes
<1>2. OneRow'
  BY DEF OneRow
<1>3. Counting'
  BY DEF Counting, Unread!Counted
<1>4. Kept'
  BY UnreadNumbers DEF Kept, Unread!JoinedRowsKept, UnreadTypes, Watches
<1>5. Answered'
  BY DEF Answered, UnreadTypes, Watches
<1> QED
  BY <1>1, <1>2, <1>3, <1>4, <1>5

LEMMA ProbeUnread ==
  ASSUME Unread!UnreadCountsAssumption, UnreadInv, Unread!Probe
  PROVE  UnreadInv'
<1> USE DEF UnreadInv, Unread!Probe, Unread!VerdictOf, Unread!sdkVars, Unread!noteVars, Unread!watchVars, Unread!At
<1>1. UnreadTypes'
  <2>1. watch \in Watches
    BY DEF UnreadTypes
  <2>2. \/ \E v \in {"reachable", "absent", "inconclusive"} :
             watch' = [watch EXCEPT !.pc = "verdict", !.verdict = v]
        \/ watch' = [watch EXCEPT !.list = <<>>]
    OBVIOUS
  <2>3. <<>> \in Seq(Rooms)
    OBVIOUS
  <2> DEFINE none == <<>>
  <2>4. none \in Seq(Rooms)
    BY <2>3
  <2>5. \/ \E v \in {"reachable", "absent", "inconclusive"} :
             watch' = [watch EXCEPT !.pc = "verdict", !.verdict = v]
        \/ watch' = [watch EXCEPT !.list = none]
    BY <2>2
  <2> HIDE DEF none
  <2>6. watch' \in Watches
    BY <2>1, <2>4, <2>5 DEF Watches
  <2> QED
    BY <2>6 DEF UnreadTypes
<1>2. OneRow'
  BY DEF OneRow
<1>3. Counting'
  BY DEF Counting, Unread!Counted
<1>4. Kept'
  BY UnreadNumbers DEF Kept, Unread!JoinedRowsKept, UnreadTypes, Watches
<1>5. Answered'
  BY DEF Answered, UnreadTypes, Watches
<1> QED
  BY <1>1, <1>2, <1>3, <1>4, <1>5

LEMMA RefreshUnread ==
  ASSUME Unread!UnreadCountsAssumption, UnreadInv, Unread!Refresh
  PROVE  UnreadInv'
<1> USE DEF UnreadInv, Unread!Refresh, Unread!Joined, Unread!sdkVars, Unread!noteVars, Unread!watchVars, Unread!At
<1>1. UnreadTypes'
  BY UnreadNumbers DEF UnreadTypes, Watches
<1>2. OneRow'
  BY DEF OneRow
<1>3. Counting'
  BY DEF Counting, Unread!Counted
<1>4. Kept'
  BY UnreadNumbers DEF Kept, Unread!JoinedRowsKept, UnreadTypes, Watches
<1>5. Answered'
  BY DEF Answered, UnreadTypes, Watches
<1> QED
  BY <1>1, <1>2, <1>3, <1>4, <1>5

LEMMA PruneUnread ==
  ASSUME Unread!UnreadCountsAssumption, UnreadInv, Unread!Prune
  PROVE  UnreadInv'
<1> USE DEF UnreadInv, Unread!Prune, Unread!sdkVars, Unread!noteVars, Unread!watchVars, Unread!At
<1>1. UnreadTypes'
  <2>1. watch \in Watches /\ counts \in [Rooms -> Stored] /\ last \in [Rooms -> Stored]
    BY DEF UnreadTypes
  <2>2. watch' \in Watches
    BY <2>1 DEF Watches
  <2>3. counts' \in [Rooms -> Stored] /\ last' \in [Rooms -> Stored]
    BY <2>1, UnreadNumbers
  <2> QED
    BY <2>2, <2>3 DEF UnreadTypes
<1>2. OneRow'
  BY DEF OneRow
<1>3. Counting'
  BY DEF Counting, Unread!Counted
<1>4. Kept'
  BY UnreadNumbers DEF Kept, Unread!JoinedRowsKept, UnreadTypes, Watches
<1>5. Answered'
  BY DEF Answered, UnreadTypes, Watches
<1> QED
  BY <1>1, <1>2, <1>3, <1>4, <1>5

LEMMA RestartUnread ==
  ASSUME Unread!UnreadCountsAssumption, UnreadInv, Unread!Restart
  PROVE  UnreadInv'
<1> USE DEF UnreadInv, Unread!Restart, Unread!Starting, Unread!sdkVars, Unread!noteVars, Unread!watchVars, Unread!At
<1>1. UnreadTypes'
  BY UnreadNumbers DEF UnreadTypes, Watches
<1>2. OneRow'
  BY DEF OneRow
<1>3. Counting'
  BY DEF Counting, Unread!Counted
<1>4. Kept'
  BY UnreadNumbers DEF Kept, Unread!JoinedRowsKept, UnreadTypes, Watches
<1>5. Answered'
  BY DEF Answered, UnreadTypes, Watches
<1> QED
  BY <1>1, <1>2, <1>3, <1>4, <1>5

LEMMA ChangingUnread ==
  ASSUME Unread!UnreadCountsAssumption, UnreadInv, NEW r \in Rooms, Changing(r)
  PROVE  UnreadInv'
<1>1. PICK s : Changed(r, s)
  BY ChangingChanges
<1> USE DEF UnreadInv, Unread!sdkVars, Unread!noteVars, Unread!watchVars, Unread!At
<1>2. UnreadTypes'
  BY <1>1 DEF UnreadTypes, Changed
<1>3. OneRow'
  BY <1>1 DEF OneRow, Changed
<1>4. Counting'
  <2> SUFFICES ASSUME NEW x \in Rooms PROVE infos'[x].count = Unread!Counted(infos'[x])
    BY DEF Counting, Unread!Counted
  <2>1. infos'[x] = IF x = r THEN s ELSE infos[x]
    BY <1>1 DEF Changed, UnreadTypes
  <2> QED
    BY <1>1, <2>1 DEF Changed, Counting
<1>5. Kept'
  <2>1. \A x \in Rooms \ left' : infos'[x].joined
    BY <1>1 DEF Kept, UnreadTypes, Changed
  <2> QED
    BY <1>1, <2>1 DEF Kept, Changed, Unread!JoinedRowsKept
<1>6. Answered'
  BY <1>1 DEF Answered, Changed
<1> QED
  BY <1>2, <1>3, <1>4, <1>5, <1>6

LEMMA CaptureUnread ==
  ASSUME Unread!UnreadCountsAssumption, UnreadInv, NEW r \in Rooms,
         Unread!Sweep(r) \/ Unread!HeardUpdate(r)
  PROVE  UnreadInv'
<1>1. /\ watch' \in Watches /\ ~Unread!At("probe")' /\ ~Unread!At("verdict")' /\ ~Unread!At("prune")'
      /\ captures' = captures \/ captures' = [captures EXCEPT ![r] = Unread!Snapshot(r)]
      /\ UNCHANGED <<Unread!sdkVars, Unread!noteVars, counts, told, last, left, overtaken>>
  BY DEF Unread!Sweep, Unread!HeardUpdate, Unread!Capture, UnreadInv, UnreadTypes, Watches,
     Unread!At, Unread!watchVars
<1> USE DEF UnreadInv, Unread!sdkVars, Unread!noteVars
<1>2. captures' \in [Rooms -> Captures]
  BY <1>1, SnapshotIs DEF UnreadTypes
<1>3. UnreadTypes'
  BY <1>1, <1>2 DEF UnreadTypes
<1>4. OneRow'
  BY <1>1 DEF OneRow
<1>5. Counting'
  BY <1>1 DEF Counting, Unread!Counted
<1>6. Kept'
  BY <1>1 DEF Kept, Unread!JoinedRowsKept
<1>7. Answered'
  BY <1>1 DEF Answered
<1> QED
  BY <1>3, <1>4, <1>5, <1>6, <1>7

\* The rows of the reconcile table after a note or a verdict on a room: its row is deleted,
\* inserted as suspect, or promoted to gone.
Noted(r) ==
  \/ Unread!ClearReconcile(r)
  \/ Unread!FlagSuspect(r)
  \/ Unread!MarkGone(r) /\ UNCHANGED pinned
  \/ UNCHANGED <<suspects, goneRows, pinned>>

LEMMA NotedRows ==
  ASSUME UnreadInv, NEW r \in Rooms, Noted(r)
  PROVE  suspects' \in Seq(Rooms) /\ goneRows' \subseteq Rooms /\ OneRow'
<1>1. /\ suspects \in Seq(Rooms) /\ goneRows \subseteq Rooms
      /\ \A i, j \in 1..Len(suspects) : suspects[i] = suspects[j] => i = j
      /\ \A i \in 1..Len(suspects) : suspects[i] \notin goneRows
  BY DEF UnreadInv, UnreadTypes, OneRow
<1>2. CASE suspects' = Unread!Delete(suspects, r) /\ goneRows' \subseteq goneRows \cup {r}
  <2>1. goneRows' \subseteq Rooms
    BY <1>1, <1>2
  <2>2. suspects' \in Seq(Rooms) /\ OneRow'
    BY <1>1, <1>2, DeleteIs DEF OneRow
  <2> QED
    BY <2>1, <2>2
<1>3. CASE Unread!FlagSuspect(r) /\ suspects' # suspects
  <2>1. /\ suspects' = Append(suspects, r) /\ r \notin goneRows /\ goneRows' = goneRows
        /\ \A i \in 1..Len(suspects) : suspects[i] # r
    BY <1>3 DEF Unread!FlagSuspect, Unread!Contains
  <2>2. /\ suspects' \in Seq(Rooms) /\ Len(suspects') = Len(suspects) + 1
        /\ \A i \in 1..Len(suspects) : suspects'[i] = suspects[i]
        /\ suspects'[Len(suspects) + 1] = r
    BY <1>1, <2>1
  <2> QED
    BY <1>1, <2>1, <2>2 DEF OneRow
<1>4. CASE UNCHANGED <<suspects, goneRows>>
  BY <1>1, <1>4 DEF OneRow
<1> QED
  BY <1>2, <1>3, <1>4 DEF Noted, Unread!ClearReconcile, Unread!FlagSuspect, Unread!MarkGone

LEMMA NotingUnread ==
  ASSUME Unread!UnreadCountsAssumption, UnreadInv, NEW s \in Senders, Unread!NoteReachability(s)
  PROVE  UnreadInv'
<1>1. send[s] \in Answers
  BY DEF UnreadInv, UnreadTypes, Unread!NoteReachability, Unread!NoSend
<1>2. send[s].room \in Rooms /\ Noted(send[s].room)
  BY <1>1 DEF Answers, Noted, Unread!NoteReachability
<1>3. suspects' \in Seq(Rooms) /\ goneRows' \subseteq Rooms /\ OneRow'
  BY <1>2, NotedRows
<1>4. /\ send' = [send EXCEPT ![s] = Unread!NoSend]
      /\ UNCHANGED <<Unread!sdkVars, counts, told, Unread!watchVars, left, overtaken>>
  BY DEF Unread!NoteReachability
<1> USE DEF UnreadInv, Unread!sdkVars, Unread!watchVars, Unread!At
<1>5. UnreadTypes'
  BY <1>3, <1>4 DEF UnreadTypes
<1>6. Counting'
  BY <1>4 DEF Counting, Unread!Counted
<1>7. Kept'
  BY <1>4 DEF Kept, Unread!JoinedRowsKept
<1>8. Answered'
  BY <1>4 DEF Answered, UnreadTypes
<1> QED
  BY <1>3, <1>5, <1>6, <1>7, <1>8

LEMMA VerdictUnread ==
  ASSUME Unread!UnreadCountsAssumption, UnreadInv, Unread!ApplyVerdict
  PROVE  UnreadInv'
<1>1. /\ watch \in Watches /\ watch.list # <<>> /\ watch.list \in Seq(Rooms)
      /\ watch.pc = "verdict" /\ watch.verdict \in {"reachable", "absent", "inconclusive"}
  BY DEF UnreadInv, UnreadTypes, Answered, Unread!ApplyVerdict, Watches, Unread!At
<1>2. Head(watch.list) \in Rooms /\ Tail(watch.list) \in Seq(Rooms)
  BY <1>1
<1>3. Noted(Head(watch.list))
  BY <1>1 DEF Unread!ApplyVerdict, Unread!Settle, Noted
<1>4. suspects' \in Seq(Rooms) /\ goneRows' \subseteq Rooms /\ OneRow'
  BY <1>2, <1>3, NotedRows
<1>5. /\ watch' = [watch EXCEPT !.pc = "probe", !.list = Tail(watch.list), !.verdict = "none"]
      /\ UNCHANGED <<Unread!sdkVars, send, counts, told, last, captures, left, overtaken>>
  BY DEF Unread!ApplyVerdict
<1>6. watch' \in Watches /\ watch'.pc = "probe"
  BY <1>1, <1>2, <1>5 DEF Watches
<1> USE DEF UnreadInv, Unread!sdkVars, Unread!At
<1>7. UnreadTypes'
  BY <1>4, <1>5, <1>6 DEF UnreadTypes
<1>8. Counting'
  BY <1>5 DEF Counting, Unread!Counted
<1>9. Kept'
  BY <1>1, <1>5, <1>6 DEF Kept, Unread!JoinedRowsKept
<1>10. Answered'
  BY <1>5, <1>6 DEF Answered
<1> QED
  BY <1>4, <1>7, <1>8, <1>9, <1>10

LEMMA UnreadStarts == Unread!UnreadCountsAssumption /\ Unread!Init => UnreadInv
<1> SUFFICES ASSUME Unread!UnreadCountsAssumption, Unread!Init PROVE UnreadInv
  OBVIOUS
<1>1. UnreadTypes
  <2>1. infos \in [Rooms -> RoomInfos]
    BY UnreadNumbers DEF Unread!Init, RoomInfos, Pends
  <2>2. watch \in Watches
    BY DEF Unread!Init, Unread!Starting, Watches
  <2> QED
    BY <2>1, <2>2, UnreadNumbers DEF Unread!Init, UnreadTypes
<1>2. OneRow /\ Counting /\ Kept /\ Answered
  BY DEF Unread!Init, Unread!Starting, OneRow, Counting, Unread!Counted, Kept,
     Unread!JoinedRowsKept, Answered, Unread!At
<1> QED
  BY <1>1, <1>2 DEF UnreadInv

LEMMA UnreadNext ==
  ASSUME Unread!UnreadCountsAssumption, UnreadInv, [Unread!Next]_Unread!vars
  PROVE  UnreadInv'
<1>1. CASE UNCHANGED Unread!vars
  BY <1>1 DEF Unread!vars, Unread!sdkVars, Unread!noteVars, Unread!watchVars, UnreadInv,
     UnreadTypes, OneRow, Counting, Unread!Counted, Kept, Unread!JoinedRowsKept, Answered,
     Unread!At
<1>2. CASE Unread!Next
  BY <1>2, ChangingUnread, PurgeUnread, RestoreUnread, HydrateUnread, CaptureUnread,
     EvidenceUnread, WriteUnread, SendsUnread, NotingUnread, SeedUnread, BeginStartupUnread,
     SweepDoneUnread, TickUnread, ProbeUnread, VerdictUnread, RefreshUnread, PruneUnread,
     LaggedUnread, RestartUnread DEF Unread!Next, Unread!RoomSteps, Unread!WatchSteps, Changing
<1> QED
  BY <1>1, <1>2

-----------------------------------------------------------------------------
(* Increases that are held.                                                   *)

LEMMA HeldStarts == Unread!UnreadCountsAssumption /\ Unread!Init => HeldInv
  BY UnreadNumbers DEF Unread!Init, Unread!Starting, HeldInv, Unread!At, Unread!HeldIsNotWritten

LEMMA HeldNext ==
  ASSUME Unread!UnreadCountsAssumption, UnreadInv, HeldInv, [Unread!Next]_Unread!vars
  PROVE  HeldInv'
<1> USE DEF Unread!sdkVars, Unread!noteVars, Unread!watchVars, Unread!At
<1>1. captures \in [Rooms -> Captures] /\ last \in [Rooms -> Stored] /\ watch \in Watches
  BY DEF UnreadInv, UnreadTypes
\* Outside of a sweep nothing is captured, and what is not captured is not written.
<1>2. ASSUME \A x \in Rooms : captures'[x] = Unread!Off PROVE HeldInv'
  BY <1>2, UnreadNumbers DEF HeldInv, Unread!HeldIsNotWritten
<1>3. ASSUME watch.pc # "sweep", UNCHANGED captures PROVE HeldInv'
  BY <1>2, <1>3 DEF HeldInv
<1>4. ASSUME UNCHANGED <<captures, last, watch>> PROVE HeldInv'
  BY <1>4 DEF HeldInv, Unread!HeldIsNotWritten, Unread!Increased, Unread!None
<1>5. ASSUME NEW r \in Rooms, Changing(r) PROVE HeldInv'
  <2>1. PICK s : Changed(r, s)
    BY <1>5, ChangingChanges
  <2> QED
    BY <1>4, <2>1 DEF Changed
<1>6. ASSUME NEW r \in Rooms, Unread!Sweep(r) \/ Unread!HeardUpdate(r) PROVE HeldInv'
  <2> DEFINE c == Unread!Snapshot(r)
  <2>1. \/ UNCHANGED <<captures, last, watch>>
        \/ captures' = [captures EXCEPT ![r] = c] /\ watch'.pc = "sweep" /\ UNCHANGED last
    BY <1>1, <1>6 DEF Unread!Sweep, Unread!HeardUpdate, Unread!Capture, Watches
  <2>2. c.pc = "write" /\ c.pend = "ahead" => ~Unread!Increased(last[r], c.pair)
    BY SnapshotIs
  <2> HIDE DEF c
  <2>3. CASE captures' = [captures EXCEPT ![r] = c] /\ watch'.pc = "sweep" /\ UNCHANGED last
    BY <1>1, <2>2, <2>3 DEF HeldInv, Unread!HeldIsNotWritten, Unread!Increased, Unread!None
  <2> QED
    BY <1>4, <2>1, <2>3
<1>7. ASSUME NEW r \in Rooms, Unread!Evidence(r) PROVE HeldInv'
  <2>1. /\ UNCHANGED <<last, watch>> /\ captures[r].pc = "evidence"
        /\ \/ captures' = [captures EXCEPT ![r] = Unread!Off]
           \/ captures' = [captures EXCEPT ![r].pc = "write"] /\ captures[r].pend = "behind"
    BY <1>7 DEF Unread!Evidence, Unread!PendingStale
  <2>2. \A x \in Rooms : x # r => captures'[x] = captures[x]
    BY <1>1, <2>1
  <2>3. captures'[r] = Unread!Off \/ captures'[r].pend = "behind"
    BY <1>1, <2>1 DEF Captures
  <2>4. watch.pc = "sweep"
    BY <2>1, UnreadNumbers DEF HeldInv
  <2> QED
    BY <2>1, <2>2, <2>3, <2>4, UnreadNumbers DEF HeldInv, Unread!HeldIsNotWritten,
       Unread!Increased, Unread!None
<1>8. ASSUME NEW r \in Rooms, Unread!Write(r) PROVE HeldInv'
  <2>1. /\ captures' = [captures EXCEPT ![r] = Unread!Off] /\ watch' = watch
        /\ last' = last \/ last' = [last EXCEPT ![r] = captures[r].pair]
    BY <1>8 DEF Unread!Write
  <2>2. \A x \in Rooms : IF x = r THEN captures'[x] = Unread!Off
                                  ELSE captures'[x] = captures[x] /\ last'[x] = last[x]
    BY <1>1, <2>1
  <2> QED
    BY <2>1, <2>2, UnreadNumbers DEF HeldInv, Unread!HeldIsNotWritten, Unread!Increased,
       Unread!None
<1>9. CASE Unread!Seed \/ Unread!BeginStartup \/ Unread!Tick \/ Unread!Probe
           \/ Unread!ApplyVerdict \/ Unread!Refresh \/ Unread!Prune
  <2>1. watch.pc # "sweep" /\ UNCHANGED captures
    BY <1>9 DEF Unread!Seed, Unread!BeginStartup, Unread!Tick, Unread!Probe,
       Unread!ApplyVerdict, Unread!Refresh, Unread!Prune
  <2> QED
    BY <1>3, <2>1
<1>10. CASE Unread!SweepDone \/ Unread!Restart
  <2>1. \A x \in Rooms : captures'[x] = Unread!Off
    BY <1>10 DEF Unread!SweepDone, Unread!Restart
  <2> QED
    BY <1>2, <2>1
<1>11. \/ \E r \in Rooms : Unread!Purge(r) \/ Unread!Restore(r) \/ Unread!Hydrate(r)
       \/ \E s \in Senders, r \in Rooms : Unread!SendReadReceipt(s, r)
       \/ \E s \in Senders : Unread!NoteReachability(s)
       \/ Unread!Lagged \/ UNCHANGED Unread!vars
       => UNCHANGED <<captures, last, watch>>
  BY DEF Unread!Purge, Unread!Restore, Unread!Happens, Unread!Hydrate, Unread!SendReadReceipt,
     Unread!NoteReachability, Unread!Lagged, Unread!vars
<1> QED
  BY <1>4, <1>5, <1>6, <1>7, <1>8, <1>9, <1>10, <1>11
     DEF Unread!Next, Unread!RoomSteps, Unread!WatchSteps, Changing

-----------------------------------------------------------------------------
(* Rooms that are gone.                                                       *)

LEMMA PinStarts == Unread!UnreadCountsAssumption /\ Unread!Init => PinInv
  BY DEF Unread!Init, Unread!Starting, PinInv, Unread!At

\* A note or a verdict unpins the room whose verdict it takes away.
LEMMA NotedPins ==
  ASSUME PinInv, NEW r, Noted(r)
  PROVE  pinned' \subseteq goneRows' /\ pinned' \subseteq pinned
  BY DEF Noted, Unread!ClearReconcile, Unread!FlagSuspect, Unread!MarkGone, PinInv

LEMMA PinNext ==
  ASSUME Unread!UnreadCountsAssumption, SeedFails = FALSE, UnreadInv, PinInv,
         [Unread!Next]_Unread!vars
  PROVE  PinInv'
<1> USE DEF Unread!sdkVars, Unread!noteVars, Unread!watchVars, Unread!At
<1>1. /\ counts \in [Rooms -> Stored] /\ captures \in [Rooms -> Captures] /\ watch \in Watches
  BY DEF UnreadInv, UnreadTypes
<1>2. ASSUME NEW r \in Rooms, Changing(r) PROVE UNCHANGED <<pinned, goneRows, gone, counts, captures, watch>>
  <2>1. PICK s : Changed(r, s)
    BY <1>2, ChangingChanges
  <2> QED
    BY <2>1 DEF Changed
<1>3. ASSUME NEW r \in Rooms, Unread!Sweep(r) \/ Unread!HeardUpdate(r) PROVE PinInv'
  <2> DEFINE c == Unread!Snapshot(r)
  <2>1. /\ watch.pc # "seed" /\ watch'.pc # "seed"
        /\ captures' = captures \/ captures' = [captures EXCEPT ![r] = c]
        /\ UNCHANGED <<counts, pinned, goneRows, gone>>
    BY <1>1, <1>3 DEF Unread!Sweep, Unread!HeardUpdate, Unread!Capture, Watches
  <2>2. r \in gone => c.pair = 0
    BY SnapshotIs
  <2> HIDE DEF c
  <2> QED
    BY <1>1, <2>1, <2>2 DEF PinInv
<1>4. ASSUME NEW r \in Rooms, Unread!Evidence(r) PROVE PinInv'
  <2>1. /\ UNCHANGED <<counts, pinned, goneRows, gone, watch>> /\ captures[r].pc = "evidence"
        /\ captures' = [captures EXCEPT ![r] = Unread!Off] \/ captures' = [captures EXCEPT ![r].pc = "write"]
    BY <1>4 DEF Unread!Evidence
  <2>2. \A x \in Rooms : captures'[x].pair \in {captures[x].pair, 0}
    BY <1>1, <2>1, UnreadNumbers DEF Captures
  <2>3. watch.pc # "seed"
    BY <2>1, UnreadNumbers DEF PinInv
  <2> QED
    BY <2>1, <2>2, <2>3 DEF PinInv
<1>5. ASSUME NEW r \in Rooms, Unread!Write(r) PROVE PinInv'
  <2>1. /\ UNCHANGED <<pinned, goneRows, gone, watch>> /\ captures[r].pc = "write"
        /\ captures' = [captures EXCEPT ![r] = Unread!Off]
        /\ counts' = counts \/ counts' = [counts EXCEPT ![r] = captures[r].pair]
    BY <1>5 DEF Unread!Write
  <2>2. \A x \in Rooms : captures'[x] = IF x = r THEN Unread!Off ELSE captures[x]
    BY <1>1, <2>1
  <2>3. \A x \in Rooms : counts'[x] = counts[x] \/ (x = r /\ counts'[x] = captures[x].pair)
    <3>1. CASE counts' = counts
      BY <3>1
    <3>2. CASE counts' = [counts EXCEPT ![r] = captures[r].pair]
      BY <1>1, <3>2
    <3> QED
      BY <2>1, <3>1, <3>2
  <2>4. watch.pc # "seed"
    BY <2>1, UnreadNumbers DEF PinInv
  <2> QED
    BY <2>1, <2>2, <2>3, <2>4, UnreadNumbers DEF PinInv
<1>6. CASE Unread!Seed
  <2>1. gone' = goneRows /\ UNCHANGED <<counts, pinned, goneRows, captures>> /\ watch'.pc # "seed"
    BY <1>1, <1>6 DEF Unread!Seed, Watches
  <2> QED
    BY <2>1 DEF PinInv
<1>7. CASE Unread!SweepDone
  <2>1. /\ watch.pc # "seed" /\ watch'.pc # "seed" /\ UNCHANGED <<counts, goneRows, gone, captures>>
        /\ \A x \in Rooms : captures[x] = Unread!Off
        /\ pinned' = pinned \cup {x \in gone \cap goneRows : counts[x] = 0}
    BY <1>1, <1>7 DEF Unread!SweepDone, Watches
  <2> QED
    BY <2>1, UnreadNumbers DEF PinInv
<1>8. CASE Unread!Refresh
  <2>1. /\ watch.pc # "seed" /\ watch'.pc # "seed" /\ UNCHANGED <<counts, goneRows, pinned, captures>>
        /\ gone' = goneRows \/ gone' = gone
    BY <1>1, <1>8 DEF Unread!Refresh, Unread!ApplyGoneRefresh, Watches
  <2> QED
    BY <2>1 DEF PinInv
<1>9. CASE Unread!Prune
  <2>1. /\ watch.pc # "seed" /\ watch'.pc # "seed" /\ UNCHANGED <<gone, goneRows, pinned, captures>>
        /\ \A x \in Rooms : counts'[x] \in {counts[x], Unread!None}
    BY <1>1, <1>9 DEF Unread!Prune, Watches
  <2> QED
    BY <2>1 DEF PinInv
<1>10. CASE Unread!Restart
  <2>1. /\ UNCHANGED <<goneRows, pinned, counts>> /\ watch'.pc = "seed"
        /\ captures' = [x \in Rooms |-> Unread!Off]
    BY <1>10 DEF Unread!Restart, Unread!Starting
  <2> QED
    BY <2>1, UnreadNumbers DEF PinInv
<1>11. ASSUME \/ \E s \in Senders : Unread!NoteReachability(s)
              \/ Unread!ApplyVerdict
       PROVE  PinInv'
  <2>1. /\ UNCHANGED <<counts, gone, captures>> /\ (watch'.pc = "seed" <=> watch.pc = "seed")
    BY <1>1, <1>11 DEF Unread!NoteReachability, Unread!ApplyVerdict, Watches
  <2>2. pinned' \subseteq goneRows' /\ pinned' \subseteq pinned
    <3>1. ASSUME NEW s \in Senders, Unread!NoteReachability(s) PROVE Noted(send[s].room)
      BY <3>1 DEF Unread!NoteReachability, Noted
    <3>2. ASSUME Unread!ApplyVerdict PROVE Noted(Head(watch.list))
      <4>1. watch.verdict \in {"reachable", "absent", "inconclusive"}
        BY <1>1, <3>2 DEF UnreadInv, Answered, Unread!ApplyVerdict, Watches
      <4> QED
        BY <3>2, <4>1 DEF Unread!ApplyVerdict, Unread!Settle, Noted
    <3> QED
      BY <1>11, <3>1, <3>2, NotedPins
  <2> QED
    BY <2>1, <2>2 DEF PinInv
<1>12. ASSUME UNCHANGED <<counts, pinned, goneRows, gone, captures>>, watch'.pc = "seed" <=> watch.pc = "seed"
       PROVE  PinInv'
  BY <1>12 DEF PinInv
<1>13. \/ \E r \in Rooms : Unread!Purge(r) \/ Unread!Restore(r) \/ Unread!Hydrate(r)
       \/ \E s \in Senders, r \in Rooms : Unread!SendReadReceipt(s, r)
       \/ Unread!BeginStartup \/ Unread!Tick \/ Unread!Probe \/ Unread!Lagged
       \/ UNCHANGED Unread!vars
       => /\ UNCHANGED <<counts, pinned, goneRows, gone, captures>>
          /\ watch'.pc = "seed" <=> watch.pc = "seed"
  BY <1>1 DEF Unread!Purge, Unread!Restore, Unread!Happens, Unread!Hydrate,
     Unread!SendReadReceipt, Unread!BeginStartup, Unread!Tick, Unread!Probe, Unread!Lagged,
     Unread!vars, Watches
<1> QED
  BY <1>2, <1>3, <1>4, <1>5, <1>6, <1>7, <1>8, <1>9, <1>10, <1>11, <1>12, <1>13
     DEF Unread!Next, Unread!RoomSteps, Unread!WatchSteps, Changing

\* One receipt at a time, and none that fails in a room that is served.
OneReceipt == (\A s, t \in Senders : s = t) /\ Flaky = FALSE

LEMMA BackStarts == Unread!UnreadCountsAssumption /\ Unread!Init => BackInv
  BY DEF Unread!Init, BackInv, Unread!GoneIsBacked

LEMMA BackNext ==
  ASSUME Unread!UnreadCountsAssumption, OneReceipt, UnreadInv, BackInv,
         [Unread!Next]_Unread!vars
  PROVE  BackInv'
<1> USE DEF Unread!sdkVars, Unread!noteVars, Unread!watchVars
<1>1. /\ suspects \in Seq(Rooms) /\ send \in [Senders -> {Unread!NoSend} \cup Answers]
      /\ \A i, j \in 1..Len(suspects) : suspects[i] = suspects[j] => i = j
      /\ \A i \in 1..Len(suspects) : suspects[i] \notin goneRows
  BY DEF UnreadInv, UnreadTypes, OneRow
<1>2. ASSUME NEW r \in Rooms, Changing(r)
      PROVE  UNCHANGED <<ok, served, goneRows, suspects, send>>
  <2>1. PICK s : Changed(r, s)
    BY <1>2, ChangingChanges
  <2> QED
    BY <2>1 DEF Changed
<1>3. ASSUME NEW r \in Rooms, Unread!Purge(r) \/ Unread!Restore(r) PROVE BackInv'
  <2>1. /\ UNCHANGED <<goneRows, suspects, send>>
        /\ \/ ok' = ok \ {r} /\ served' = served \ {r}
           \/ ok' = ok /\ served' = served \cup {r}
    BY <1>3 DEF Unread!Purge, Unread!Restore, Unread!Happens
  <2> QED
    BY <2>1 DEF BackInv, Unread!GoneIsBacked
<1>4. ASSUME NEW s \in Senders, NEW r \in Rooms, Unread!SendReadReceipt(s, r) PROVE BackInv'
  <2>1. PICK fine \in BOOLEAN :
          /\ r \in served => fine
          /\ send' = [send EXCEPT ![s] = [pc |-> "answered", room |-> r, fine |-> fine]]
    BY <1>4 DEF Unread!SendReadReceipt, OneReceipt
  <2>2. UNCHANGED <<ok, served, goneRows, suspects>>
    BY <1>4 DEF Unread!SendReadReceipt
  <2> QED
    BY <1>1, <2>1, <2>2 DEF BackInv, Unread!GoneIsBacked
<1>5. ASSUME NEW s \in Senders, Unread!NoteReachability(s) PROVE BackInv'
  <2> DEFINE r == send[s].room
  <2>1. send[s] # Unread!NoSend
    BY <1>5 DEF Unread!NoteReachability, Unread!NoSend
  <2>2. send' = [x \in Senders |-> Unread!NoSend] /\ served' = served
    BY <1>1, <1>5 DEF Unread!NoteReachability, OneReceipt
  <2>3. CASE Unread!ClearReconcile(r) /\ ok' = IF r \in served THEN ok \cup {r} ELSE ok
    <3>1. \A i \in 1..Len(suspects') : suspects'[i] # r /\ \E j \in 1..Len(suspects) : suspects[j] = suspects'[i]
      BY <1>1, <2>3, DeleteIs DEF Unread!ClearReconcile
    <3>2. goneRows' = goneRows \ {r}
      BY <2>3 DEF Unread!ClearReconcile
    <3> QED
      BY <2>2, <2>3, <3>1, <3>2 DEF BackInv, Unread!GoneIsBacked
  <2>4. CASE ~send[s].fine /\ Unread!FlagSuspect(r) /\ UNCHANGED ok
    <3>1. r \notin ok
      BY <2>1, <2>4 DEF BackInv
    <3>2. \A i \in 1..Len(suspects') : suspects'[i] = r \/ \E j \in 1..Len(suspects) : suspects[j] = suspects'[i]
      BY <1>1, <2>4 DEF Unread!FlagSuspect
    <3>3. goneRows' = goneRows
      BY <2>4 DEF Unread!FlagSuspect
    <3> QED
      BY <2>2, <2>4, <3>1, <3>2, <3>3 DEF BackInv, Unread!GoneIsBacked
  <2>5. CASE UNCHANGED <<suspects, goneRows, ok>>
    BY <2>2, <2>5 DEF BackInv, Unread!GoneIsBacked
  <2> QED
    BY <1>5, <2>3, <2>4, <2>5 DEF Unread!NoteReachability
<1>6. CASE Unread!ApplyVerdict
  <2> DEFINE r == Head(watch.list)
  <2>1. watch.verdict \in {"reachable", "absent", "inconclusive"}
    BY <1>6 DEF UnreadInv, UnreadTypes, Answered, Unread!ApplyVerdict, Watches, Unread!At
  <2>2. UNCHANGED <<ok, served, send>>
    BY <1>6 DEF Unread!ApplyVerdict
  <2>3. \/ Unread!ClearReconcile(r) \/ Unread!MarkGone(r) \/ UNCHANGED <<suspects, goneRows>>
    BY <1>6, <2>1 DEF Unread!ApplyVerdict, Unread!Settle
  <2>4. CASE suspects' = Unread!Delete(suspects, r) /\ goneRows' \subseteq goneRows
    <3>1. \A i \in 1..Len(suspects') : \E j \in 1..Len(suspects) : suspects[j] = suspects'[i]
      BY <1>1, <2>4, DeleteIs
    <3> QED
      BY <2>2, <2>4, <3>1 DEF BackInv, Unread!GoneIsBacked
  <2>5. CASE Unread!Contains(suspects, r) /\ suspects' = Unread!Delete(suspects, r) /\ goneRows' = goneRows \cup {r}
    <3>1. \A i \in 1..Len(suspects') : \E j \in 1..Len(suspects) : suspects[j] = suspects'[i]
      BY <1>1, <2>5, DeleteIs
    <3>2. r \notin ok
      BY <2>5 DEF BackInv, Unread!Contains
    <3> QED
      BY <2>2, <2>5, <3>1, <3>2 DEF BackInv, Unread!GoneIsBacked
  <2>6. CASE UNCHANGED <<suspects, goneRows>>
    BY <2>2, <2>6 DEF BackInv, Unread!GoneIsBacked
  <2> QED
    BY <2>3, <2>4, <2>5, <2>6 DEF Unread!ClearReconcile, Unread!MarkGone
<1>7. CASE Unread!Restart
  <2>1. send' = [x \in Senders |-> Unread!NoSend] /\ UNCHANGED <<ok, served, goneRows, suspects>>
    BY <1>7 DEF Unread!Restart
  <2> QED
    BY <2>1 DEF BackInv, Unread!GoneIsBacked
<1>8. CASE UNCHANGED <<ok, served, goneRows, suspects, send>>
  BY <1>8 DEF BackInv, Unread!GoneIsBacked
<1>9. \/ \E r \in Rooms : Unread!Hydrate(r) \/ Unread!Sweep(r) \/ Unread!HeardUpdate(r) \/ Unread!Evidence(r) \/ Unread!Write(r)
      \/ Unread!Seed \/ Unread!BeginStartup \/ Unread!SweepDone \/ Unread!Tick \/ Unread!Probe \/ Unread!Refresh \/ Unread!Prune \/ Unread!Lagged
      \/ UNCHANGED Unread!vars
      => UNCHANGED <<ok, served, goneRows, suspects, send>>
  BY DEF Unread!Hydrate, Unread!Sweep, Unread!HeardUpdate, Unread!Capture, Unread!Evidence,
     Unread!Write, Unread!Seed, Unread!BeginStartup, Unread!SweepDone, Unread!Tick,
     Unread!Probe, Unread!Refresh, Unread!Prune, Unread!Lagged, Unread!vars
<1> QED
  BY <1>2, <1>3, <1>4, <1>5, <1>6, <1>7, <1>8, <1>9 DEF Unread!Next, Unread!RoomSteps,
     Unread!WatchSteps, Changing

LEMMA UnreadHolds == ASSUME Unread!UnreadCountsAssumption PROVE Unread!Spec => []UnreadInv
<1>1. UnreadInv /\ [Unread!Next]_Unread!vars => UnreadInv'
  BY UnreadNext
<1>2. Unread!Init => UnreadInv
  BY UnreadStarts
<1> QED
  BY <1>1, <1>2, PTL DEF Unread!Spec

\* The row of a room that was never left is not pruned: a sweep that prunes has a full list
\* of rooms, and a room that was never left is on it (sweep_unread_counts).
THEOREM RowsKeptCorrect == ASSUME Unread!UnreadCountsAssumption PROVE Unread!Spec => []Unread!JoinedRowsKept
<1>1. UnreadInv => Unread!JoinedRowsKept
  BY DEF UnreadInv, Kept
<1> QED
  BY <1>1, UnreadHolds, PTL

\* An increase is never written beside a receipt that is ahead of all the SDK holds, although
\* the room and its chunk change while the evidence on its receipts is gathered: a sweep
\* captures a room once, and until it ends nothing else writes the cache an increase is
\* measured against (unread_after, pending_receipts_stale, sweep_unread_counts).
THEOREM HeldCorrect ==
  ASSUME Unread!UnreadCountsAssumption
  PROVE  Unread!Spec => []Unread!HeldIsNotWritten
<1>1. UnreadInv /\ HeldInv /\ [Unread!Next]_Unread!vars => HeldInv'
  BY HeldNext
<1>2. Unread!Init => HeldInv
  BY HeldStarts
<1>3. HeldInv => Unread!HeldIsNotWritten
  BY DEF HeldInv
<1> QED
  BY <1>1, <1>2, <1>3, UnreadHolds, PTL DEF Unread!Spec

\* A badge that a sweep has cleared for a room that is gone stays cleared while the verdict
\* stands, where the first read of the verdicts after a start does not fail: the watcher's
\* set holds what is pinned, so that every capture of it is zero
\* (seed_unread_counts_cache, apply_gone_upstream_refresh).
THEOREM PinnedCorrect ==
  ASSUME Unread!UnreadCountsAssumption, SeedFails = FALSE
  PROVE  Unread!Spec => []Unread!PinnedStaysZero
<1>1. UnreadInv /\ PinInv /\ [Unread!Next]_Unread!vars => PinInv'
  BY PinNext
<1>2. Unread!Init => PinInv
  BY PinStarts
<1>3. UnreadInv /\ PinInv => Unread!PinnedStaysZero
  <2>1. UnreadInv /\ PinInv => pinned \subseteq Rooms
    BY DEF UnreadInv, PinInv, UnreadTypes
  <2> QED
    BY <2>1 DEF PinInv, Unread!PinnedStaysZero
<1> QED
  BY <1>1, <1>2, <1>3, UnreadHolds, PTL DEF Unread!Spec

\* A success beats a probe in flight: no verdict that a room is gone stands over a receipt
\* the homeserver has accepted since it last dropped the room. It needs that receipts do not
\* overlap and fail only in rooms that are not served: a failure noted after a later success
\* flags the room again, and lets an old verdict through (mark_room_upstream_gone,
\* note_room_reachability).
THEOREM BackedCorrect ==
  ASSUME Unread!UnreadCountsAssumption, OneReceipt
  PROVE  Unread!Spec => []Unread!GoneIsBacked
<1>1. UnreadInv /\ BackInv /\ [Unread!Next]_Unread!vars => BackInv'
  BY BackNext
<1>2. Unread!Init => BackInv
  BY BackStarts
<1>3. BackInv => Unread!GoneIsBacked
  BY DEF BackInv
<1> QED
  BY <1>1, <1>2, <1>3, UnreadHolds, PTL DEF Unread!Spec

\* A suspicion of a room the homeserver does not serve ends in the verdict that it is gone and
\* in nothing else, whatever probes, writes and restarts come between, unless the room comes
\* back or an answer from before the purge is applied after it (reconcile_upstream_rooms).
THEOREM FoundCorrect == ASSUME Unread!UnreadCountsAssumption PROVE Unread!Spec => Unread!PurgedIsFound
<1>1. UnreadInv /\ [Unread!Next]_Unread!vars => [Unread!PurgedIsFoundStep]_Unread!vars
  <2> SUFFICES ASSUME UnreadInv, [Unread!Next]_Unread!vars, NEW r \in Rooms,
                      Unread!Contains(suspects, r), ~Unread!Contains(suspects', r),
                      r \notin served \cup overtaken'
               PROVE  r \in goneRows'
    BY DEF Unread!PurgedIsFoundStep
  <2> USE DEF Unread!sdkVars, Unread!noteVars, Unread!watchVars
  <2>1. /\ suspects \in Seq(Rooms)
        /\ \A i, j \in 1..Len(suspects) : suspects[i] = suspects[j] => i = j
    BY DEF UnreadInv, UnreadTypes, OneRow
  <2>2. suspects' # suspects
    BY DEF Unread!Contains
  <2>3. \A x \in Rooms : ~Changing(x)
    <3> SUFFICES ASSUME NEW x \in Rooms, Changing(x) PROVE FALSE
      OBVIOUS
    <3>1. PICK s : Changed(x, s)
      BY ChangingChanges
    <3> QED
      BY <2>2, <3>1 DEF Changed
  <2>4. \/ \E s \in Senders : Unread!NoteReachability(s)
        \/ Unread!ApplyVerdict
    <3>1. \/ \E x \in Rooms : Unread!Purge(x) \/ Unread!Restore(x) \/ Unread!Hydrate(x) \/ Unread!Sweep(x)
                              \/ Unread!HeardUpdate(x) \/ Unread!Evidence(x) \/ Unread!Write(x)
          \/ \E s \in Senders, x \in Rooms : Unread!SendReadReceipt(s, x)
          \/ Unread!Seed \/ Unread!BeginStartup \/ Unread!SweepDone \/ Unread!Tick \/ Unread!Probe \/ Unread!Refresh \/ Unread!Prune \/ Unread!Lagged
          \/ Unread!Restart \/ UNCHANGED Unread!vars
          => suspects' = suspects
      BY DEF Unread!Purge, Unread!Restore, Unread!Happens, Unread!Hydrate, Unread!Sweep,
         Unread!HeardUpdate, Unread!Capture, Unread!Evidence, Unread!Write,
         Unread!SendReadReceipt, Unread!Seed, Unread!BeginStartup, Unread!SweepDone,
         Unread!Tick, Unread!Probe, Unread!Refresh, Unread!Prune, Unread!Lagged,
         Unread!Restart, Unread!vars
    <3> QED
      BY <2>2, <2>3, <3>1 DEF Unread!Next, Unread!RoomSteps, Unread!WatchSteps, Changing
  <2>5. ASSUME NEW x, suspects' = Unread!Delete(suspects, x) PROVE x = r
    BY <2>1, <2>5, DeleteIs DEF Unread!Contains
  <2>6. ASSUME NEW x, Unread!FlagSuspect(x) PROVE FALSE
    <3>1. suspects' = Append(suspects, x)
      BY <2>2, <2>6 DEF Unread!FlagSuspect
    <3> QED
      BY <2>1, <3>1 DEF Unread!Contains
  <2>7. ASSUME NEW s \in Senders, Unread!NoteReachability(s) PROVE FALSE
    <3>1. send[s].fine /\ Unread!ClearReconcile(send[s].room)
      BY <2>2, <2>6, <2>7 DEF Unread!NoteReachability
    <3>2. send[s].room = r
      BY <2>5, <3>1 DEF Unread!ClearReconcile
    <3>3. r \in served \cup overtaken
      BY <2>7, <3>1, <3>2 DEF UnreadInv, Answered, Unread!NoteReachability, Unread!NoSend
    <3> QED
      BY <2>7, <3>3 DEF Unread!NoteReachability
  <2>8. CASE Unread!ApplyVerdict
    <3>1. watch.verdict \in {"reachable", "absent", "inconclusive"} /\ Unread!At("verdict")
      BY <2>8 DEF UnreadInv, UnreadTypes, Answered, Unread!ApplyVerdict, Watches, Unread!At
    <3>2. \/ watch.verdict = "absent" /\ Unread!MarkGone(Head(watch.list))
          \/ watch.verdict = "reachable" /\ Unread!ClearReconcile(Head(watch.list))
      BY <2>2, <2>8, <3>1 DEF Unread!ApplyVerdict, Unread!Settle
    <3>3. suspects' = Unread!Delete(suspects, Head(watch.list))
      BY <2>2, <3>2 DEF Unread!MarkGone, Unread!ClearReconcile
    <3>4. Head(watch.list) = r
      BY <2>5, <3>3
    <3>5. watch.verdict # "reachable"
      BY <2>8, <3>1, <3>4 DEF UnreadInv, Answered, Unread!ApplyVerdict
    <3> QED
      BY <2>2, <3>2, <3>4, <3>5 DEF Unread!MarkGone
  <2> QED
    BY <2>4, <2>7, <2>8
<1> QED
  BY <1>1, UnreadHolds, PTL DEF Unread!Spec, Unread!PurgedIsFound

==============================================================================
