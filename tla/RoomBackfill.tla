----------------------------- MODULE RoomBackfill -----------------------------
(***************************************************************************)
(* The history of one account's rooms in Postgres: the backfill task         *)
(* (crates/axon-sync/src/backfill.rs), its per-room cursor and the room      *)
(* purge (crates/axon-store/src/backfill.rs, accounts.rs), and the live sync  *)
(* handlers they run beside (crates/axon-sync/src/engine.rs).  ADR 0043,      *)
(* 0044 and 0121.                                                            *)
(*                                                                         *)
(* A room's timeline is the positions 1..top[r], oldest first.  A resume      *)
(* token is the position down to which pages have been fetched.               *)
(*                                                                         *)
(* A cursor row that does not exist is Blank: every upsert treats a missing   *)
(* row as the column defaults.                                               *)
(***************************************************************************)
EXTENDS Integers, FiniteSets

CONSTANTS
  Rooms,
  Depth,         \* events in each room before the account joined it
  LiveMax,       \* bound: events that arrive while the account is in the room
  PageSize,      \* sync.backfill_page_size
  TargetDepths,  \* values sync.backfill_target_depth may be given; 0: no cap
  CountCap,      \* bound: `events_backfilled`, compared with a cap only, stops here
  ParkAfter,     \* PARK_AFTER
  RetryBase,     \* RETRY_BASE, in ticks
  RetryMax,      \* RETRY_MAX, in ticks
  ParkFor,       \* PARK_FOR, in ticks
  PurgeOnLeave,  \* sync.purge_on_leave
  PurgeBatch,    \* rows deleted by one statement of the purge
  StoreErrors    \* the store operations that may fail ("member": or be lost in a crash)

Positions == 1..(Depth + LiveMax)

ASSUME BackfillAssumption ==
  /\ Depth \in Nat /\ LiveMax \in Nat
  /\ PageSize \in Nat \ {0} /\ PurgeBatch \in Nat \ {0}
  /\ CountCap \in Nat /\ TargetDepths \subseteq 0..CountCap
  /\ ParkAfter \in Nat \ {0}
  /\ RetryBase \in Nat \ {0} /\ RetryMax \in Nat \ {0} /\ ParkFor \in Nat \ {0}
  /\ PurgeOnLeave \in BOOLEAN
  /\ StoreErrors \subseteq {"list", "persist", "save", "record", "clear", "member", "purge"}

\* A fact of arithmetic, stated because the prover does not know exponents.
ASSUME DoublingAssumption == \A n \in 0..ParkAfter : 2^n \in Nat

VARIABLES
  sdk,     \* "joined" or "left": Room::state, the SDK's own membership
  top,     \* length of the room's timeline at the homeserver
  row,     \* events rows: "absent", or their age against the purge watermarks
  since,   \* live events received since the account last joined
  handler, \* own membership changes the state handler has still to store
  member,  \* the account's own m.room.member row: "join", "leave" or "none"
  cursor,  \* room_backfill rows
  intent,  \* room_purge_intents: "none", "same" as the worker's, or "advanced"
  target,  \* backfill_target_depth of the running process
  todo,    \* the rooms this sweep has still to visit
  snap,    \* the cursors as loaded when this sweep began
  page,    \* the page being fetched or persisted, of one room at a time
  worker   \* the step of purge_room the purge worker is at, in one room at a time

live == <<sdk, top, since, handler, member>>
sweep == <<target, todo, snap>>
vars == <<sdk, top, row, since, handler, member, cursor, intent, target, todo, snap, page, worker>>

NoToken == 0

Blank == [token |-> NoToken, complete |-> FALSE, count |-> 0, failures |-> 0,
          wait |-> 0, parked |-> FALSE, rejected |-> FALSE]

Cursors ==
  [token : 0..(Depth + LiveMax + 1), complete : BOOLEAN, count : 0..CountCap,
   failures : 0..ParkAfter, wait : 0..RetryMax \cup 0..ParkFor,
   parked : BOOLEAN, rejected : BOOLEAN]

\* What the task is doing with a room: `from` is the position the request pages
\* below, `left` the fetched events still to persist, `end` the response's token
\* (NoToken: none, the history is exhausted), `checked` whether the event being
\* persisted has passed its membership check.
NoPage == [phase |-> "none", token |-> NoToken, left |-> {}, fetched |-> 0,
           end |-> NoToken, checked |-> FALSE]

Pages ==
  [phase : {"none", "fetch", "persist"}, token : 0..(Depth + LiveMax + 1),
   left : SUBSET Positions, fetched : 0..PageSize,
   end : 0..(Depth + LiveMax + 1), checked : BOOLEAN]

\* A row's age: inserted after every purge watermark, covered by the stored
\* intent's, or covered also by the one the worker is purging through.
Ages == {"absent", "new", "intent", "worker"}

TypeOK ==
  /\ sdk \in [Rooms -> {"joined", "left"}]
  /\ top \in [Rooms -> Depth..(Depth + LiveMax)]
  /\ row \in [Rooms -> [Positions -> Ages]]
  /\ since \in [Rooms -> SUBSET Positions]
  /\ handler \in [Rooms -> {"join", "leave", "none"}]
  /\ member \in [Rooms -> {"join", "leave", "none"}]
  /\ cursor \in [Rooms -> Cursors]
  /\ intent \in [Rooms -> {"none", "same", "advanced"}]
  /\ target \in TargetDepths
  /\ todo \subseteq Rooms
  /\ snap \in [Rooms -> Cursors]
  /\ page \in [Rooms -> Pages]
  /\ worker \in [Rooms -> {"none", "events", "state", "final"}]

Init ==
  /\ sdk = [r \in Rooms |-> "joined"]
  /\ top = [r \in Rooms |-> Depth]
  /\ row = [r \in Rooms |-> [e \in Positions |-> "absent"]]
  /\ since = [r \in Rooms |-> {}]
  /\ handler = [r \in Rooms |-> "none"]
  /\ member = [r \in Rooms |-> "join"]
  /\ cursor = [r \in Rooms |-> Blank]
  /\ intent = [r \in Rooms |-> "none"]
  /\ target \in TargetDepths
  /\ todo = {}
  /\ snap = [r \in Rooms |-> Blank]
  /\ page = [r \in Rooms |-> NoPage]
  /\ worker = [r \in Rooms |-> "none"]

Stored(r) == {e \in Positions : row[r][e] # "absent"}

-----------------------------------------------------------------------------
(* Live sync *)

\* upsert_event: the first delivery inserts, a duplicate leaves the row alone.
upsert_event(r, e) ==
  row' = [row EXCEPT ![r][e] = IF @ = "absent" THEN "new" ELSE @]

\* A new event in a joined room, persisted by the sync handler.
LiveEvent(r) ==
  /\ sdk[r] = "joined"
  /\ top[r] < Depth + LiveMax
  /\ top' = [top EXCEPT ![r] = @ + 1]
  /\ \/ upsert_event(r, top[r] + 1) /\ since' = [since EXCEPT ![r] = @ \cup {top[r] + 1}]
     \/ "persist" \in StoreErrors /\ UNCHANGED <<row, since>>
  /\ UNCHANGED <<sdk, handler, member, cursor, intent, sweep, page, worker>>

\* room_purge_watermark with advance: every row stored so far is covered.  The
\* sequence is shared with other rooms, so it may have moved without new rows here.
Advance(r) ==
  /\ row' = [row EXCEPT ![r] =
               [e \in Positions |-> IF @[e] = "new" THEN "intent" ELSE @[e]]]
  /\ \E moved \in BOOLEAN :
       /\ (\E e \in Positions : row[r][e] = "new") => moved
       /\ intent' = [intent EXCEPT ![r] =
                       IF worker[r] = "none" THEN "same"
                       ELSE IF moved THEN "advanced" ELSE @]

\* The SDK learns that the account left or was banned, or joined again: it updates
\* its own membership, then dispatches the event to the handlers.  They finish
\* before the next sync response is applied.
Leave(r) ==
  /\ sdk[r] = "joined" /\ handler[r] = "none"
  /\ sdk' = [sdk EXCEPT ![r] = "left"]
  /\ handler' = [handler EXCEPT ![r] = "leave"]
  /\ since' = [since EXCEPT ![r] = {}]
  /\ UNCHANGED <<top, row, member, cursor, intent, sweep, page, worker>>

Rejoin(r) ==
  /\ sdk[r] = "left" /\ handler[r] = "none"
  /\ sdk' = [sdk EXCEPT ![r] = "joined"]
  /\ handler' = [handler EXCEPT ![r] = "join"]
  /\ UNCHANGED <<top, row, since, member, cursor, intent, sweep, page, worker>>

\* persist_room_state_value: the membership row and, for a leave, the purge intent
\* commit together.  A store error is logged and the change is dropped.
PersistMember(r) ==
  /\ handler[r] # "none"
  /\ \/ /\ member' = [member EXCEPT ![r] = handler[r]]
        /\ IF handler[r] = "leave" /\ PurgeOnLeave THEN Advance(r) ELSE UNCHANGED <<row, intent>>
     \/ "member" \in StoreErrors /\ UNCHANGED <<member, row, intent>>
  /\ handler' = [handler EXCEPT ![r] = "none"]
  /\ UNCHANGED <<sdk, top, since, cursor, sweep, page, worker>>

-----------------------------------------------------------------------------
(* The backfill task *)

Idle == todo = {} /\ \A r \in Rooms : page[r].phase = "none"
Between == \A r \in Rooms : page[r].phase = "none"

\* Mutant: a failed listing runs the sweep with no cursors.
ListCursors_NoSkip ==
  /\ Idle
  /\ todo' = {r \in Rooms : sdk[r] = "joined"}
  /\ \/ snap' = [r \in Rooms |-> IF r \in todo' THEN cursor[r] ELSE Blank]
     \/ "list" \in StoreErrors /\ snap' = [r \in Rooms |-> Blank]
  /\ UNCHANGED <<live, row, cursor, intent, target, page, worker>>

\* The start of a sweep loads every cursor; if that fails the sweep is skipped.
ListCursors ==
  /\ Idle
  /\ \/ /\ todo' = {r \in Rooms : sdk[r] = "joined"}
        /\ snap' = [r \in Rooms |-> IF r \in todo' THEN cursor[r] ELSE Blank]
     \/ "list" \in StoreErrors /\ UNCHANGED <<snap, todo>>
  /\ UNCHANGED <<live, row, cursor, intent, target, page, worker>>

\* A sweep visits each room once, and forgets the cursor it loaded for it.
Visited(r) ==
  /\ todo' = todo \ {r}
  /\ snap' = [snap EXCEPT ![r] = Blank]
Abandon ==
  /\ todo' = {}
  /\ snap' = [r \in Rooms |-> Blank]

\* The rooms a sweep leaves alone: complete, or waiting out a backoff.
Due(r) == ~snap[r].complete /\ snap[r].wait = 0
Capped(r) == target # 0 /\ snap[r].count >= target

Skip(r) ==
  /\ r \in todo /\ Between
  /\ ~Due(r)
  /\ Visited(r)
  /\ UNCHANGED <<live, row, cursor, intent, target, page, worker>>

\* The disk-space valve ends the sweep before a room would be paged.
DiskLow ==
  /\ Between
  /\ \E r \in todo : Due(r)
  /\ Abandon
  /\ UNCHANGED <<live, row, cursor, intent, target, page, worker>>

\* Mutant: only the count is reset.
Cleared_CountOnly(c) == [c EXCEPT !.failures = 0]

\* clear_room_backfill_failures
Cleared(c) == [c EXCEPT !.failures = 0, !.wait = 0, !.parked = FALSE]

\* A room at its depth cap is not paged; failures it still carries are cleared.
VisitCapped(r) ==
  /\ r \in todo /\ Between
  /\ Due(r) /\ Capped(r)
  /\ \/ /\ snap[r].parked \/ snap[r].failures > 0
        /\ cursor' = [cursor EXCEPT ![r] = Cleared(@)]
     \/ /\ ~(snap[r].parked \/ snap[r].failures > 0) \/ "clear" \in StoreErrors
        /\ UNCHANGED cursor
  /\ Visited(r)
  /\ UNCHANGED <<live, row, intent, target, page, worker>>

\* Send a /messages request from the token this sweep loaded.
SendPage(r) ==
  /\ r \in todo /\ Between
  /\ Due(r) /\ ~Capped(r)
  /\ page' = [page EXCEPT ![r].phase = "fetch", ![r].token = snap[r].token]
  /\ UNCHANGED <<live, row, cursor, intent, sweep, worker>>

\* The homeserver serves n events below the token, or below the live end.
PageServed(r, n) ==
  LET from == IF page[r].token = NoToken THEN top[r] + 1 ELSE page[r].token
  IN /\ page[r].phase = "fetch"
     /\ n < from
     /\ \E end \in {from - n} \cup (IF from - n = 1 THEN {NoToken} ELSE {}) :
          page' = [page EXCEPT ![r] =
                     [phase |-> "persist", token |-> NoToken,
                      left |-> (from - n)..(from - 1), fetched |-> n,
                      end |-> end, checked |-> FALSE]]
     /\ UNCHANGED <<live, row, cursor, intent, sweep, worker>>

\* retry_delay
retry_delay(failures) ==
  LET d == RetryBase * 2^(failures - 1) IN IF d < RetryMax THEN d ELSE RetryMax

\* record_room_backfill_failure applied to the row c.  The failure count, read
\* only against PARK_AFTER, stops there.
RecordFailure(c, wait, parked, clear_token) ==
  [c EXCEPT !.failures = IF @ < ParkAfter THEN @ + 1 ELSE @,
            !.wait = wait,
            !.parked = parked,
            !.rejected = @ \/ clear_token,
            !.token = IF clear_token THEN NoToken ELSE @]

\* failure_record: what a failure does, from the state this sweep loaded.
failure_record(c, was, failure) ==
  LET failures == was.failures + 1
  IN CASE failure = "Rejected" /\ was.rejected -> RecordFailure(c, ParkFor, TRUE, TRUE)
       [] failure = "Rejected" /\ ~was.rejected -> RecordFailure(c, 0, FALSE, TRUE)
       [] failure = "Inaccessible" -> RecordFailure(c, ParkFor, TRUE, FALSE)
       [] failure = "Retryable" /\ failures >= ParkAfter -> RecordFailure(c, ParkFor, TRUE, FALSE)
       [] OTHER -> RecordFailure(c, retry_delay(failures), FALSE, FALSE)

\* PageFailure::of: a 400 is a rejection only if the request carried a token.
PageFailed(r, failure) ==
  /\ page[r].phase = "fetch"
  /\ failure = "Rejected" => page[r].token # NoToken
  /\ \/ cursor' = [cursor EXCEPT ![r] = failure_record(@, snap[r], failure)]
     \/ "record" \in StoreErrors /\ UNCHANGED cursor
  /\ page' = [page EXCEPT ![r] = NoPage]
  /\ Visited(r)
  /\ UNCHANGED <<live, row, intent, target, worker>>

\* A page is persisted newest event first.
Newest(r, e) == e \in page[r].left /\ \A x \in page[r].left : x <= e

\* Mutant: backfill does not look at the membership.
PersistCheck_NoSkip(r) ==
  /\ page[r].phase = "persist" /\ page[r].left # {} /\ ~page[r].checked
  /\ page' = [page EXCEPT ![r].checked = TRUE]
  /\ UNCHANGED <<live, row, cursor, intent, sweep, worker>>

\* persist_backfilled_event, newest first: the departed-room check ...
PersistCheck(r) ==
  /\ page[r].phase = "persist" /\ ~page[r].checked
  /\ \E e \in page[r].left :
       /\ Newest(r, e)
       /\ page' = IF PurgeOnLeave /\ sdk[r] = "left"
                  THEN [page EXCEPT ![r].left = @ \ {e}]
                  ELSE [page EXCEPT ![r].checked = TRUE]
  /\ UNCHANGED <<live, row, cursor, intent, sweep, worker>>

\* ... then the write.  A store error is logged and the page goes on.
PersistWrite(r) ==
  /\ page[r].checked
  /\ \E e \in page[r].left :
       /\ Newest(r, e)
       /\ upsert_event(r, e) \/ ("persist" \in StoreErrors /\ UNCHANGED row)
       /\ page' = [page EXCEPT ![r].left = @ \ {e}, ![r].checked = FALSE]
  /\ UNCHANGED <<live, cursor, intent, sweep, worker>>

\* save_room_backfill applied to the row c.
Saved(c, end, added) ==
  [Cleared(c) EXCEPT !.token = end,
                     !.complete = (end = NoToken),
                     !.count = IF @ + added < CountCap THEN @ + added ELSE CountCap]

\* Mutant: the cursor is saved before the page is persisted.
SaveCursor_Early(r) ==
  /\ page[r].phase = "persist"
  /\ \/ cursor' = [cursor EXCEPT ![r] = Saved(@, page[r].end, page[r].fetched)]
     \/ "save" \in StoreErrors /\ UNCHANGED cursor
  /\ page' = [page EXCEPT ![r] = NoPage]
  /\ Visited(r)
  /\ UNCHANGED <<live, row, intent, target, worker>>

\* After the last event, the cursor is saved; if that fails the page is fetched again.
SaveCursor(r) ==
  /\ page[r].phase = "persist" /\ page[r].left = {}
  /\ \/ cursor' = [cursor EXCEPT ![r] = Saved(@, page[r].end, page[r].fetched)]
     \/ "save" \in StoreErrors /\ UNCHANGED cursor
  /\ page' = [page EXCEPT ![r] = NoPage]
  /\ Visited(r)
  /\ UNCHANGED <<live, row, intent, target, worker>>

-----------------------------------------------------------------------------
(* The purge worker *)

\* Mutant: a retry of the purge moves the watermark to the newest row.
Expire_Advances(r) ==
  [row EXCEPT ![r] = [e \in Positions |-> IF @[e] # "absent" THEN "worker" ELSE @[e]]]

\* The rows a purge of the stored intent deletes, and the state without a worker.
Expire(r) == [row EXCEPT ![r] = [e \in Positions |-> IF @[e] = "intent" THEN "worker" ELSE @[e]]]
Restore(rw) == [r \in Rooms |-> [e \in Positions |-> IF rw[r][e] = "worker" THEN "intent" ELSE rw[r][e]]]
Pending == [r \in Rooms |-> IF intent[r] = "advanced" THEN "same" ELSE intent[r]]

\* purge_room reads the watermark it will delete through, without advancing it.
PurgeStart(r) ==
  /\ intent[r] # "none"
  /\ \A s \in Rooms : worker[s] = "none"
  /\ row' = Expire(r)
  /\ worker' = [worker EXCEPT ![r] = "events"]
  /\ UNCHANGED <<live, cursor, intent, sweep, page>>

\* delete_event_batches: one committed statement per batch, which also resets the
\* cursor if it deleted anything; a short batch is the last.
PurgeEvents(r) ==
  /\ worker[r] = "events"
  /\ LET old == {e \in Positions : row[r][e] = "worker"}
     IN \E batch \in SUBSET old :
          /\ Cardinality(batch) = IF Cardinality(old) < PurgeBatch THEN Cardinality(old) ELSE PurgeBatch
          /\ row' = [row EXCEPT ![r] = [e \in Positions |-> IF e \in batch THEN "absent" ELSE @[e]]]
          /\ cursor' = IF batch = {} THEN cursor ELSE [cursor EXCEPT ![r] = Blank]
          /\ worker' = IF Cardinality(batch) < PurgeBatch
                       THEN [worker EXCEPT ![r] = "state"] ELSE worker
  /\ UNCHANGED <<live, intent, sweep, page>>

\* preserve_room_after_purge: later events, or a membership that is join again.
Preserve(r) ==
  \/ \E e \in Positions : row[r][e] \in {"new", "intent"}
  \/ member[r] = "join"

\* delete_state_batches
PurgeState(r) ==
  /\ worker[r] = "state"
  /\ member' = IF Preserve(r) THEN member ELSE [member EXCEPT ![r] = "none"]
  /\ worker' = [worker EXCEPT ![r] = "final"]
  /\ UNCHANGED <<sdk, top, since, handler, row, cursor, intent, sweep, page>>

\* Mutant: the intent of a preserved room is kept, like its cursor.
PurgeFinal_KeepsIntent(r) ==
  /\ worker[r] = "final"
  /\ cursor' = IF Preserve(r) THEN cursor ELSE [cursor EXCEPT ![r] = Blank]
  /\ intent' = IF intent[r] = "same" /\ ~Preserve(r)
               THEN [intent EXCEPT ![r] = "none"] ELSE Pending
  /\ row' = Restore(row)
  /\ worker' = [worker EXCEPT ![r] = "none"]
  /\ UNCHANGED <<live, sweep, page>>

\* The last statement drops the cursor, and the intent unless a leave advanced it.
PurgeFinal(r) ==
  /\ worker[r] = "final"
  /\ cursor' = IF Preserve(r) THEN cursor ELSE [cursor EXCEPT ![r] = Blank]
  /\ intent' = IF intent[r] = "same" THEN [intent EXCEPT ![r] = "none"] ELSE Pending
  /\ row' = Restore(row)
  /\ worker' = [worker EXCEPT ![r] = "none"]
  /\ UNCHANGED <<live, sweep, page>>

\* A statement fails: the intent stays, and the worker goes on to the next room.
PurgeFails(r) ==
  /\ "purge" \in StoreErrors
  /\ worker[r] # "none"
  /\ intent' = Pending
  /\ row' = Restore(row)
  /\ worker' = [worker EXCEPT ![r] = "none"]
  /\ UNCHANGED <<live, cursor, sweep, page>>

-----------------------------------------------------------------------------
(* Restart and time *)

\* A crash at any point; the process comes back with the configured cap d.  A
\* membership change whose handler had not run is delivered again, or lost.
Restart(d) ==
  /\ target' = d
  /\ Abandon
  /\ page' = [r \in Rooms |-> NoPage]
  /\ worker' = [r \in Rooms |-> "none"]
  /\ row' = Restore(row)
  /\ intent' = Pending
  /\ \/ UNCHANGED handler
     \/ "member" \in StoreErrors /\ handler' = [r \in Rooms |-> "none"]
  /\ UNCHANGED <<sdk, top, since, member, cursor>>

Tick ==
  /\ cursor' = [r \in Rooms |-> [cursor[r] EXCEPT !.wait = IF @ > 0 THEN @ - 1 ELSE 0]]
  /\ UNCHANGED <<live, row, intent, sweep, page, worker>>

Next ==
  \/ ListCursors \/ DiskLow \/ Tick
  \/ \E r \in Rooms :
       \/ LiveEvent(r) \/ Leave(r) \/ Rejoin(r) \/ PersistMember(r)
       \/ Skip(r) \/ VisitCapped(r) \/ SendPage(r)
       \/ \E n \in 0..PageSize : PageServed(r, n)
       \/ \E failure \in {"Rejected", "Inaccessible", "Retryable"} : PageFailed(r, failure)
       \/ PersistCheck(r) \/ PersistWrite(r) \/ SaveCursor(r)
       \/ PurgeStart(r) \/ PurgeEvents(r) \/ PurgeState(r) \/ PurgeFinal(r) \/ PurgeFails(r)
  \/ \E d \in TargetDepths : Restart(d)

Spec == Init /\ [][Next]_vars

\* The task keeps sweeping, requests are bounded by a timeout, statements end, the
\* worker's ticker fires, and time passes.
Fairness ==
  /\ WF_vars(ListCursors)
  /\ WF_vars(Tick)
  /\ \A r \in Rooms :
       /\ WF_vars(Skip(r) \/ VisitCapped(r) \/ SendPage(r) \/ DiskLow)
       /\ WF_vars(\/ \E n \in 0..PageSize : PageServed(r, n)
                  \/ \E f \in {"Rejected", "Inaccessible", "Retryable"} : PageFailed(r, f))
       /\ WF_vars(PersistCheck(r) \/ PersistWrite(r) \/ SaveCursor(r))
       /\ WF_vars(PurgeStart(r))
       /\ WF_vars(PurgeEvents(r) \/ PurgeState(r) \/ PurgeFinal(r))

FairSpec == Spec /\ Fairness

-----------------------------------------------------------------------------
(* Properties *)

\* The positions a cursor says have been backfilled start here.
Reach(r) ==
  IF cursor[r].complete THEN 1
  ELSE IF cursor[r].token # NoToken THEN cursor[r].token ELSE top[r] + 1

\* A cursor never claims history the store does not have: everything from its token
\* up to the live end is stored.  A position that is skipped once is never fetched
\* again, so a claim that runs ahead of the rows is a permanent hole.
NoGap == \A r \in Rooms : Reach(r)..top[r] \subseteq Stored(r)

\* A room joined again after its history was purged is backfilled afresh: once the
\* purge is over, the cursor claims nothing that is not stored.
RejoinRefills ==
  \A r \in Rooms :
    sdk[r] = "joined" /\ member[r] = "join" /\ intent[r] = "none"
      => Reach(r)..top[r] \subseteq Stored(r)

\* The purge deletes only what was stored before the leave it is for: an event
\* received live since the account joined again survives every retry.
RejoinKept == \A r \in Rooms : sdk[r] = "joined" => since[r] \subseteq Stored(r)

\* A backoff or a park never outlives the failures that caused it.
NoStaleBackoff ==
  \A r \in Rooms : cursor[r].parked \/ cursor[r].wait > 0 => cursor[r].failures > 0

\* Once a leave is recorded and its purge is over, at most one event of the room is
\* stored: a write that passed its membership check just before the leave.
PurgeComplete ==
  PurgeOnLeave =>
    \A r \in Rooms :
      sdk[r] = "left" /\ handler[r] = "none" /\ intent[r] = "none" => Cardinality(Stored(r)) <= 1

\* No step moves a cursor back up: only a rejected token, or a purge, makes a room
\* page its history again.
NeverShallower ==
  [][\A r \in Rooms :
       cursor[r].token # NoToken /\ cursor'[r].token # NoToken
         => cursor'[r].token <= cursor[r].token /\ ~cursor[r].complete]_vars

\* A room that failed is not asked for again before its backoff is over.
BackoffKept ==
  [][\A r \in Rooms : SendPage(r) => cursor[r].wait = 0]_vars

\* A room is sent back to its live end without a delay once only: a homeserver that
\* rejects the token at some depth every time is not walked back to it again and
\* again.
WalkBackDelayed ==
  [][\A r \in Rooms :
       cursor[r].token # NoToken /\ cursor[r].rejected /\ cursor'[r].rejected
         => \/ cursor'[r].token # NoToken
            \/ cursor'[r].complete
            \/ cursor'[r].parked /\ cursor'[r].wait > 0]_vars

\* What a room has reached and what it has to wait for survive stale sweeps, failures
\* and rejected tokens.
ProgressKept == NeverShallower /\ BackoffKept /\ WalkBackDelayed

\* A step of the task, of the purge worker or of the account with no failure in it:
\* every request is served, and brings its room forward.
Calm ==
  \/ ListCursors \/ Tick
  \/ \E r \in Rooms :
       \/ LiveEvent(r) \/ Rejoin(r) \/ PersistMember(r)
       \/ Skip(r) \/ VisitCapped(r) \/ SendPage(r)
       \/ \E n \in 1..PageSize : PageServed(r, n)
       \/ (PageServed(r, 0) /\ page'[r].end = NoToken)
       \/ PersistCheck(r) \/ PersistWrite(r) \/ SaveCursor(r)
       \/ PurgeStart(r) \/ PurgeEvents(r) \/ PurgeState(r) \/ PurgeFinal(r)

\* Once the homeserver serves pages again, every joined room is backfilled to its
\* start, or to the cap, however it was backed off, parked or rejected before; and
\* a capped room does not stay parked.
Backfilled ==
  <>[][Calm]_vars =>
    \A r \in Rooms :
      <>[](\/ sdk[r] = "left"
           \/ cursor[r].complete
           \/ target # 0 /\ cursor[r].count >= target /\ ~cursor[r].parked)

\* Every leave is eventually purged.
Purged ==
  <>[][Calm]_vars => \A r \in Rooms : <>[](intent[r] = "none")

\* Once failures stop, the history of a joined room is complete and of a left one gone.
HistorySettles == Backfilled /\ Purged

=============================================================================
