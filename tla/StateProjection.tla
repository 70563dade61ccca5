--------------------------- MODULE StateProjection ---------------------------
(***************************************************************************)
(* The room_state projection of one joined room (axon-store/src/state.rs)   *)
(* and its three writers: the handlers of the primary sync, the             *)
(* supplementary connection (axon-sync/src/supplementary_state.rs) and the  *)
(* redaction repair (axon-sync/src/state_redaction.rs), with the room's     *)
(* summary row, which copies the display state (ADR 0095).                  *)
(*                                                                          *)
(* The homeserver is external: it sends state events 1, 2, ... and          *)
(* redactions of them. So is the SDK, whose cache takes what the primary    *)
(* sync requires and prunes what a synced redaction names. A statement of   *)
(* Postgres under READ COMMITTED is two steps: its snapshot, and its write  *)
(* on the newest row.                                                       *)
(***************************************************************************)
EXTENDS Naturals, FiniteSets, FiniteSetsExt

CONSTANTS
  Types,          \* the singleton state types (STATE_TYPES)
  SdkTypes,       \* those the primary sync requires
  SuppTypes,      \* those the supplementary connection requires
  DisplayTypes,   \* those a summary shows
  NumEvents,      \* state events of the room
  TypeOf,         \* the type of an event
  Ts,             \* its origin_server_ts
  Forbidden,      \* events whose redaction the homeserver does not apply
  MaxRedactions,
  MaxResets,      \* positions the homeserver forgets
  Lossy,          \* whether a hint can be dropped and a repair time out
  Faults          \* whether a statement of a handler can fail

Events == 1..NumEvents

StateProjectionAssumption ==
  /\ SdkTypes \cup SuppTypes = Types
  /\ DisplayTypes \subseteq Types
  /\ NumEvents \in Nat
  /\ TypeOf \in [Events -> Types]
  /\ Ts \in [Events -> Nat]
  /\ Forbidden \subseteq {e \in Events : TypeOf[e] \notin SdkTypes}
  /\ {MaxRedactions, MaxResets} \subseteq Nat
  /\ {Lossy, Faults} \subseteq BOOLEAN

VARIABLES
  sent,      \* the homeserver has sent events 1..sent
  redacted,  \* events a redaction names
  sdk,       \* the SDK's cached state
  synced,    \* per type, the last event of the primary connection
  noted,     \* the redactions of the primary connection
  polled,    \* per type, the last event of the supplementary connection
  resets,
  inbox,     \* per connection, what its response still has to be handled
  job,       \* per connection, the handler at work
  row,       \* room_state
  log,       \* targets of the redactions in events
  summary,   \* the row of room_summaries
  ingest,    \* the transaction that inserts it
  hint,      \* a hint of this room is queued
  work,      \* the repair
  dirty      \* types changed and not announced since

vars == <<sent, redacted, sdk, synced, noted, polled, resets, inbox, job, row,
          log, summary, ingest, hint, work, dirty>>

server == <<sent, redacted>>

Writers == {"sync", "supp"}

NoRow == [ev |-> 0, pruned |-> FALSE, red |-> FALSE]
NoCache == [ev |-> 0, pruned |-> FALSE]
Blank == [t \in DisplayTypes |-> NoCache]

Idle ==
  [pc |-> "idle", ev |-> 0, pruned |-> FALSE,
   prior |-> NoRow, changed |-> FALSE,   \* the CTE prior, and what it says
   snap |-> Blank, hit |-> FALSE]        \* what the refresh has read

NoTx == [on |-> FALSE, t |-> CHOOSE t \in Types : TRUE, snap |-> Blank, hit |-> FALSE]
Rest == [on |-> FALSE, todo |-> {}, missing |-> {}, plan |-> {}, tx |-> NoTx]

Init ==
  /\ sent = 0 /\ redacted = {}
  /\ sdk = [t \in SdkTypes |-> NoCache]
  /\ synced = [t \in Types |-> 0]
  /\ noted = {}
  /\ polled = [t \in SuppTypes |-> 0]
  /\ resets = 0
  /\ inbox = [w \in Writers |-> {}]
  /\ job = [w \in Writers |-> Idle]
  /\ row = [t \in Types |-> NoRow]
  /\ log = {}
  /\ summary = [there |-> FALSE, shows |-> Blank]
  /\ ingest = [on |-> FALSE, snap |-> Blank]
  /\ hint = FALSE
  /\ work = Rest
  /\ dirty = {}

-----------------------------------------------------------------------------
(* The homeserver and the SDK. *)

Current(t) == Max({e \in 1..sent : TypeOf[e] = t} \cup {0})

Applied == redacted \ Forbidden

Emit ==
  /\ sent < NumEvents
  /\ sent' = sent + 1
  /\ UNCHANGED <<redacted, sdk, synced, noted, polled, resets, inbox, job, row,
                 log, summary, ingest, hint, work, dirty>>

Redact(e) ==
  /\ e <= sent /\ e \notin redacted
  /\ Cardinality(redacted) < MaxRedactions
  /\ redacted' = redacted \cup {e}
  /\ UNCHANGED <<sent, sdk, synced, noted, polled, resets, inbox, job, row,
                 log, summary, ingest, hint, work, dirty>>

StateItem(e, p) == [kind |-> "state", ev |-> e, pruned |-> p]
RedactionItem(e) == [kind |-> "redaction", ev |-> e, pruned |-> FALSE]

Free(w) == inbox[w] = {} /\ job[w] = Idle

\* A response of the primary sync. The timeline may leave out state events; an
\* event whose redaction comes with it may still be in its original form.
Sync ==
  /\ Free("sync")
  /\ LET required == {Current(t) : t \in {u \in SdkTypes : Current(u) > synced[u]}}
         new == {e \in 1..sent : e > synced[TypeOf[e]]}
         redactions == redacted \ noted
     IN
     \E timeline \in SUBSET new, late \in SUBSET (redactions \cap Applied) :
       LET form(e) == e \in Applied \ late IN
       /\ new \cup redactions /= {}
       /\ inbox' = [inbox EXCEPT !["sync"] =
            {StateItem(e, form(e)) : e \in required \cup timeline}
              \cup {RedactionItem(e) : e \in redactions}]
       /\ sdk' = [t \in SdkTypes |->
            LET cached == IF Current(t) > synced[t]
                          THEN [ev |-> Current(t), pruned |-> form(Current(t))]
                          ELSE sdk[t]
            IN [cached EXCEPT !.pruned = @ \/ cached.ev \in redactions]]
  /\ synced' = [t \in Types |-> Current(t)]
  /\ noted' = redacted
  /\ UNCHANGED <<server, polled, resets, job, row, log, summary, ingest, hint,
                 work, dirty>>

-----------------------------------------------------------------------------
(* The supplementary connection. *)

Poll ==
  /\ Free("supp")
  /\ LET changed == {t \in SuppTypes : Current(t) > polled[t]} IN
     /\ changed /= {}
     /\ inbox' = [inbox EXCEPT !["supp"] =
          {StateItem(Current(t), Current(t) \in Applied) : t \in changed}]
  /\ polled' = [t \in SuppTypes |-> Current(t)]
  /\ UNCHANGED <<server, sdk, synced, noted, resets, job, row, log, summary,
                 ingest, hint, work, dirty>>

\* M_UNKNOWN_POS: the position is dropped and every room comes again.
UnknownPos ==
  /\ Free("supp")
  /\ resets < MaxResets
  /\ resets' = resets + 1
  /\ polled' = [t \in SuppTypes |-> 0]
  /\ UNCHANGED <<server, sdk, synced, noted, inbox, job, row, log, summary,
                 ingest, hint, work, dirty>>

-----------------------------------------------------------------------------
(* persist_room_state_value, and persist_timeline_event for a redaction. *)

\* The next item; for a state event, the snapshot of its upsert.
Take(w) ==
  /\ job[w] = Idle
  /\ \E i \in inbox[w] :
       /\ i.kind = "redaction" => \A k \in inbox[w] : k.kind = "redaction"
       /\ inbox' = [inbox EXCEPT ![w] = @ \ {i}]
       /\ job' = [job EXCEPT ![w] =
            IF i.kind = "state"
            THEN [Idle EXCEPT !.pc = "upsert", !.ev = i.ev, !.pruned = i.pruned,
                              !.prior = row[TypeOf[i.ev]]]
            ELSE [Idle EXCEPT !.pc = "log", !.ev = i.ev]]
  /\ UNCHANGED <<server, sdk, synced, noted, polled, resets, row, log, summary,
                 ingest, hint, work, dirty>>

\* EXCLUDED.origin_ts >= room_state.origin_ts
Fresh(e, cur) == cur.ev = 0 \/ Ts[e] >= Ts[cur.ev]

\* Mutant: every write brings its own evidence.
MergedBlind(e, pruned, cur) == [ev |-> e, pruned |-> pruned, red |-> pruned]

\* The tuple after an upsert: evidence, and the content it pruned, stay with
\* their event.
Merged(e, pruned, cur) ==
  LET same == cur.ev = e IN
  [ev |-> e,
   pruned |-> IF same /\ cur.red /\ ~pruned THEN cur.pruned ELSE pruned,
   red |-> (same /\ cur.red) \/ pruned]

Changed(new, prior) == new /= prior

upsert_room_state(w) ==
  LET e == job[w].ev
      t == TypeOf[e]
      fresh == Fresh(e, row[t])
      new == IF fresh THEN Merged(e, job[w].pruned, row[t]) ELSE row[t]
  IN
  /\ job[w].pc = "upsert"
  /\ ~(work.tx.on /\ work.tx.t = t)
  /\ row' = [row EXCEPT ![t] = new]
  /\ dirty' = IF new /= row[t] THEN dirty \cup {t} ELSE dirty
  /\ job' = [job EXCEPT ![w].changed = fresh /\ Changed(new, job[w].prior),
                        ![w].prior = NoRow,
                        ![w].pc = IF t \in DisplayTypes THEN "view" ELSE "mark"]
  /\ UNCHANGED <<server, sdk, synced, noted, polled, resets, inbox, log, summary,
                 ingest, hint, work>>

Shown(r) == [t \in DisplayTypes |-> [ev |-> r[t].ev, pruned |-> r[t].pruned]]

\* refresh_room_summary_display: a statement of its own, after the commit.
View(w) ==
  /\ job[w].pc = "view"
  /\ job' = [job EXCEPT ![w].pc = "refresh", ![w].snap = Shown(row),
                        ![w].hit = summary.there]
  /\ UNCHANGED <<server, sdk, synced, noted, polled, resets, inbox, row, log,
                 summary, ingest, hint, work, dirty>>

Refresh(w) ==
  /\ job[w].pc = "refresh"
  /\ summary' = IF job[w].hit THEN [summary EXCEPT !.shows = job[w].snap] ELSE summary
  /\ job' = [job EXCEPT ![w].pc = "mark", ![w].snap = Blank, ![w].hit = FALSE]
  /\ UNCHANGED <<server, sdk, synced, noted, polled, resets, inbox, row, log,
                 ingest, hint, work, dirty>>

\* The store's call fails as a whole, also when only its refresh does.
Fail(w) ==
  /\ Faults
  /\ job[w].pc \in {"upsert", "refresh"}
  /\ job' = [job EXCEPT ![w] = [Idle EXCEPT !.pc = "hint", !.ev = job[w].ev,
                                             !.pruned = job[w].pruned]]
  /\ UNCHANGED <<server, sdk, synced, noted, polled, resets, inbox, row, log,
                 summary, ingest, hint, work, dirty>>

\* room_details.mark
Mark(w) ==
  /\ job[w].pc = "mark"
  /\ dirty' = IF job[w].changed THEN dirty \ {TypeOf[job[w].ev]} ELSE dirty
  /\ job' = [job EXCEPT ![w].pc = "hint", ![w].changed = FALSE]
  /\ UNCHANGED <<server, sdk, synced, noted, polled, resets, inbox, row, log,
                 summary, ingest, hint, work>>

TrySend == hint' \in IF Lossy THEN {TRUE, hint} ELSE {TRUE}

PrunedInCache(e) ==
  TypeOf[e] \in SdkTypes /\ sdk[TypeOf[e]] = [ev |-> e, pruned |-> TRUE]

\* The SDK pruned the event while its original form was being written.
Overtaken(j) == ~j.pruned /\ PrunedInCache(j.ev)

queue_state_hint(w) ==
  /\ job[w].pc = "hint"
  /\ IF Overtaken(job[w]) THEN TrySend ELSE UNCHANGED hint
  /\ job' = [job EXCEPT ![w] = Idle]
  /\ UNCHANGED <<server, sdk, synced, noted, polled, resets, inbox, row, log,
                 summary, ingest, work, dirty>>

\* persist_event_core; the hint comes after it, whether the event was stored or not.
StoreRedaction ==
  /\ job["sync"].pc = "log"
  /\ log' \in {log \cup {job["sync"].ev}} \cup (IF Faults THEN {log} ELSE {})
  /\ job' = [job EXCEPT !["sync"].pc = "filter"]
  /\ UNCHANGED <<server, sdk, synced, noted, polled, resets, inbox, row,
                 summary, ingest, hint, work, dirty>>

\* is_state_reconciliation_target; a filter that fails counts as a match.
IsTarget(e) == row[TypeOf[e]].ev = e

queue_redaction_hint ==
  /\ job["sync"].pc = "filter"
  /\ \/ (IsTarget(job["sync"].ev) \/ Faults) /\ TrySend
     \/ ~IsTarget(job["sync"].ev) /\ UNCHANGED hint
  /\ job' = [job EXCEPT !["sync"] = Idle]
  /\ UNCHANGED <<server, sdk, synced, noted, polled, resets, inbox, row, log,
                 summary, ingest, work, dirty>>

-----------------------------------------------------------------------------
(* upsert_event inserts the summary with a room's first event. *)

IngestSnapshot ==
  /\ ~summary.there /\ ~ingest.on /\ DisplayTypes /= {}
  /\ ingest' = [on |-> TRUE, snap |-> Shown(row)]
  /\ UNCHANGED <<server, sdk, synced, noted, polled, resets, inbox, job, row, log,
                 summary, hint, work, dirty>>

IngestCommit ==
  /\ ingest.on
  /\ summary' = [there |-> TRUE, shows |-> ingest.snap]
  /\ ingest' = [on |-> FALSE, snap |-> Blank]
  /\ UNCHANGED <<server, sdk, synced, noted, polled, resets, inbox, job, row, log,
                 hint, work, dirty>>

-----------------------------------------------------------------------------
(* state_redaction::watch: a hint, or the sweep, brings the room up. *)

Tick ==
  /\ ~work.on
  /\ work' = [Rest EXCEPT !.on = TRUE, !.todo = Types]
  /\ hint' = FALSE
  /\ UNCHANGED <<server, sdk, synced, noted, polled, resets, inbox, job, row, log,
                 summary, ingest, dirty>>

Scanning == work.on /\ work.plan = {} /\ ~work.tx.on

\* cached_state of the next type.
ReadCache ==
  /\ Scanning
  /\ \E t \in work.todo :
       work' = [work EXCEPT
         !.todo = @ \ {t},
         !.plan = IF t \in SdkTypes /\ sdk[t].ev /= 0 /\ sdk[t].pruned
                  THEN {sdk[t].ev} ELSE {},
         !.missing = IF t \in SdkTypes THEN @ ELSE @ \cup {t}]
  /\ UNCHANGED <<server, sdk, synced, noted, polled, resets, inbox, job, row, log,
                 summary, ingest, hint, dirty>>

redaction_authorized(e) == e \notin Forbidden

\* unapplied_room_state_redactions, then redact_stored.
locally_redacted_state ==
  /\ Scanning /\ work.todo = {} /\ work.missing /= {}
  /\ work' = [work EXCEPT
       !.missing = {},
       !.plan = {e \in log : /\ TypeOf[e] \in work.missing
                             /\ row[TypeOf[e]].ev = e /\ ~row[TypeOf[e]].red
                             /\ redaction_authorized(e)}]
  /\ UNCHANGED <<server, sdk, synced, noted, polled, resets, inbox, job, row, log,
                 summary, ingest, hint, dirty>>

RoomDone ==
  /\ Scanning /\ work.todo = {} /\ work.missing = {}
  /\ work' = Rest
  /\ UNCHANGED <<server, sdk, synced, noted, polled, resets, inbox, job, row, log,
                 summary, ingest, hint, dirty>>

\* Mutant: the update names the tuple, not the event.
RepairableAny(e) == LET r == row[TypeOf[e]] IN r.ev /= 0 /\ ~(r.red /\ r.pruned)

\* The predicate of the UPDATE: the tuple is still this event's.
Repairable(e) ==
  LET r == row[TypeOf[e]] IN r.ev = e /\ ~(r.red /\ r.pruned)

Repaired(r) == [r EXCEPT !.pruned = TRUE, !.red = TRUE]

\* reconcile_redacted_room_state: the update holds the tuple's lock while the
\* transaction refreshes the summary.
ApplyUpdate(e) ==
  LET t == TypeOf[e] IN
  /\ e \in work.plan /\ ~work.tx.on
  /\ work' = [work EXCEPT
       !.plan = @ \ {e},
       !.tx = IF Repairable(e)
              THEN [on |-> TRUE, t |-> t, hit |-> summary.there,
                    snap |-> Shown([row EXCEPT ![t] = Repaired(@)])]
              ELSE NoTx]
  /\ UNCHANGED <<server, sdk, synced, noted, polled, resets, inbox, job, row, log,
                 summary, ingest, hint, dirty>>

ApplyCommit ==
  LET t == work.tx.t IN
  /\ work.tx.on
  /\ row' = [row EXCEPT ![t] = Repaired(@)]
  /\ summary' = IF work.tx.hit /\ t \in DisplayTypes
                THEN [summary EXCEPT !.shows = work.tx.snap] ELSE summary
  /\ dirty' = dirty \ {t}
  /\ work' = [work EXCEPT !.tx = NoTx]
  /\ UNCHANGED <<server, sdk, synced, noted, polled, resets, inbox, job, log,
                 ingest, hint>>

RepairTimeout ==
  /\ Lossy /\ work.on
  /\ work' = Rest
  /\ UNCHANGED <<server, sdk, synced, noted, polled, resets, inbox, job, row, log,
                 summary, ingest, hint, dirty>>

-----------------------------------------------------------------------------

Handle(w) ==
  \/ Take(w) \/ upsert_room_state(w) \/ View(w) \/ Refresh(w)
  \/ Mark(w) \/ queue_state_hint(w)

HandleRedaction == StoreRedaction \/ queue_redaction_hint

Repair ==
  \/ Tick \/ ReadCache \/ locally_redacted_state \/ RoomDone
  \/ (\E e \in Events : ApplyUpdate(e)) \/ ApplyCommit

Next ==
  \/ Emit
  \/ \E e \in Events : Redact(e)
  \/ Sync \/ Poll \/ UnknownPos
  \/ \E w \in Writers : Handle(w) \/ Fail(w)
  \/ HandleRedaction
  \/ IngestSnapshot \/ IngestCommit
  \/ Repair \/ RepairTimeout

Spec == Init /\ [][Next]_vars

\* Both connections keep polling, handlers run on, and the repair ticks every
\* second.
Fairness ==
  /\ WF_vars(Sync) /\ WF_vars(Poll)
  /\ \A w \in Writers : WF_vars(Handle(w))
  /\ WF_vars(HandleRedaction)
  /\ WF_vars(Repair)

FairSpec == Spec /\ Fairness

-----------------------------------------------------------------------------

Pcs == {"idle", "upsert", "view", "refresh", "mark", "hint", "log", "filter"}
Views == [DisplayTypes -> [ev : Events \cup {0}, pruned : BOOLEAN]]
Rows == [ev : Events \cup {0}, pruned : BOOLEAN, red : BOOLEAN]

\* Shapes of the variables; a tuple holds an event of its own type, and
\* pruned content comes with its evidence (state_redaction_evidence).
TypeOK ==
  /\ sent \in 0..NumEvents
  /\ redacted \subseteq 1..sent
  /\ sdk \in [SdkTypes -> [ev : Events \cup {0}, pruned : BOOLEAN]]
  /\ synced \in [Types -> 0..sent]
  /\ noted \subseteq redacted /\ log \subseteq noted
  /\ polled \in [SuppTypes -> 0..sent]
  /\ resets \in 0..MaxResets
  /\ job \in [Writers -> [pc : Pcs, ev : Events \cup {0}, pruned : BOOLEAN,
                          prior : Rows, changed : BOOLEAN, snap : Views, hit : BOOLEAN]]
  /\ row \in [Types -> Rows]
  /\ \A t \in Types : row[t].ev /= 0 => TypeOf[row[t].ev] = t
  /\ \A t \in Types : row[t].pruned = row[t].red
  /\ summary \in [there : BOOLEAN, shows : Views]
  /\ {hint, work.on, work.tx.on} \subseteq BOOLEAN
  /\ work.plan \subseteq Events
  /\ dirty \subseteq Types

Quiet == (\A w \in Writers : Free(w)) /\ ~work.on

\* Content that was redacted does not come back: while a tuple holds the
\* event, no replay of its original form, from either connection, undoes
\* the redaction (the CASE expressions of the upsert).
RedactedStaysStep == \A t \in Types : row[t].red /\ row'[t].ev = row[t].ev => row'[t].red

\* RedactedStaysStep, of every step.
RedactedStays == [][RedactedStaysStep]_vars

\* A late response of either connection never takes a tuple back to an
\* older event of the room (the freshness guard).
RowMovesForwardStep == \A t \in Types : row'[t].ev >= row[t].ev

\* RowMovesForwardStep, of every step.
RowMovesForward == [][RowMovesForwardStep]_vars

\* Only what the homeserver redacted is pruned: not the event that replaced
\* the target while the repair was under way, and not the target of a
\* redaction its sender had no right to.
PrunedIsRedacted ==
  \A t \in Types : row[t].pruned => row[t].ev \in Applied

\* The repair would prune this tuple now.
Stale(t) ==
  /\ row[t].ev /= 0 /\ ~row[t].red
  /\ IF t \in SdkTypes THEN PrunedInCache(row[t].ev)
     ELSE row[t].ev \in log /\ redaction_authorized(row[t].ev)

\* Whatever the order of a state event, its redaction and the write of its
\* tuple, a tuple that shows redacted content has a hint queued, so that it
\* does not wait for the sweep (queue_redaction_hint, queue_state_hint).
RepairIsHinted == Quiet => \A t \in Types : Stale(t) => hint

\* Every change of a tuple is announced after it, whoever made it: once the
\* writers rest, no reader is left with what it read before (ADR 0126).
ChangeIsAnnounced == Quiet => dirty = {}

\* Once every writer rests, the summary shows the tuples (ADR 0095).
SummaryAgrees ==
  Quiet /\ ~ingest.on /\ summary.there => summary.shows = Shown(row)

\* The room list never keeps showing content of an event whose tuple is
\* redacted: the repair updates the summary with the tuple (ADR 0111).
SummaryIsRedacted ==
  Quiet /\ ~ingest.on /\ summary.there =>
    \A t \in DisplayTypes :
      row[t].red /\ summary.shows[t].ev = row[t].ev => summary.shows[t].pruned

Projected(t) == row[t].ev = Current(t) /\ (Current(t) \in Applied => row[t].red)

\* When the homeserver falls silent, every tuple comes to hold the room's current
\* event, redacted if it is.
Converges == \A t \in Types : <>[]Projected(t)

=============================================================================
