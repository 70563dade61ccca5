------------------------------ MODULE SearchIndex ------------------------------
(***************************************************************************)
(* The full-text index and the outbox it is kept up to date from: the        *)
(* indexing actor (crates/axon-search/src/writer.rs), the outbox and its      *)
(* cursor (crates/axon-store/src/search.rs), the writes that append to it      *)
(* (crates/axon-store/src/events.rs, accounts.rs) and the flush at the end of  *)
(* an account's deletion (crates/axon-sync/src/lifecycle.rs).  ADR 0039.       *)
(*                                                                         *)
(* A document stands for one event; `stored` is what its resolved text is in  *)
(* the event store, 0 when it has none (absent, redacted, not text).  The      *)
(* number of a document is also the `id` the corpus scan is ordered by.        *)
(***************************************************************************)
EXTENDS Integers, FiniteSets

CONSTANTS
  Docs,       \* events, by store id
  Accounts,
  Owner,      \* the account of each event
  Texts,      \* bound: distinct resolved texts of an event
  MaxSeq,     \* bound: values taken from the outbox sequence
  BatchSize,  \* search batch_size
  Faults      \* operations that may fail: "read", "commit", "cursor", "prune", "marker"

\* No account.
NoOne == "no one"

ASSUME SearchAssumption ==
  /\ Docs \subseteq Nat \ {0} /\ IsFiniteSet(Docs)
  /\ Owner \in [Docs -> Accounts]
  /\ Accounts \cap Docs = {} /\ NoOne \notin Accounts
  /\ Texts \in Nat /\ MaxSeq \in Nat /\ BatchSize \in Nat \ {0}
  /\ Faults \subseteq {"read", "commit", "cursor", "prune", "marker"}

VARIABLES
  stored,   \* the resolved text of each event, 0: none
  account,  \* "active", "deleting" or "deleted"
  tx,       \* transactions that have taken a sequence number and not committed
  seq,      \* the last value of search_outbox's sequence
  outbox,   \* search_outbox: the committed rows
  cursor,   \* search_meta.outbox_cursor
  index,    \* the text of each document in the last Tantivy commit, 0: none
  pending,  \* the same, with the writer's uncommitted operations applied
  marker,   \* the seed-completion marker in the index directory
  actor,    \* what the indexing actor is doing
  flush,    \* the flush at the end of each account's deletion
  late      \* history: documents last changed by a row the drain or the seed had passed

store == <<stored, account, tx, seq>>
vars == <<stored, account, tx, seq, outbox, cursor, index, pending, marker, actor, flush, late>>

\* The actor's locals: `batch` the rows still to apply, `seen` the events applied
\* of this batch, `last` the batch's last sequence number, `full` whether the batch
\* was a full one, `watermark` and `after` the seed's high-water mark and position,
\* `serving` the account whose flush this drain is for, `ok` whether that drain has
\* had no error.
Started(phase) == [phase |-> phase, batch |-> {}, seen |-> {}, last |-> 0, full |-> FALSE,
                   watermark |-> 0, after |-> 0, serving |-> NoOne, ok |-> TRUE]

Resting(phase) == [Started(phase) EXCEPT !.watermark = actor.watermark]

Rows == [seq : 1..MaxSeq, key : Docs \cup Accounts]

Actors ==
  [phase : {"off", "stopped", "seed", "scan", "settle", "trim", "mark",
            "drain", "apply", "commit", "advance", "prune", "wait"},
   batch : SUBSET Rows, seen : SUBSET Docs, last : 0..MaxSeq, full : BOOLEAN,
   watermark : 0..MaxSeq, after : Docs \cup {0}, serving : Accounts \cup {NoOne}, ok : BOOLEAN]

TypeOK ==
  /\ stored \in [Docs -> 0..Texts]
  /\ account \in [Accounts -> {"active", "deleting", "deleted"}]
  /\ tx \subseteq Rows
  /\ seq \in 0..MaxSeq
  /\ outbox \subseteq Rows
  /\ cursor \in 0..MaxSeq
  /\ index \in [Docs -> 0..Texts]
  /\ pending \in [Docs -> 0..Texts]
  /\ marker \in BOOLEAN
  /\ actor \in Actors
  /\ flush \in [Accounts -> {"none", "asked", "done", "failed", "dropped", "absent"}]
  /\ late \in [Docs -> {"no", "seed", "drain"}]

Init ==
  /\ stored = [d \in Docs |-> 0]
  /\ account = [a \in Accounts |-> "active"]
  /\ tx = {} /\ seq = 0 /\ outbox = {} /\ cursor = 0
  /\ index = [d \in Docs |-> 0]
  /\ pending = index
  /\ marker = FALSE
  /\ actor = Started("seed")
  /\ flush = [a \in Accounts |-> "none"]
  /\ late = [d \in Docs |-> "no"]

DocsOf(a) == {d \in Docs : Owner[d] = a}

\* The documents a row's application derives again.
Names(key) == IF key \in Docs THEN {key} ELSE DocsOf(key)

-----------------------------------------------------------------------------
(* Writes to the event store *)

\* A write takes its place in the outbox inside its transaction, after the room's
\* advisory lock, and becomes visible only when it commits.
Begin(key) ==
  /\ seq < MaxSeq
  /\ seq' = seq + 1
  /\ tx' = tx \cup {[seq |-> seq + 1, key |-> key]}
  /\ UNCHANGED <<stored, account, outbox, cursor, index, pending, marker, actor, flush, late>>

\* upsert_event, update_decrypted_event: a new event, an edit, a redaction or a
\* decryption of d, in an account that is being synced; or the purge of its room.
BeginWrite(d) ==
  /\ account[Owner[d]] = "active"
  /\ \A t \in tx : t.key # d
  /\ Begin(d)

\* delete_event_batches and then the account row: one statement at a time, once
\* ingestion has stopped.
BeginDelete(a) ==
  /\ account[a] = "deleting"
  /\ \A t \in tx : Names(t.key) \cap DocsOf(a) = {} /\ t.key # a
  /\ Begin(a)

\* How far the actor has read: rows at or below this are not read again.
Passed ==
  CASE actor.phase \in {"apply", "commit", "advance"} -> actor.last
    [] actor.phase \in {"scan", "settle"} -> actor.watermark
    [] OTHER -> cursor

\* A change to documents becomes visible together with its row.
Append(t) ==
  /\ outbox' = outbox \cup {t}
  /\ tx' = tx \ {t}
  /\ late' = [d \in Docs |->
                IF d \notin Names(t.key) \/ (actor.phase = "scan" /\ d > actor.after)
                THEN late[d]
                ELSE CASE t.seq > Passed -> "no"
                       [] t.seq <= Passed /\ t.seq <= actor.watermark -> "seed"
                       [] OTHER -> "drain"]
  /\ UNCHANGED <<seq, cursor, index, pending, marker, actor>>

CommitWrite(t) ==
  /\ t.key \in Docs
  /\ \E text \in 0..Texts : stored' = [stored EXCEPT ![t.key] = text]
  /\ Append(t)
  /\ UNCHANGED <<account, flush>>

\* Each batch of an account's events is deleted with a purge row; when none is left
\* the account's own row is deleted with one more, and the caller asks for a flush.
CommitDelete(t) ==
  /\ t.key \in Accounts
  /\ LET left == {d \in DocsOf(t.key) : stored[d] # 0}
     IN \/ /\ left # {}
           /\ \E gone \in SUBSET left :
                /\ gone # {}
                /\ stored' = [d \in Docs |-> IF d \in gone THEN 0 ELSE stored[d]]
           /\ UNCHANGED <<account, flush>>
        \/ /\ left = {}
           /\ account' = [account EXCEPT ![t.key] = "deleted"]
           /\ flush' = [flush EXCEPT ![t.key] =
                          IF actor.phase \in {"off", "stopped"} THEN "absent" ELSE "asked"]
           /\ UNCHANGED stored
  /\ Append(t)

\* A transaction fails: its sequence number is never used.
Rollback(t) ==
  /\ tx' = tx \ {t}
  /\ UNCHANGED <<stored, account, seq, outbox, cursor, index, pending, marker, actor, flush, late>>

\* AccountLifecycle::delete: the account is marked, and its sync task has ended.
StartDelete(a) ==
  /\ account[a] = "active"
  /\ \A t \in tx : t.key \notin DocsOf(a)
  /\ account' = [account EXCEPT ![a] = "deleting"]
  /\ UNCHANGED <<stored, tx, seq, outbox, cursor, index, pending, marker, actor, flush, late>>

-----------------------------------------------------------------------------
(* The seed *)

To(phase) == actor' = [actor EXCEPT !.phase = phase]

\* A failed seed ends the actor; the requests waiting for it are dropped with it.
SeedFails ==
  /\ actor' = Resting("stopped")
  /\ flush' = [a \in Accounts |-> IF flush[a] = "asked" THEN "absent" ELSE flush[a]]

\* A read of the elements of S is limited to BatchSize of them.
Limited(batch, S) ==
  Cardinality(batch) = BatchSize \/ (batch = S /\ Cardinality(S) < BatchSize)

\* m is the greatest element of S, or 0 if there is none.
Top(m, S) == (S = {} /\ m = 0) \/ (m \in S /\ \A x \in S : x <= m)

\* The high-water mark is read, and the index emptied.
SeedStart ==
  /\ actor.phase = "seed"
  /\ \/ /\ \E top \in 0..MaxSeq :
             /\ Top(top, {t.seq : t \in outbox})
             /\ actor' = [actor EXCEPT !.phase = "scan", !.after = 0, !.watermark = top]
        /\ pending' = [d \in Docs |-> 0]
        /\ index' = pending'
        /\ late' = [d \in Docs |-> "no"]
        /\ UNCHANGED flush
     \/ "read" \in Faults /\ SeedFails /\ UNCHANGED <<index, pending, late>>
  /\ UNCHANGED <<store, outbox, cursor, marker>>

\* events_for_index: the next events that have a text.
Unscanned == {d \in Docs : d > actor.after /\ stored[d] # 0}

SeedBatch ==
  /\ actor.phase = "scan"
  /\ \/ \E batch \in SUBSET Unscanned, last \in Docs \cup {0} :
          /\ Limited(batch, Unscanned)
          /\ \A x \in batch, y \in Unscanned \ batch : x < y
          /\ Top(last, batch)
          /\ pending' = [d \in Docs |-> IF d \in batch THEN stored[d] ELSE pending[d]]
          /\ index' = pending'
          /\ actor' = IF Cardinality(batch) < BatchSize
                      THEN [actor EXCEPT !.phase = "settle"] ELSE [actor EXCEPT !.after = last]
          /\ UNCHANGED flush
     \/ Faults \cap {"read", "commit"} # {} /\ SeedFails /\ UNCHANGED <<index, pending>>
  /\ UNCHANGED <<store, outbox, cursor, marker, late>>

\* Between two batches the actor takes a message to learn whether the channel is
\* closed; a flush request taken there is dropped, which ends the caller's wait.
SeedTakes(a) ==
  /\ actor.phase = "scan" /\ actor.after # 0
  /\ flush[a] = "asked"
  /\ flush' = [flush EXCEPT ![a] = "dropped"]
  /\ UNCHANGED <<store, outbox, cursor, index, pending, marker, actor, late>>

SeedSettle ==
  /\ actor.phase = "settle"
  /\ \/ cursor' = actor.watermark /\ To("trim") /\ UNCHANGED flush
     \/ "cursor" \in Faults /\ SeedFails /\ UNCHANGED cursor
  /\ UNCHANGED <<store, outbox, index, pending, marker, late>>

\* The rows above the cursor, which prune_search_outbox leaves.
Pruned == {t \in outbox : t.seq > cursor}

SeedTrim ==
  /\ actor.phase = "trim"
  /\ \/ outbox' = Pruned /\ To("mark") /\ UNCHANGED flush
     \/ "prune" \in Faults /\ SeedFails /\ UNCHANGED outbox
  /\ UNCHANGED <<store, cursor, index, pending, marker, late>>

SeedMark ==
  /\ actor.phase = "mark"
  /\ marker' = TRUE \/ ("marker" \in Faults /\ UNCHANGED marker)
  /\ actor' = Resting("drain")
  /\ UNCHANGED <<store, outbox, cursor, index, pending, flush, late>>

-----------------------------------------------------------------------------
(* The drain *)

\* The drain ends; the locals of a flush stay until it is answered.
EndDrain(ok) ==
  actor' = [Resting("wait") EXCEPT !.serving = actor.serving, !.ok = ok]

\* drain_search_outbox: the first rows above the cursor that are visible.
DrainRead ==
  /\ actor.phase = "drain"
  /\ \/ /\ \E batch \in SUBSET Pruned, last \in 1..MaxSeq :
             /\ Limited(batch, Pruned)
             /\ \A x \in batch, y \in Pruned \ batch : x.seq < y.seq
             /\ batch # {} /\ Top(last, {t.seq : t \in batch})
             /\ actor' = [actor EXCEPT !.phase = "apply", !.batch = batch, !.seen = {},
                                       !.last = last, !.full = (Cardinality(batch) = BatchSize)]
        /\ UNCHANGED outbox
     \/ /\ Pruned = {}
        /\ outbox' = Pruned \/ ("prune" \in Faults /\ UNCHANGED outbox)
        /\ EndDrain(TRUE)
     \/ "read" \in Faults /\ EndDrain(FALSE) /\ UNCHANGED outbox
  /\ UNCHANGED <<store, cursor, index, pending, marker, flush, late>>

\* apply_batch, one row: an event is derived again from what the store holds now,
\* once per batch; a purge row removes every document of its account.
Apply(t) ==
  /\ actor.phase = "apply"
  /\ t \in actor.batch /\ \A x \in actor.batch : t.seq <= x.seq
  /\ LET fresh == {d \in Names(t.key) : t.key \in Accounts \/ d \notin actor.seen}
     IN /\ pending' = [d \in Docs |-> IF d \notin fresh THEN pending[d]
                                      ELSE IF t.key \in Docs THEN stored[d] ELSE 0]
        /\ late' = [d \in Docs |-> IF d \in fresh THEN "no" ELSE late[d]]
  /\ actor' = [actor EXCEPT !.batch = @ \ {t}, !.seen = @ \cup (Names(t.key) \cap {t.key}),
                            !.phase = IF actor.batch = {t} THEN "commit" ELSE @]
  /\ UNCHANGED <<store, outbox, cursor, index, marker, flush>>

\* Mutant: the row whose read failed is skipped.
ApplyFails_Skips ==
  /\ "read" \in Faults
  /\ actor.phase = "apply"
  /\ actor' = [actor EXCEPT !.batch = {}, !.phase = "commit"]
  /\ UNCHANGED <<store, outbox, cursor, index, pending, marker, flush, late>>

\* A failed read aborts the batch; what was applied stays with the writer.
ApplyFails ==
  /\ "read" \in Faults
  /\ actor.phase = "apply"
  /\ EndDrain(FALSE)
  /\ UNCHANGED <<store, outbox, cursor, index, pending, marker, flush, late>>

Commit ==
  /\ actor.phase = "commit"
  /\ \/ index' = pending /\ To("advance")
     \/ "commit" \in Faults /\ EndDrain(FALSE) /\ UNCHANGED index
  /\ UNCHANGED <<store, outbox, cursor, pending, marker, flush, late>>

\* set_search_outbox_cursor, only after the commit
Advance ==
  /\ actor.phase = "advance"
  /\ \/ cursor' = actor.last /\ To("prune")
     \/ "cursor" \in Faults /\ EndDrain(FALSE) /\ UNCHANGED cursor
  /\ UNCHANGED <<store, outbox, index, pending, marker, flush, late>>

Prune ==
  /\ actor.phase = "prune"
  /\ outbox' = Pruned \/ ("prune" \in Faults /\ UNCHANGED outbox)
  /\ IF actor.full THEN To("drain") ELSE EndDrain(TRUE)
  /\ UNCHANGED <<store, cursor, index, pending, marker, flush, late>>

-----------------------------------------------------------------------------
(* Waiting *)

\* A hint, or the ticker.
Wake ==
  /\ actor.phase = "wait" /\ actor.serving = NoOne
  /\ actor' = Resting("drain")
  /\ UNCHANGED <<store, outbox, cursor, index, pending, marker, flush, late>>

\* Mutant: a flush is answered without a drain.
TakeFlush_NoDrain(a) ==
  /\ actor.phase = "wait" /\ actor.serving = NoOne
  /\ flush[a] = "asked"
  /\ actor' = [actor EXCEPT !.serving = a, !.ok = TRUE]
  /\ UNCHANGED <<store, outbox, cursor, index, pending, marker, flush, late>>

TakeFlush(a) ==
  /\ actor.phase = "wait" /\ actor.serving = NoOne
  /\ flush[a] = "asked"
  /\ actor' = [actor EXCEPT !.phase = "drain", !.serving = a, !.ok = TRUE]
  /\ UNCHANGED <<store, outbox, cursor, index, pending, marker, flush, late>>

\* The caller is answered whether or not the drain succeeded.
Answer(a) ==
  /\ actor.phase = "wait" /\ actor.serving = a
  /\ flush' = [flush EXCEPT ![a] = IF actor.ok THEN "done" ELSE "failed"]
  /\ actor' = Resting("drain")
  /\ UNCHANGED <<store, outbox, cursor, index, pending, marker, late>>

-----------------------------------------------------------------------------
(* Operator and restart *)

\* axon search reindex
Reindex ==
  /\ marker' = FALSE
  /\ UNCHANGED <<store, outbox, cursor, index, pending, actor, flush, late>>

\* A crash at any point: transactions and uncommitted writes are lost.  The next
\* process may have search disabled; otherwise an index without the marker is wiped
\* and seeded again, and a deletion that was under way is resumed.
Restart(enabled) ==
  /\ tx' = {}
  /\ index' = IF enabled /\ ~marker THEN [d \in Docs |-> 0] ELSE index
  /\ pending' = index'
  /\ actor' = Started(IF ~enabled THEN "off" ELSE IF marker THEN "drain" ELSE "seed")
  /\ flush' = [a \in Accounts |-> IF flush[a] = "asked" THEN "absent" ELSE flush[a]]
  /\ UNCHANGED <<stored, account, seq, outbox, cursor, marker, late>>

\* The actor's own steps.
Seed == SeedStart \/ SeedBatch \/ SeedSettle \/ SeedTrim \/ SeedMark
Drain ==
  \/ DrainRead \/ (\E t \in actor.batch : Apply(t)) \/ ApplyFails
  \/ Commit \/ Advance \/ Prune \/ Wake
  \/ \E a \in Accounts : Answer(a)

Work ==
  \/ \E d \in Docs : BeginWrite(d)
  \/ \E a \in Accounts : BeginDelete(a) \/ StartDelete(a)
  \/ \E t \in tx : CommitWrite(t) \/ CommitDelete(t) \/ Rollback(t)
  \/ Seed \/ Drain
  \/ \E a \in Accounts : SeedTakes(a) \/ TakeFlush(a)
  \/ Reindex

Next == Work \/ \E enabled \in BOOLEAN : Restart(enabled)

Spec == Init /\ [][Next]_vars

\* The actor keeps running, and its select takes a waiting message in the end.
Fairness ==
  /\ WF_vars(Seed \/ Drain)
  /\ \A a \in Accounts : SF_vars(TakeFlush(a))

FairSpec == Spec /\ Fairness

-----------------------------------------------------------------------------
(* Properties *)

\* The last commit holds what the store resolves the event to.  The documents of an
\* account that is being deleted may be gone before its events are.
Right(d) == index[d] = stored[d] \/ (account[Owner[d]] # "active" /\ index[d] = 0)

\* A row the durable cursor has not passed will derive the document again.
Owed(d) == \E t \in outbox : t.seq > cursor /\ d \in Names(t.key)

\* The next process will not seed the index again, or this one has seeded it.
Seeded ==
  marker \/ actor.phase \in {"trim", "mark", "drain", "apply", "commit", "advance", "prune", "wait"}

\* A crash at any point forgets nothing: every document of the last Tantivy commit
\* that is out of date is named by a row above the durable cursor, but for the
\* changes that were committed below a row the actor had already read.
NothingForgotten == Seeded => \A d \in Docs : Right(d) \/ Owed(d) \/ late[d] # "no"

\* No successful write goes unindexed, in whatever order transactions commit: only
\* the seed has a window that a write can be lost in.
NoneLost == Seeded => \A d \in Docs : Right(d) \/ Owed(d) \/ late[d] = "seed"

\* A flush whose drain succeeded found the account's documents gone, and they never
\* come back: not from a batch read earlier, a retry, or a seed.
FlushedIsGone ==
  \A a \in Accounts : flush[a] = "done" => \A d \in DocsOf(a) : index[d] = 0 \/ late[d] # "no"

\* A flush that returned while the actor was running left no document of the
\* deleted account in the index.
FlushGone ==
  \A a \in Accounts :
    flush[a] \in {"done", "failed", "dropped"} => \A d \in DocsOf(a) : index[d] = 0

\* A step that no crash has to explain, and in which the actor does not fail.
Calm == Work /\ actor'.ok /\ actor'.phase \notin {"off", "stopped"}

\* Once failures and writes stop, the index converges on the store, without any
\* hint having to arrive.
Settles ==
  <>[][Calm]_vars =>
    \A d \in Docs : <>[](Right(d) \/ late[d] # "no" \/ actor.phase \in {"off", "stopped"})

\* The deletion of an account is never left waiting for its flush: not by a drain
\* that fails, a seed, or the actor's end.
FlushReturns == \A a \in Accounts : []<>(flush[a] # "asked")

=============================================================================
