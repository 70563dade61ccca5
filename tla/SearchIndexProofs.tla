-------------------------- MODULE SearchIndexProofs --------------------------
(* Theorems about SearchIndex, for any set of events and accounts, any batch size
   and any failures. *)
EXTENDS SearchIndex, FiniteSetTheorems, TLAPS

-----------------------------------------------------------------------------
(* Types *)

\* What the actor's record becomes between two drains.
LEMMA RestingType ==
  ASSUME actor \in Actors,
         NEW p \in {"off", "stopped", "seed", "drain", "wait"}
  PROVE  /\ Started(p) \in Actors
         /\ Resting(p) \in Actors
         /\ Started(p).phase = p /\ Resting(p).phase = p
         /\ \A ok \in BOOLEAN : EndDrain(ok) => actor' \in Actors /\ actor'.phase = "wait"
<1>1. 0 \in 0..MaxSeq
  BY SearchAssumption
<1>2. Started(p) \in Actors /\ Started("wait") \in Actors
  BY <1>1 DEF Started, Actors
<1>3. Resting(p) \in Actors /\ Resting("wait") \in Actors
  BY <1>2 DEF Resting, Actors
<1>4. Started(p).phase = p
  BY DEF Started
<1>5. Resting(p).phase = p /\ Resting("wait").phase = "wait"
  BY DEF Started, Resting
<1>6. ASSUME NEW ok \in BOOLEAN, EndDrain(ok)
      PROVE  actor' \in Actors /\ actor'.phase = "wait"
  <2> DEFINE w == Resting("wait")
  <2>1. actor' = [w EXCEPT !.serving = actor.serving, !.ok = ok]
    BY <1>6 DEF EndDrain
  <2>2. w \in Actors /\ w.phase = "wait"
    BY <1>3, <1>5
  <2> HIDE DEF w
  <2> QED
    BY <2>1, <2>2 DEF Actors
<1> QED
  BY <1>2, <1>3, <1>4, <1>5, <1>6

LEMMA InitType == ASSUME Init PROVE TypeOK
<1>1. 0 \in 0..MaxSeq /\ 0 \in 0..Texts
  BY SearchAssumption
<1>2. Started("seed") \in Actors
  BY <1>1 DEF Started, Actors
<1> QED
  BY <1>1, <1>2 DEF Init, TypeOK

\* What a row names.
LEMMA NamesType ==
  ASSUME NEW key \in Docs \cup Accounts
  PROVE  /\ Names(key) \subseteq Docs
         /\ key \in Docs => Names(key) = {key}
         /\ key \in Accounts => Names(key) = {d \in Docs : Owner[d] = key}
BY SearchAssumption DEF Names, DocsOf

LEMMA WriteType ==
  ASSUME TypeOK,
         \/ \E d \in Docs : BeginWrite(d)
         \/ \E a \in Accounts : BeginDelete(a) \/ StartDelete(a)
         \/ \E t \in tx : CommitWrite(t) \/ CommitDelete(t) \/ Rollback(t)
  PROVE  TypeOK'
<1>1. 0 \in 0..Texts
  BY SearchAssumption
<1>2. ASSUME NEW key \in Docs \cup Accounts, Begin(key) PROVE TypeOK'
  <2>1. seq + 1 \in 1..MaxSeq
    BY <1>2, SearchAssumption DEF Begin, TypeOK
  <2>2. [seq |-> seq + 1, key |-> key] \in Rows
    BY <2>1 DEF Rows
  <2> QED
    BY <1>2, <2>1, <2>2 DEF Begin, TypeOK
<1>3. ASSUME NEW t \in tx, Append(t)
      PROVE  /\ outbox' \subseteq Rows /\ tx' \subseteq Rows
             /\ late' \in [Docs -> {"no", "seed", "drain"}]
  BY <1>3 DEF Append, TypeOK
<1>4. ASSUME NEW t \in tx, CommitWrite(t) PROVE TypeOK'
  BY <1>3, <1>4 DEF CommitWrite, Append, TypeOK
<1>5. ASSUME NEW t \in tx, CommitDelete(t) PROVE TypeOK'
  <2>1. stored' \in [Docs -> 0..Texts]
    BY <1>1, <1>5 DEF CommitDelete, TypeOK
  <2>2. /\ account' \in [Accounts -> {"active", "deleting", "deleted"}]
        /\ flush' \in [Accounts -> {"none", "asked", "done", "failed", "dropped", "absent"}]
    BY <1>5 DEF CommitDelete, TypeOK
  <2>3. Append(t)
    BY <1>5 DEF CommitDelete
  <2> QED
    BY <1>3, <2>1, <2>2, <2>3 DEF Append, TypeOK
<1>6. ASSUME NEW t \in tx, Rollback(t) PROVE TypeOK'
  BY <1>6 DEF Rollback, TypeOK
<1>7. ASSUME NEW a \in Accounts, StartDelete(a) PROVE TypeOK'
  BY <1>7 DEF StartDelete, TypeOK
<1> QED
  BY <1>2, <1>4, <1>5, <1>6, <1>7 DEF BeginWrite, BeginDelete

LEMMA SeedType ==
  ASSUME TypeOK, Seed
  PROVE  TypeOK'
<1> USE DEF store
<1>0. 0 \in 0..Texts /\ 0 \in 0..MaxSeq /\ actor \in Actors
  BY SearchAssumption DEF TypeOK
<1>1. ASSUME SeedFails
      PROVE  /\ actor' \in Actors
             /\ flush' \in [Accounts -> {"none", "asked", "done", "failed", "dropped", "absent"}]
  BY <1>0, <1>1, RestingType DEF SeedFails, TypeOK
<1>2. CASE SeedStart
  <2>1. \/ \E top \in 0..MaxSeq :
              actor' = [actor EXCEPT !.phase = "scan", !.after = 0, !.watermark = top]
        \/ SeedFails
    BY <1>2 DEF SeedStart
  <2>2. actor' \in Actors
    BY <1>0, <1>1, <2>1, ZenonT(60) DEF Actors
  <2>3. flush' \in [Accounts -> {"none", "asked", "done", "failed", "dropped", "absent"}]
    BY <1>1, <1>2 DEF SeedStart, TypeOK
  <2>4. \/ /\ pending' = [d \in Docs |-> 0] /\ index' = pending'
           /\ late' = [d \in Docs |-> "no"]
        \/ UNCHANGED <<index, pending, late>>
    BY <1>2 DEF SeedStart
  <2>5. /\ pending' \in [Docs -> 0..Texts] /\ index' \in [Docs -> 0..Texts]
        /\ late' \in [Docs -> {"no", "seed", "drain"}]
    BY <1>0, <2>4 DEF TypeOK
  <2> QED
    BY <1>2, <2>2, <2>3, <2>5 DEF SeedStart, TypeOK
<1>3. CASE SeedBatch
  <2>1. actor' \in Actors
    BY <1>0, <1>1, <1>3 DEF SeedBatch, Actors
  <2>2. flush' \in [Accounts -> {"none", "asked", "done", "failed", "dropped", "absent"}]
    BY <1>1, <1>3 DEF SeedBatch, TypeOK
  <2>3. pending' \in [Docs -> 0..Texts] /\ index' \in [Docs -> 0..Texts]
    BY <1>0, <1>3 DEF SeedBatch, TypeOK
  <2> QED
    BY <1>3, <2>1, <2>2, <2>3 DEF SeedBatch, TypeOK
<1>4. CASE SeedSettle
  <2>1. actor' \in Actors
    BY <1>0, <1>1, <1>4 DEF SeedSettle, To, Actors
  <2>2. flush' \in [Accounts -> {"none", "asked", "done", "failed", "dropped", "absent"}]
    BY <1>1, <1>4 DEF SeedSettle, TypeOK
  <2>3. cursor' \in 0..MaxSeq
    BY <1>0, <1>4 DEF SeedSettle, TypeOK, Actors
  <2> QED
    BY <1>4, <2>1, <2>2, <2>3 DEF SeedSettle, TypeOK
<1>5. CASE SeedTrim
  <2>1. actor' \in Actors
    BY <1>0, <1>1, <1>5 DEF SeedTrim, To, Actors
  <2>2. flush' \in [Accounts -> {"none", "asked", "done", "failed", "dropped", "absent"}]
    BY <1>1, <1>5 DEF SeedTrim, TypeOK
  <2> QED
    BY <1>5, <2>1, <2>2 DEF SeedTrim, Pruned, TypeOK
<1>6. CASE SeedMark
  BY <1>0, <1>6, RestingType DEF SeedMark, TypeOK
<1> QED
  BY <1>2, <1>3, <1>4, <1>5, <1>6 DEF Seed

LEMMA DrainType ==
  ASSUME TypeOK,
         \/ Drain
         \/ \E a \in Accounts : SeedTakes(a) \/ TakeFlush(a)
         \/ Reindex
         \/ \E enabled \in BOOLEAN : Restart(enabled)
  PROVE  TypeOK'
<1> USE DEF store
<1>0. 0 \in 0..Texts /\ 0 \in 0..MaxSeq /\ actor \in Actors
  BY SearchAssumption DEF TypeOK
<1>1. CASE DrainRead
  <2>1. actor' \in Actors
    <3>1. Pruned \subseteq Rows
      BY DEF Pruned, TypeOK
    <3>2. \/ \E batch \in SUBSET Pruned, last \in 1..MaxSeq, full \in BOOLEAN :
                actor' = [actor EXCEPT !.phase = "apply", !.batch = batch, !.seen = {},
                                       !.last = last, !.full = full]
          \/ \E ok \in BOOLEAN : EndDrain(ok)
      BY <1>1, Zenon DEF DrainRead
    <3>3. ASSUME \E ok \in BOOLEAN : EndDrain(ok) PROVE actor' \in Actors
      BY <1>0, <3>3, RestingType
    <3>4. ASSUME NEW batch \in SUBSET Pruned, NEW last \in 1..MaxSeq, NEW full \in BOOLEAN,
                 actor' = [actor EXCEPT !.phase = "apply", !.batch = batch, !.seen = {},
                                        !.last = last, !.full = full]
          PROVE  actor' \in Actors
      <4>1. last \in 0..MaxSeq /\ batch \in SUBSET Rows
        BY <3>1
      <4> QED
        BY <1>0, <3>4, <4>1 DEF Actors
    <3> QED
      BY <3>2, <3>3, <3>4
  <2> QED
    BY <1>1, <2>1 DEF DrainRead, Pruned, TypeOK
<1>2. ASSUME NEW t \in actor.batch, Apply(t) PROVE TypeOK'
  <2>1. t.key \in Docs \cup Accounts
    BY <1>0 DEF Actors, Rows
  <2>2. actor' \in Actors
    BY <1>0, <1>2, <2>1, NamesType DEF Apply, Actors
  <2>3. /\ pending' \in [Docs -> 0..Texts]
        /\ late' \in [Docs -> {"no", "seed", "drain"}]
    BY <1>0, <1>2 DEF Apply, TypeOK
  <2> QED
    BY <1>2, <2>2, <2>3 DEF Apply, TypeOK
<1>3. CASE ApplyFails
  BY <1>0, <1>3, RestingType DEF ApplyFails, TypeOK
<1>4. CASE Commit
  <2>1. actor' \in Actors
    BY <1>0, <1>4, RestingType, ZenonT(60) DEF Commit, To, Actors
  <2> QED
    BY <1>4, <2>1 DEF Commit, TypeOK
<1>5. CASE Advance
  <2>1. actor' \in Actors
    BY <1>0, <1>5, RestingType, ZenonT(60) DEF Advance, To, Actors
  <2>2. cursor' \in 0..MaxSeq
    BY <1>0, <1>5 DEF Advance, Actors, TypeOK
  <2> QED
    BY <1>5, <2>1, <2>2 DEF Advance, TypeOK
<1>6. CASE Prune
  <2>1. To("drain") \/ EndDrain(TRUE)
    BY <1>6 DEF Prune
  <2>2. ASSUME EndDrain(TRUE) PROVE actor' \in Actors
    BY <1>0, <2>2, RestingType
  <2>3. ASSUME To("drain") PROVE actor' \in Actors
    BY <1>0, <2>3 DEF To, Actors
  <2> QED
    BY <1>6, <2>1, <2>2, <2>3 DEF Prune, Pruned, TypeOK
<1>7. CASE Wake
  BY <1>0, <1>7, RestingType DEF Wake, TypeOK
<1>8. ASSUME NEW a \in Accounts, Answer(a) PROVE TypeOK'
  BY <1>0, <1>8, RestingType DEF Answer, TypeOK
<1>9. ASSUME NEW a \in Accounts, SeedTakes(a) PROVE TypeOK'
  BY <1>9 DEF SeedTakes, TypeOK
<1>10. ASSUME NEW a \in Accounts, TakeFlush(a) PROVE TypeOK'
  <2>1. actor' \in Actors
    BY <1>0, <1>10 DEF TakeFlush, Actors
  <2> QED
    BY <1>10, <2>1 DEF TakeFlush, TypeOK
<1>11. CASE Reindex
  BY <1>11 DEF Reindex, TypeOK
<1>12. ASSUME NEW enabled \in BOOLEAN, Restart(enabled) PROVE TypeOK'
  <2>1. actor' \in Actors
    BY <1>0, <1>12, RestingType DEF Restart
  <2>2. index' \in [Docs -> 0..Texts] /\ pending' \in [Docs -> 0..Texts]
    BY <1>0, <1>12 DEF Restart, TypeOK
  <2>3. flush' \in [Accounts -> {"none", "asked", "done", "failed", "dropped", "absent"}]
    BY <1>12 DEF Restart, TypeOK
  <2> QED
    BY <1>12, <2>1, <2>2, <2>3 DEF Restart, TypeOK
<1> QED
  BY <1>1, <1>2, <1>3, <1>4, <1>5, <1>6, <1>7, <1>8, <1>9, <1>10, <1>11, <1>12 DEF Drain

LEMMA NextType == ASSUME TypeOK, [Next]_vars PROVE TypeOK'
<1>1. CASE UNCHANGED vars
  BY <1>1 DEF vars, TypeOK
<1> QED
  BY <1>1, WriteType, SeedType, DrainType DEF Next, Work

\* The outbox, the index and the actor keep their types: in particular the durable
\* cursor stays a sequence number the outbox has given out or could give out.
THEOREM TypeCorrect == Spec => []TypeOK
<1>1. Init => TypeOK
  BY InitType
<1>2. TypeOK /\ [Next]_vars => TypeOK'
  BY NextType
<1> QED
  BY <1>1, <1>2, PTL DEF Spec

-----------------------------------------------------------------------------
(* Nothing is forgotten *)

\* Only an account that is being deleted has purge rows.
RowsKnown == \A t \in tx \cup outbox : t.key \in Accounts => account[t.key] # "active"

\* The marker is absent until the seed has ended.
Unmarked == actor.phase \in {"seed", "scan", "settle", "trim", "mark", "stopped"} => ~marker

\* What the writer holds for d, committed or not, is what the store resolves it to.
Fits(d) == pending[d] = stored[d] \/ (account[Owner[d]] # "active" /\ pending[d] = 0)

\* A visible row above n derives d again.
Above(n, d) == \E t \in outbox : t.seq > n /\ d \in Names(t.key)

\* Once the rows up to n are applied, d is right, is derived again, or was passed.
Settled(n, d) == Fits(d) \/ Above(n, d) \/ late[d] # "no"

\* The corpus scan: behind its position documents are settled with the high-water
\* mark, ahead of it the index is still empty.
ScanOK ==
  actor.phase \in {"scan", "settle"} =>
    /\ index = pending
    /\ \A d \in Docs : IF actor.phase = "scan" /\ d > actor.after
                      THEN pending[d] = 0 ELSE Settled(actor.watermark, d)

\* Between two batches documents are settled with the durable cursor.
RestOK ==
  actor.phase \in {"trim", "mark", "drain", "prune", "wait"} =>
    \A d \in Docs : Settled(cursor, d)

\* A row of the batch that is still to be applied will derive d.
Due(d) ==
  actor.phase = "apply" /\ \E t \in actor.batch :
    d \in Names(t.key) /\ (t.key \in Accounts \/ d \notin actor.seen)

\* Within a batch documents are settled with its last row, or still due.
BatchOK ==
  actor.phase \in {"apply", "commit", "advance"} =>
    /\ actor.last > cursor
    /\ actor.batch \subseteq {t \in outbox : t.seq > cursor /\ t.seq <= actor.last}
    /\ actor.phase = "advance" => index = pending
    /\ \A d \in Docs : Settled(actor.last, d) \/ Due(d)

Inv ==
  /\ RowsKnown
  /\ Unmarked
  /\ ScanOK
  /\ RestOK
  /\ BatchOK
  /\ NothingForgotten

LEMMA InitInv == ASSUME Init PROVE Inv
<1>1. actor.phase = "seed" /\ marker = FALSE /\ tx = {} /\ outbox = {}
  BY DEF Init, Started
<1> QED
  BY <1>1 DEF Inv, RowsKnown, Unmarked, ScanOK, RestOK, BatchOK, NothingForgotten, Seeded

\* Steps that change neither the store's events nor the index nor the actor.
LEMMA Unaffected ==
  ASSUME Inv, UNCHANGED <<stored, outbox, cursor, index, pending, marker, actor, late>>,
         \A a \in Accounts : account[a] # "active" => account'[a] # "active",
         \A t \in tx' \ tx : t.key \in Accounts => account'[t.key] # "active"
  PROVE  Inv'
<1>1. Owner \in [Docs -> Accounts]
  BY SearchAssumption
<1>2. \A d \in Docs : (Fits(d) => Fits(d)') /\ (Right(d) => Right(d)')
  BY <1>1 DEF Fits, Right
<1>3. \A d \in Docs : (Owed(d) => Owed(d)') /\ (Due(d) => Due(d)')
  BY DEF Owed, Due
<1>4. \A d \in Docs : \A n : Settled(n, d) => Settled(n, d)'
  BY <1>2 DEF Settled, Above
<1>5. RowsKnown'
  BY DEF Inv, RowsKnown
<1>6. Unmarked'
  BY DEF Inv, Unmarked
<1>7. ScanOK'
  BY <1>4 DEF Inv, ScanOK
<1>8. RestOK'
  BY <1>4 DEF Inv, RestOK
<1>9. BatchOK'
  BY <1>3, <1>4 DEF Inv, BatchOK
<1>10. NothingForgotten'
  BY <1>2, <1>3 DEF Inv, NothingForgotten, Seeded
<1> QED
  BY <1>5, <1>6, <1>7, <1>8, <1>9, <1>10 DEF Inv

LEMMA WriteQuietInv ==
  ASSUME TypeOK, Inv,
         \/ \E d \in Docs : BeginWrite(d)
         \/ \E a \in Accounts : BeginDelete(a) \/ StartDelete(a)
         \/ \E t \in tx : Rollback(t)
  PROVE  Inv'
<1>1. Accounts \cap Docs = {}
  BY SearchAssumption
<1>2. ASSUME NEW d \in Docs, BeginWrite(d) PROVE Inv'
  BY <1>1, <1>2, Unaffected DEF BeginWrite, Begin
<1>3. ASSUME NEW a \in Accounts, BeginDelete(a) PROVE Inv'
  BY <1>3, Unaffected DEF BeginDelete, Begin
<1>4. ASSUME NEW a \in Accounts, StartDelete(a) PROVE Inv'
  BY <1>4, Unaffected DEF StartDelete, TypeOK
<1>5. ASSUME NEW t \in tx, Rollback(t) PROVE Inv'
  BY <1>5, Unaffected DEF Rollback
<1> QED
  BY <1>2, <1>3, <1>4, <1>5

\* A change becomes visible with its row, which the actor has yet to read, or with
\* the record that the actor had read past it.
LEMMA AppendEffect ==
  ASSUME TypeOK, RowsKnown, NEW t \in tx, CommitWrite(t) \/ CommitDelete(t)
  PROVE  /\ UNCHANGED <<cursor, index, pending, marker, actor>>
         /\ outbox' = outbox \cup {t} /\ tx' = tx \ {t}
         /\ \A a \in Accounts : account[a] # "active" => account'[a] # "active"
         /\ \A d \in Docs : d \notin Names(t.key) => stored'[d] = stored[d] /\ late'[d] = late[d]
         /\ \A d \in Docs : d \in Names(t.key) /\ ~(actor.phase = "scan" /\ d > actor.after) =>
              t.seq > Passed \/ late'[d] # "no"
<1>1. t \in Rows /\ t.key \in Docs \cup Accounts
  BY DEF TypeOK, Rows
<1>2. Append(t)
  BY DEF CommitWrite, CommitDelete
<1>3. \A a \in Accounts : account[a] # "active" => account'[a] # "active"
  BY DEF CommitWrite, CommitDelete, TypeOK
<1>4. ASSUME NEW d \in Docs, d \notin Names(t.key) PROVE stored'[d] = stored[d]
  <2>1. CASE CommitWrite(t)
    BY <1>1, <1>4, <2>1, NamesType DEF CommitWrite, TypeOK
  <2>2. CASE CommitDelete(t)
    <3>1. t.key \in Accounts /\ Names(t.key) = DocsOf(t.key)
      BY <2>2, NamesType DEF CommitDelete, DocsOf
    <3>2. d \notin DocsOf(t.key)
      BY <1>4, <3>1
    <3> QED
      BY <2>2, <3>2 DEF CommitDelete, TypeOK
  <2> QED
    BY <2>1, <2>2
<1>5. \A d \in Docs : d \notin Names(t.key) => late'[d] = late[d]
  BY <1>2 DEF Append
<1>6. ASSUME NEW d \in Docs, d \in Names(t.key), ~(actor.phase = "scan" /\ d > actor.after),
             ~(t.seq > Passed)
      PROVE  late'[d] # "no"
  <2> DEFINE p == Passed
             read == t.seq <= p /\ t.seq <= actor.watermark
  <2>1. late'[d] = CASE t.seq > p -> "no" [] read -> "seed" [] OTHER -> "drain"
    BY <1>2, <1>6 DEF Append
  <2>2. ~(t.seq > p)
    BY <1>6
  <2> HIDE DEF p, read
  <2> QED
    BY <2>1, <2>2
<1> QED
  BY <1>2, <1>3, <1>4, <1>5, <1>6 DEF Append

LEMMA CommitInv ==
  ASSUME TypeOK, Inv, NEW t \in tx, CommitWrite(t) \/ CommitDelete(t)
  PROVE  Inv'
<1>1. t \in Rows /\ t.seq \in Nat /\ cursor \in Nat /\ Owner \in [Docs -> Accounts]
  BY SearchAssumption DEF TypeOK, Rows
<1>2. /\ UNCHANGED <<cursor, index, pending, marker, actor>>
      /\ outbox' = outbox \cup {t} /\ tx' = tx \ {t}
      /\ \A a \in Accounts : account[a] # "active" => account'[a] # "active"
      /\ \A d \in Docs : d \notin Names(t.key) => stored'[d] = stored[d] /\ late'[d] = late[d]
      /\ \A d \in Docs : d \in Names(t.key) /\ ~(actor.phase = "scan" /\ d > actor.after) =>
           t.seq > Passed \/ late'[d] # "no"
  BY AppendEffect DEF Inv
<1>3. \A d \in Docs : \A n : Above(n, d) => Above(n, d)'
  BY <1>2 DEF Above
<1>4. \A d \in Docs : d \notin Names(t.key) =>
        (Fits(d) => Fits(d)') /\ (Right(d) => Right(d)')
  BY <1>1, <1>2 DEF Fits, Right
<1>5. \A d \in Docs : \A n : d \notin Names(t.key) /\ Settled(n, d) => Settled(n, d)'
  BY <1>2, <1>3, <1>4 DEF Settled
<1>6. ASSUME NEW d \in Docs, d \in Names(t.key), ~(actor.phase = "scan" /\ d > actor.after)
      PROVE  (\E x \in outbox' : x.seq > Passed /\ d \in Names(x.key)) \/ late'[d] # "no"
  BY <1>2, <1>6
<1>7. RowsKnown'
  BY <1>2 DEF Inv, RowsKnown, TypeOK
<1>8. Unmarked'
  BY <1>2 DEF Inv, Unmarked
<1>9. ScanOK'
  <2>1. SUFFICES ASSUME actor.phase \in {"scan", "settle"}, NEW d \in Docs,
                        ~(actor.phase = "scan" /\ d > actor.after)
                 PROVE  Settled(actor.watermark, d)'
    BY <1>2 DEF Inv, ScanOK
  <2>2. Passed = actor.watermark
    BY <2>1 DEF Passed
  <2>3. Settled(actor.watermark, d)
    BY <2>1 DEF Inv, ScanOK
  <2>4. d \notin Names(t.key) => Settled(actor.watermark, d)'
    BY <1>2, <1>5, <2>3
  <2> QED
    BY <1>2, <1>6, <2>1, <2>2, <2>4 DEF Settled, Above
<1>10. RestOK'
  <2>1. SUFFICES ASSUME actor.phase \in {"trim", "mark", "drain", "prune", "wait"}, NEW d \in Docs
                 PROVE  Settled(cursor, d)'
    BY <1>2 DEF RestOK
  <2>2. Passed = cursor
    BY <2>1 DEF Passed
  <2>3. Settled(cursor, d)
    BY <2>1 DEF Inv, RestOK
  <2>4. d \notin Names(t.key) => Settled(cursor, d)'
    BY <1>2, <1>5, <2>3
  <2> QED
    BY <1>2, <1>6, <2>1, <2>2, <2>4 DEF Settled, Above
<1>11. BatchOK'
  <2>1. SUFFICES ASSUME actor.phase \in {"apply", "commit", "advance"}
                 PROVE  BatchOK'
    BY <1>2 DEF BatchOK
  <2>2. Passed = actor.last
    BY <2>1 DEF Passed
  <2>3. ASSUME NEW d \in Docs PROVE Settled(actor.last, d)' \/ Due(d)'
    <3>1. Settled(actor.last, d) \/ Due(d)
      BY <2>1 DEF Inv, BatchOK
    <3>2. Due(d) => Due(d)'
      BY <1>2 DEF Due
    <3>3. d \notin Names(t.key) /\ Settled(actor.last, d) => Settled(actor.last, d)'
      BY <1>2, <1>5
    <3>4. d \in Names(t.key) => Settled(actor.last, d)'
      BY <1>2, <1>6, <2>1, <2>2 DEF Settled, Above
    <3> QED
      BY <3>1, <3>2, <3>3, <3>4
  <2>4. actor.batch \subseteq {x \in outbox' : x.seq > cursor /\ x.seq <= actor.last}
    BY <1>2, <2>1 DEF Inv, BatchOK
  <2> QED
    BY <1>2, <2>1, <2>3, <2>4 DEF Inv, BatchOK
<1>12. NothingForgotten'
  <2>1. SUFFICES ASSUME Seeded, NEW d \in Docs
                 PROVE  Right(d)' \/ Owed(d)' \/ late'[d] # "no"
    BY <1>2 DEF NothingForgotten, Seeded
  <2>2. Right(d) \/ Owed(d) \/ late[d] # "no"
    BY <2>1 DEF Inv, NothingForgotten
  <2>3. CASE d \notin Names(t.key)
    BY <1>2, <1>4, <2>2, <2>3 DEF Owed
  <2>4. CASE d \in Names(t.key)
    <3>1. actor.phase \notin {"scan", "settle"}
      BY <2>1 DEF Seeded, Inv, Unmarked
    <3>2. Passed \in Int /\ Passed >= cursor
      <4>1. actor.last \in Int
        BY DEF TypeOK, Actors
      <4>2. CASE actor.phase \in {"apply", "commit", "advance"}
        BY <1>1, <4>1, <4>2 DEF Inv, BatchOK, Passed
      <4>3. CASE actor.phase \notin {"apply", "commit", "advance"}
        BY <1>1, <3>1, <4>3 DEF Passed
      <4> QED
        BY <4>2, <4>3
    <3>3. t.seq > Passed \/ late'[d] # "no"
      BY <1>2, <2>4, <3>1
    <3>4. t.seq > Passed => Owed(d)'
      BY <1>1, <1>2, <2>4, <3>2 DEF Owed
    <3> QED
      BY <3>3, <3>4
  <2> QED
    BY <2>3, <2>4
<1> QED
  BY <1>7, <1>8, <1>9, <1>10, <1>11, <1>12 DEF Inv

\* Steps of the actor between the end of a batch and the start of the next: the
\* cursor, the store and the index stay.
LEMMA RestInv ==
  ASSUME Inv, UNCHANGED <<stored, account, tx, cursor, index, pending, late>>,
         outbox' = outbox \/ outbox' = Pruned,
         marker' => marker \/ actor.phase = "mark",
         \A d \in Docs : Settled(cursor, d),
         Seeded,
         actor'.phase \in {"drain", "wait", "prune"} \/ (actor'.phase = "mark" /\ ~marker')
  PROVE  Inv'
<1>1. \A d \in Docs : (Above(cursor, d) => Above(cursor, d)') /\ (Owed(d) => Owed(d)')
  BY DEF Above, Owed, Pruned
<1>2. \A d \in Docs : Settled(cursor, d)'
  BY <1>1 DEF Settled, Fits
<1>3. RowsKnown'
  BY DEF Inv, RowsKnown, Pruned
<1>4. Unmarked' /\ ScanOK' /\ RestOK' /\ BatchOK'
  BY <1>2 DEF Unmarked, ScanOK, RestOK, BatchOK
<1>5. NothingForgotten'
  BY <1>1 DEF Inv, NothingForgotten, Right
<1> QED
  BY <1>3, <1>4, <1>5 DEF Inv

LEMMA SeedInv ==
  ASSUME TypeOK, Inv, Seed
  PROVE  Inv'
<1> USE DEF store
<1>0. actor \in Actors /\ Docs \subseteq Nat \ {0} /\ BatchSize \in Nat \ {0}
  BY SearchAssumption DEF TypeOK
<1>1. ASSUME SeedFails, UNCHANGED <<stored, account, tx, outbox, marker>>, ~marker
      PROVE  Inv'
  <2>1. actor'.phase = "stopped"
    BY <1>0, <1>1, RestingType DEF SeedFails
  <2>2. RowsKnown'
    BY <1>1 DEF Inv, RowsKnown
  <2> QED
    BY <1>1, <2>1, <2>2 DEF Inv, Unmarked, ScanOK, RestOK, BatchOK, NothingForgotten, Seeded
<1>2. CASE SeedStart
  <2>1. ~marker /\ UNCHANGED <<stored, account, tx, outbox, marker>>
    BY <1>2 DEF SeedStart, Inv, Unmarked
  <2>2. \/ /\ \E top \in 0..MaxSeq :
                actor' = [actor EXCEPT !.phase = "scan", !.after = 0, !.watermark = top]
           /\ pending' = [d \in Docs |-> 0] /\ index' = pending'
        \/ SeedFails
    BY <1>2 DEF SeedStart
  <2>3. SUFFICES ASSUME \E top \in 0..MaxSeq :
                          actor' = [actor EXCEPT !.phase = "scan", !.after = 0, !.watermark = top],
                        pending' = [d \in Docs |-> 0], index' = pending'
                 PROVE  Inv'
    BY <1>1, <2>1, <2>2
  <2>4. actor'.phase = "scan" /\ actor'.after = 0
    BY <1>0, <2>3 DEF Actors
  <2>5. \A d \in Docs : d > 0
    BY <1>0
  <2>6. ScanOK'
    BY <2>3, <2>4, <2>5 DEF ScanOK
  <2>7. RowsKnown'
    BY <2>1 DEF Inv, RowsKnown
  <2> QED
    BY <2>1, <2>4, <2>6, <2>7 DEF Inv, Unmarked, RestOK, BatchOK, NothingForgotten, Seeded
<1>3. CASE SeedBatch
  <2>1. ~marker /\ UNCHANGED <<stored, account, tx, outbox, marker, late>>
    BY <1>3 DEF SeedBatch, Inv, Unmarked
  <2>2. CASE SeedFails
    BY <1>1, <2>1, <2>2
  <2>3. CASE ~SeedFails
    <3>1. PICK batch \in SUBSET Unscanned, last \in Docs \cup {0} :
            /\ Limited(batch, Unscanned)
            /\ \A x \in batch, y \in Unscanned \ batch : x < y
            /\ Top(last, batch)
            /\ pending' = [d \in Docs |-> IF d \in batch THEN stored[d] ELSE pending[d]]
            /\ index' = pending'
            /\ actor' = IF Cardinality(batch) < BatchSize
                        THEN [actor EXCEPT !.phase = "settle"] ELSE [actor EXCEPT !.after = last]
      BY <1>3, <2>3 DEF SeedBatch
    <3>2. actor.phase = "scan" /\ actor.after \in Nat
      BY <1>0, <1>3 DEF SeedBatch, Actors
    <3>3. \A d \in Docs : d \in batch => d > actor.after
      BY <3>1 DEF Unscanned
    <3>4. \A d \in Docs : d <= actor.after => Settled(actor.watermark, d)
      BY <1>0, <3>2 DEF Inv, ScanOK
    <3>5. ASSUME NEW d \in Docs, d <= actor.after PROVE Settled(actor.watermark, d)'
      <4>1. d \notin batch
        BY <1>0, <3>2, <3>3, <3>5
      <4>2. actor'.watermark = actor.watermark
        BY <1>0, <3>1 DEF Actors
      <4> QED
        BY <2>1, <3>1, <3>4, <3>5, <4>1, <4>2 DEF Settled, Fits, Above
    <3>6. \A d \in Docs : d > actor.after => pending[d] = 0
      BY <1>0, <3>2 DEF Inv, ScanOK
    <3>7. \A d \in Docs : d > actor.after /\ (d \in batch \/ stored[d] = 0) => Fits(d)'
      BY <2>1, <3>1, <3>6 DEF Fits
    <3>8. \A d \in Docs : d > actor.after /\ stored[d] # 0 /\ d \notin batch => d \in Unscanned \ batch
      BY DEF Unscanned
    <3>9. RowsKnown'
      BY <2>1 DEF Inv, RowsKnown
    <3>10. CASE Cardinality(batch) < BatchSize
      <4>1. actor'.phase = "settle"
        BY <1>0, <3>1, <3>10 DEF Actors
      <4>2. batch = Unscanned
        BY <1>0, <3>1, <3>10 DEF Limited
      <4>3. \A d \in Docs : Settled(actor.watermark, d)'
        <5>1. \A d \in Docs : d <= actor.after \/ d > actor.after
          BY <1>0, <3>2
        <5> QED
          BY <3>5, <3>7, <3>8, <4>2, <5>1 DEF Settled
      <4>4. ScanOK'
        BY <3>1, <4>1, <4>3 DEF ScanOK
      <4> QED
        BY <2>1, <3>9, <4>1, <4>4 DEF Inv, Unmarked, RestOK, BatchOK, NothingForgotten, Seeded
    <3>11. CASE ~(Cardinality(batch) < BatchSize)
      <4>1. actor'.phase = "scan" /\ actor'.after = last
        BY <1>0, <3>1, <3>2, <3>11 DEF Actors
      <4>2. batch # {}
        BY <1>0, <3>11, FS_EmptySet
      <4>3. last \in batch /\ \A x \in batch : x <= last
        BY <3>1, <4>2 DEF Top
      <4>4. last \in Nat /\ last > actor.after
        BY <1>0, <3>1, <4>3 DEF Unscanned
      <4>5. \A d \in Docs : d > last => d \notin batch /\ d > actor.after
        BY <1>0, <3>2, <4>3, <4>4
      <4>6. \A d \in Docs : d > last => pending'[d] = 0
        BY <3>1, <3>6, <4>5
      <4>7. ASSUME NEW d \in Docs, ~(d > last) PROVE Settled(actor.watermark, d)'
        <5>1. CASE d <= actor.after
          BY <3>5, <5>1
        <5>2. CASE d > actor.after /\ (d \in batch \/ stored[d] = 0)
          BY <3>7, <5>2 DEF Settled
        <5>3. CASE d > actor.after /\ ~(d \in batch \/ stored[d] = 0)
          <6>1. last < d
            BY <3>1, <3>8, <4>3, <5>3
          <6> QED
            BY <1>0, <4>4, <4>7, <6>1
        <5> QED
          BY <1>0, <3>2, <5>1, <5>2, <5>3
      <4>8. ScanOK'
        BY <3>1, <4>1, <4>6, <4>7 DEF ScanOK
      <4> QED
        BY <2>1, <3>9, <4>1, <4>8 DEF Inv, Unmarked, RestOK, BatchOK, NothingForgotten, Seeded
    <3> QED
      BY <3>10, <3>11
  <2> QED
    BY <2>2, <2>3
<1>4. CASE SeedSettle
  <2>1. ~marker /\ UNCHANGED <<stored, account, tx, outbox, index, pending, marker, late>>
    BY <1>4 DEF SeedSettle, Inv, Unmarked
  <2>2. SUFFICES ASSUME cursor' = actor.watermark, To("trim") PROVE Inv'
    BY <1>1, <1>4, <2>1 DEF SeedSettle
  <2>3. actor'.phase = "trim"
    BY <1>0, <2>2 DEF To, Actors
  <2>4. index = pending /\ \A d \in Docs : Settled(actor.watermark, d)
    BY <1>4 DEF SeedSettle, Inv, ScanOK
  <2>5. \A d \in Docs : Settled(cursor, d)'
    BY <2>1, <2>2, <2>4 DEF Settled, Fits, Above
  <2>6. NothingForgotten'
    BY <2>1, <2>4, <2>5 DEF NothingForgotten, Settled, Fits, Above, Right, Owed
  <2>7. RowsKnown'
    BY <2>1 DEF Inv, RowsKnown
  <2> QED
    BY <2>1, <2>3, <2>5, <2>6, <2>7 DEF Inv, Unmarked, ScanOK, RestOK, BatchOK
<1>5. CASE SeedTrim
  <2>1. ~marker /\ UNCHANGED <<stored, account, tx, cursor, index, pending, marker, late>>
    BY <1>5 DEF SeedTrim, Inv, Unmarked
  <2>2. CASE outbox' = Pruned /\ To("mark")
    <3>1. actor'.phase = "mark"
      BY <1>0, <2>2 DEF To, Actors
    <3>2. Seeded /\ \A d \in Docs : Settled(cursor, d)
      BY <1>5 DEF SeedTrim, Seeded, Inv, RestOK
    <3> QED
      BY <2>1, <2>2, <3>1, <3>2, RestInv
  <2>3. CASE SeedFails /\ UNCHANGED outbox
    BY <1>1, <2>1, <2>3
  <2> QED
    BY <1>5, <2>2, <2>3 DEF SeedTrim
<1>6. CASE SeedMark
  <2>1. actor'.phase = "drain"
    BY <1>0, <1>6, RestingType DEF SeedMark
  <2>2. Seeded /\ \A d \in Docs : Settled(cursor, d)
    BY <1>6 DEF SeedMark, Seeded, Inv, RestOK
  <2> QED
    BY <1>6, <2>1, <2>2, RestInv DEF SeedMark
<1> QED
  BY <1>2, <1>3, <1>4, <1>5, <1>6 DEF Seed

\* A batch that is given up leaves every document settled with the old cursor.
LEMMA GiveUp ==
  ASSUME TypeOK, Inv, actor.phase \in {"apply", "commit", "advance"}
  PROVE  Seeded /\ \A d \in Docs : Settled(cursor, d)
<1>1. /\ actor.last \in Int /\ cursor \in Int /\ actor.last > cursor
      /\ \A t \in outbox : t.seq \in Int
      /\ \A t \in actor.batch : t \in outbox /\ t.seq > cursor
  BY DEF TypeOK, Actors, Rows, Inv, BatchOK
<1>2. \A d \in Docs : Above(actor.last, d) => Above(cursor, d)
  BY <1>1 DEF Above
<1>3. \A d \in Docs : Due(d) => Above(cursor, d)
  BY <1>1 DEF Due, Above
<1>4. \A d \in Docs : Settled(actor.last, d) \/ Due(d)
  BY DEF Inv, BatchOK
<1> QED
  BY <1>2, <1>3, <1>4 DEF Settled, Seeded

LEMMA DrainInv ==
  ASSUME TypeOK, Inv, Drain
  PROVE  Inv'
<1> USE DEF store
<1>0. actor \in Actors /\ cursor \in Int /\ (\A t \in outbox : t.seq \in Int)
  BY DEF TypeOK, Rows
<1>1. \A ok \in BOOLEAN : EndDrain(ok) => actor'.phase = "wait"
  BY <1>0, RestingType
<1>2. CASE DrainRead
  <2>1. UNCHANGED <<stored, account, tx, cursor, index, pending, marker, late>>
    BY <1>2 DEF DrainRead
  <2>2. Seeded /\ actor.phase = "drain" /\ \A d \in Docs : Settled(cursor, d)
    BY <1>2 DEF DrainRead, Seeded, Inv, RestOK
  <2>3. CASE /\ outbox' = outbox \/ outbox' = Pruned
             /\ \E ok \in BOOLEAN : EndDrain(ok)
    BY <1>1, <2>1, <2>2, <2>3, RestInv
  <2>4. ASSUME NEW batch \in SUBSET Pruned, NEW last \in 1..MaxSeq, NEW full \in BOOLEAN,
               \A x \in batch, y \in Pruned \ batch : x.seq < y.seq,
               batch # {}, Top(last, {t.seq : t \in batch}),
               actor' = [actor EXCEPT !.phase = "apply", !.batch = batch, !.seen = {},
                                      !.last = last, !.full = full],
               UNCHANGED outbox
        PROVE  Inv'
    <3>1. /\ actor'.phase = "apply" /\ actor'.batch = batch
          /\ actor'.seen = {} /\ actor'.last = last
      BY <1>0, <2>4 DEF Actors
    <3>2. PICK z \in batch : z.seq = last
      BY <2>4 DEF Top
    <3>3. \A x \in batch : x.seq <= last
      BY <2>4 DEF Top
    <3>4. \A x \in batch : x \in outbox /\ x.seq > cursor
      BY DEF Pruned
    <3>5. last > cursor
      BY <3>2, <3>4
    <3>6. ASSUME NEW d \in Docs PROVE Settled(last, d)' \/ Due(d)'
      <4>1. CASE Fits(d) \/ late[d] # "no"
        BY <2>1, <4>1 DEF Settled, Fits
      <4>2. CASE Above(cursor, d)
        <5>1. PICK t \in outbox : t.seq > cursor /\ d \in Names(t.key)
          BY <4>2 DEF Above
        <5>2. t \in Pruned
          BY <5>1 DEF Pruned
        <5>3. CASE t \in batch
          BY <3>1, <5>1, <5>3 DEF Due
        <5>4. CASE t \notin batch
          <6>1. z.seq < t.seq
            BY <2>4, <5>2, <5>4
          <6>2. t.seq > last
            BY <1>0, <3>2, <3>4, <6>1
          <6> QED
            BY <2>4, <5>1, <6>2 DEF Settled, Above
        <5> QED
          BY <5>3, <5>4
      <4> QED
        BY <2>2, <4>1, <4>2 DEF Settled
    <3>7. BatchOK'
      <4>1. batch \subseteq {t \in outbox : t.seq > cursor /\ t.seq <= last}
        BY <3>3, <3>4
      <4> QED
        BY <2>1, <2>4, <3>1, <3>5, <3>6, <4>1 DEF BatchOK
    <3>8. RowsKnown' /\ NothingForgotten'
      BY <2>1, <2>2, <2>4 DEF Inv, RowsKnown, NothingForgotten, Right, Owed
    <3> QED
      BY <3>1, <3>7, <3>8 DEF Inv, Unmarked, ScanOK, RestOK
  <2>5. \/ \E batch \in SUBSET Pruned, last \in 1..MaxSeq, full \in BOOLEAN :
              /\ \A x \in batch, y \in Pruned \ batch : x.seq < y.seq
              /\ batch # {} /\ Top(last, {t.seq : t \in batch})
              /\ actor' = [actor EXCEPT !.phase = "apply", !.batch = batch, !.seen = {},
                                        !.last = last, !.full = full]
              /\ UNCHANGED outbox
        \/ /\ outbox' = outbox \/ outbox' = Pruned
           /\ \E ok \in BOOLEAN : EndDrain(ok)
    BY <1>2, Zenon DEF DrainRead
  <2> QED
    BY <2>3, <2>4, <2>5
<1>3. ASSUME NEW t \in actor.batch, Apply(t) PROVE Inv'
  <2>1. /\ actor.phase = "apply"
        /\ UNCHANGED <<stored, account, tx, outbox, cursor, index, marker>>
    BY <1>3 DEF Apply
  <2>2. /\ t \in outbox /\ t.seq > cursor /\ actor.last > cursor
        /\ actor.batch \subseteq {x \in outbox : x.seq > cursor /\ x.seq <= actor.last}
    BY <2>1 DEF Inv, BatchOK
  <2>3. t.key \in Docs \cup Accounts
    BY <1>0 DEF Actors, Rows
  <2> DEFINE fresh == {d \in Names(t.key) : t.key \in Accounts \/ d \notin actor.seen}
  <2>4. /\ pending' = [d \in Docs |-> IF d \notin fresh THEN pending[d]
                                     ELSE IF t.key \in Docs THEN stored[d] ELSE 0]
        /\ late' = [d \in Docs |-> IF d \in fresh THEN "no" ELSE late[d]]
    BY <1>3 DEF Apply
  <2>5. /\ actor'.batch = actor.batch \ {t} /\ actor'.last = actor.last
        /\ actor'.seen = actor.seen \cup (Names(t.key) \cap {t.key})
        /\ actor'.phase = IF actor.batch = {t} THEN "commit" ELSE "apply"
    BY <1>0, <1>3, <2>1 DEF Apply, Actors
  <2>6. \A d \in Docs : d \in fresh => Fits(d)'
    <3>1. ASSUME NEW d \in Docs, d \in fresh, t.key \in Accounts PROVE Fits(d)'
      <4>1. Owner[d] = t.key /\ t.key \notin Docs
        <5>1. t.key \notin Docs
          BY <3>1, SearchAssumption
        <5>2. Names(t.key) = DocsOf(t.key) /\ d \in Names(t.key)
          BY <3>1, <5>1 DEF Names
        <5> QED
          BY <5>1, <5>2 DEF DocsOf
      <4>2. account[t.key] # "active"
        BY <2>2, <3>1 DEF Inv, RowsKnown
      <4> QED
        BY <2>1, <2>4, <3>1, <4>1, <4>2 DEF Fits
    <3>2. ASSUME NEW d \in Docs, d \in fresh, t.key \in Docs PROVE Fits(d)'
      BY <2>1, <2>4, <3>2 DEF Fits
    <3> QED
      BY <2>3, <3>1, <3>2
  <2>7. ASSUME NEW d \in Docs, d \notin fresh PROVE Settled(actor.last, d)' \/ Due(d)'
    <3>1. Settled(actor.last, d) \/ Due(d)
      BY <2>1 DEF Inv, BatchOK
    <3>2. Settled(actor.last, d) => Settled(actor.last, d)'
      BY <2>1, <2>4, <2>5, <2>7 DEF Settled, Fits, Above
    <3>3. ASSUME Due(d) PROVE Due(d)'
      <4>1. PICK x \in actor.batch :
              d \in Names(x.key) /\ (x.key \in Accounts \/ d \notin actor.seen)
        BY <3>3 DEF Due
      <4>2. x # t
        BY <2>7, <4>1
      <4>3. d \notin actor.seen => d \notin actor'.seen
        BY <2>3, <2>5, <2>7, NamesType
      <4> QED
        BY <2>5, <4>1, <4>2, <4>3 DEF Due
    <3> QED
      BY <3>1, <3>2, <3>3
  <2>8. BatchOK'
    <3>1. \A d \in Docs : Settled(actor.last, d)' \/ Due(d)'
      BY <2>6, <2>7 DEF Settled
    <3> QED
      BY <2>1, <2>2, <2>5, <3>1 DEF BatchOK
  <2>9. NothingForgotten'
    <3>1. \A d \in Docs : d \in fresh => Owed(d)'
      BY <2>1, <2>2 DEF Owed
    <3>2. \A d \in Docs : Right(d) \/ Owed(d) \/ late[d] # "no"
      BY <2>1 DEF Inv, NothingForgotten, Seeded
    <3>3. \A d \in Docs : d \notin fresh => Right(d)' \/ Owed(d)' \/ late'[d] # "no"
      BY <2>1, <2>4, <3>2 DEF Right, Owed
    <3> QED
      BY <3>1, <3>3 DEF NothingForgotten
  <2>10. RowsKnown'
    BY <2>1 DEF Inv, RowsKnown
  <2> QED
    BY <2>5, <2>8, <2>9, <2>10 DEF Inv, Unmarked, ScanOK, RestOK
<1>4. CASE ApplyFails
  BY <1>1, <1>4, GiveUp, RestInv DEF ApplyFails
<1>5. CASE Commit
  <2>1. /\ actor.phase = "commit"
        /\ UNCHANGED <<stored, account, tx, outbox, cursor, pending, marker, late>>
    BY <1>5 DEF Commit
  <2>2. CASE EndDrain(FALSE) /\ UNCHANGED index
    BY <1>1, <2>1, <2>2, GiveUp, RestInv
  <2>3. CASE index' = pending /\ To("advance")
    <3>1. actor'.phase = "advance" /\ actor'.batch = actor.batch /\ actor'.last = actor.last
      BY <1>0, <2>3 DEF To, Actors
    <3>2. \A d \in Docs : Settled(actor.last, d)
      BY <2>1 DEF Inv, BatchOK, Due
    <3>3. \A d \in Docs : Settled(actor.last, d)'
      BY <2>1, <3>1, <3>2 DEF Settled, Fits, Above
    <3>4. BatchOK'
      BY <2>1, <2>3, <3>1, <3>3 DEF Inv, BatchOK
    <3>5. \A d \in Docs : Settled(cursor, d)
      BY <2>1, GiveUp
    <3>6. NothingForgotten'
      BY <2>1, <2>3, <3>5 DEF NothingForgotten, Settled, Fits, Above, Right, Owed
    <3>7. RowsKnown'
      BY <2>1 DEF Inv, RowsKnown
    <3> QED
      BY <3>1, <3>4, <3>6, <3>7 DEF Inv, Unmarked, ScanOK, RestOK
  <2> QED
    BY <1>5, <2>2, <2>3 DEF Commit
<1>6. CASE Advance
  <2>1. /\ actor.phase = "advance"
        /\ UNCHANGED <<stored, account, tx, outbox, index, pending, marker, late>>
    BY <1>6 DEF Advance
  <2>2. CASE EndDrain(FALSE) /\ UNCHANGED cursor
    BY <1>1, <2>1, <2>2, GiveUp, RestInv
  <2>3. CASE cursor' = actor.last /\ To("prune")
    <3>1. actor'.phase = "prune"
      BY <1>0, <2>3 DEF To, Actors
    <3>2. index = pending /\ \A d \in Docs : Settled(actor.last, d)
      BY <2>1 DEF Inv, BatchOK, Due
    <3>3. \A d \in Docs : Settled(cursor, d)'
      BY <2>1, <2>3, <3>2 DEF Settled, Fits, Above
    <3>4. NothingForgotten'
      BY <2>1, <3>2, <3>3 DEF NothingForgotten, Settled, Fits, Above, Right, Owed
    <3>5. RowsKnown'
      BY <2>1 DEF Inv, RowsKnown
    <3> QED
      BY <3>1, <3>3, <3>4, <3>5 DEF Inv, Unmarked, ScanOK, RestOK, BatchOK
  <2> QED
    BY <1>6, <2>2, <2>3 DEF Advance
<1>7. CASE Prune
  <2>1. actor'.phase \in {"drain", "wait"}
    BY <1>0, <1>1, <1>7 DEF Prune, To, Actors
  <2>2. Seeded /\ \A d \in Docs : Settled(cursor, d)
    BY <1>7 DEF Prune, Seeded, Inv, RestOK
  <2> QED
    BY <1>7, <2>1, <2>2, RestInv DEF Prune
<1>8. ASSUME Wake \/ \E a \in Accounts : Answer(a) PROVE Inv'
  <2>1. actor'.phase = "drain"
    BY <1>0, <1>8, RestingType DEF Wake, Answer
  <2>2. Seeded /\ \A d \in Docs : Settled(cursor, d)
    BY <1>8 DEF Wake, Answer, Seeded, Inv, RestOK
  <2> QED
    BY <1>8, <2>1, <2>2, RestInv DEF Wake, Answer
<1> QED
  BY <1>2, <1>3, <1>4, <1>5, <1>6, <1>7, <1>8 DEF Drain

LEMMA AroundInv ==
  ASSUME TypeOK, Inv,
         \/ \E a \in Accounts : SeedTakes(a) \/ TakeFlush(a)
         \/ Reindex
         \/ \E enabled \in BOOLEAN : Restart(enabled)
  PROVE  Inv'
<1> USE DEF store
<1>0. actor \in Actors
  BY DEF TypeOK
<1>1. ASSUME NEW a \in Accounts, SeedTakes(a) PROVE Inv'
  BY <1>1, Unaffected DEF SeedTakes
<1>2. ASSUME NEW a \in Accounts, TakeFlush(a) PROVE Inv'
  <2>1. actor'.phase = "drain"
    BY <1>0, <1>2 DEF TakeFlush, Actors
  <2>2. Seeded /\ \A d \in Docs : Settled(cursor, d)
    BY <1>2 DEF TakeFlush, Seeded, Inv, RestOK
  <2> QED
    BY <1>2, <2>1, <2>2, RestInv DEF TakeFlush
<1>3. CASE Reindex
  <2>1. /\ marker' = FALSE
        /\ UNCHANGED <<stored, account, tx, outbox, cursor, index, pending, actor, late>>
    BY <1>3 DEF Reindex
  <2>2. \A d \in Docs : (Fits(d)' <=> Fits(d)) /\ (Right(d)' <=> Right(d)) /\ (Owed(d)' <=> Owed(d))
                       /\ (Due(d)' <=> Due(d))
    BY <2>1 DEF Fits, Right, Owed, Due
  <2>3. \A d \in Docs : \A n : Settled(n, d) => Settled(n, d)'
    BY <2>1, <2>2 DEF Settled, Above
  <2>4. RowsKnown' /\ Unmarked'
    BY <2>1 DEF Inv, RowsKnown, Unmarked
  <2>5. ScanOK'
    BY <2>1, <2>3 DEF Inv, ScanOK
  <2>6. RestOK'
    BY <2>1, <2>3 DEF Inv, RestOK
  <2>7. BatchOK'
    BY <2>1, <2>2, <2>3 DEF Inv, BatchOK
  <2>8. NothingForgotten'
    BY <2>1, <2>2 DEF Inv, NothingForgotten, Seeded
  <2> QED
    BY <2>4, <2>5, <2>6, <2>7, <2>8 DEF Inv
<1>4. ASSUME NEW enabled \in BOOLEAN, Restart(enabled) PROVE Inv'
  <2>1. /\ tx' = {} /\ pending' = index'
        /\ UNCHANGED <<stored, account, outbox, cursor, marker, late>>
    BY <1>4 DEF Restart
  <2>2. actor'.phase = IF ~enabled THEN "off" ELSE IF marker THEN "drain" ELSE "seed"
    BY <1>0, <1>4, RestingType DEF Restart
  <2>3. marker => index' = index
    BY <1>4 DEF Restart
  <2>4. RowsKnown'
    BY <2>1 DEF Inv, RowsKnown
  <2>5. marker => \A d \in Docs : Right(d)' \/ Owed(d)' \/ late'[d] # "no"
    BY <2>1, <2>3 DEF Inv, NothingForgotten, Seeded, Right, Owed
  <2>6. NothingForgotten'
    BY <2>1, <2>2, <2>5 DEF NothingForgotten, Seeded
  <2>7. marker => \A d \in Docs : Settled(cursor, d)'
    BY <2>1, <2>5 DEF Settled, Fits, Above, Right, Owed
  <2> QED
    BY <2>1, <2>2, <2>4, <2>6, <2>7 DEF Inv, Unmarked, ScanOK, RestOK, BatchOK
<1> QED
  BY <1>1, <1>2, <1>3, <1>4

LEMMA NextInv == ASSUME TypeOK, Inv, [Next]_vars PROVE Inv'
<1>1. CASE UNCHANGED vars
  BY <1>1, Unaffected DEF vars
<1>2. CASE Work
  BY <1>2, WriteQuietInv, CommitInv, SeedInv, DrainInv, AroundInv DEF Work
<1> QED
  BY <1>1, <1>2, AroundInv DEF Next

\* Whatever fails and wherever the process dies, the durable cursor never passes a
\* change the last Tantivy commit lacks, unless the change was committed below a row
\* the actor had already read.
THEOREM ForgetsNothing == Spec => []NothingForgotten
<1>1. Init => Inv
  BY InitInv
<1>2. TypeOK /\ Inv /\ [Next]_vars => Inv'
  BY NextInv
<1>3. Inv => NothingForgotten
  BY DEF Inv
<1> QED
  BY <1>1, <1>2, <1>3, TypeCorrect, PTL DEF Spec

-----------------------------------------------------------------------------
(* A flush leaves nothing behind *)

\* An account that is being deleted has no write under way, and one statement at a time;
\* after the last of them it has no event.  Only then is a flush asked for.
DeletedIsEmpty ==
  \A a \in Accounts :
    /\ account[a] # "active" => \A t \in tx : t.key \notin DocsOf(a)
    /\ \A t, u \in tx : t.key = a /\ u.key = a => t = u
    /\ account[a] = "deleted" => /\ \A t \in tx : t.key # a
                                 /\ \A d \in DocsOf(a) : stored[d] = 0
    /\ flush[a] # "none" => account[a] = "deleted"

\* Every visible row that derives d is at or below n.
Below(n, d) == \A t \in outbox : d \in Names(t.key) => t.seq <= n

\* A drain for a flush that found less than a full batch has read every row that derives
\* a document of the account.
FlushHasRead ==
  actor.serving # NoOne =>
    /\ account[actor.serving] = "deleted"
    /\ ~actor.full => \A d \in DocsOf(actor.serving) :
         /\ actor.phase \in {"apply", "commit", "advance"} => Below(actor.last, d)
         /\ actor.phase = "prune" => Below(cursor, d)

\* The drain of the flush of a has succeeded.
Flushed(a) ==
  flush[a] = "done" \/ (actor.phase = "wait" /\ actor.serving = a /\ actor.ok)

\* Neither the committed index nor the writer has the document, and no row to come
\* derives it.
Gone(d) ==
  /\ Below(cursor, d)
  /\ actor.phase \in {"scan", "settle"} => Below(actor.watermark, d)
  /\ index[d] = 0 \/ late[d] # "no"
  /\ pending[d] = 0 \/ late[d] # "no"

FlushedStaysGone == \A a \in Accounts : Flushed(a) => \A d \in DocsOf(a) : Gone(d)

LEMMA InitFlush == ASSUME Init PROVE DeletedIsEmpty /\ FlushHasRead /\ FlushedStaysGone
<1>1. actor.phase = "seed" /\ actor.serving = NoOne
  BY DEF Init, Started
<1>2. NoOne \notin Accounts
  BY SearchAssumption
<1> QED
  BY <1>1, <1>2 DEF Init, DeletedIsEmpty, FlushHasRead, FlushedStaysGone, Flushed

\* What the actor's record says of a flush when it starts again, and when a drain ends.
LEMMA RestingFields ==
  ASSUME actor \in Actors, NEW p \in {"off", "stopped", "seed", "drain", "wait"}
  PROVE  /\ Started(p).phase = p /\ Started(p).serving = NoOne
         /\ Resting(p).phase = p /\ Resting(p).serving = NoOne
         /\ \A ok \in BOOLEAN : EndDrain(ok) => /\ actor'.phase = "wait" /\ actor'.ok = ok
                                                /\ actor'.serving = actor.serving
<1>1. Started(p).phase = p /\ Started(p).serving = NoOne
  BY DEF Started
<1>2. Resting(p).phase = p /\ Resting(p).serving = NoOne
  BY DEF Started, Resting
<1>3. ASSUME NEW ok \in BOOLEAN, EndDrain(ok)
      PROVE  actor'.phase = "wait" /\ actor'.ok = ok /\ actor'.serving = actor.serving
  <2> DEFINE w == Resting("wait")
  <2>1. actor' = [w EXCEPT !.serving = actor.serving, !.ok = ok]
    BY <1>3 DEF EndDrain
  <2>2. w \in Actors /\ w.phase = "wait"
    BY RestingType
  <2> HIDE DEF w
  <2> QED
    BY <2>1, <2>2 DEF Actors
<1> QED
  BY <1>1, <1>2, <1>3

\* The documents of an account are what its rows name.
LEMMA DocsOfNames ==
  ASSUME NEW a \in Accounts, NEW d \in DocsOf(a), NEW key \in Docs \cup Accounts
  PROVE  d \in Docs /\ Owner[d] = a /\ (d \in Names(key) <=> key = d \/ key = a)
<1>1. d \in Docs /\ Owner[d] = a /\ Accounts \cap Docs = {}
  BY SearchAssumption DEF DocsOf
<1>2. CASE key \in Docs
  BY <1>1, <1>2 DEF Names
<1>3. CASE key \notin Docs
  BY <1>1, <1>3 DEF Names, DocsOf
<1> QED
  BY <1>1, <1>2, <1>3

-----------------------------------------------------------------------------
(* The writes and a flushed account *)

\* A step of a write that has no row to add leaves a flush alone.
LEMMA FlushQuiet ==
  ASSUME TypeOK, FlushHasRead, FlushedStaysGone,
         UNCHANGED <<outbox, cursor, index, pending, actor, flush, late>>,
         \A a \in Accounts : account[a] = "deleted" => account'[a] = "deleted"
  PROVE  FlushHasRead' /\ FlushedStaysGone'
<1>1. actor.serving \in Accounts \cup {NoOne}
  BY DEF TypeOK, Actors
<1>2. FlushHasRead'
  BY <1>1 DEF FlushHasRead, Below
<1>3. FlushedStaysGone'
  BY DEF FlushedStaysGone, Flushed, Gone, Below
<1> QED
  BY <1>2, <1>3

\* The row of a write does not name a document of a deleted account.
LEMMA FlushAppend ==
  ASSUME TypeOK, RowsKnown, DeletedIsEmpty, FlushHasRead, FlushedStaysGone, NEW t \in tx,
         CommitWrite(t) \/ CommitDelete(t)
  PROVE  DeletedIsEmpty' /\ FlushHasRead' /\ FlushedStaysGone'
<1>1. t \in Rows /\ t.key \in Docs \cup Accounts
  BY DEF TypeOK, Rows
<1>2. /\ UNCHANGED <<cursor, index, pending, actor>>
      /\ outbox' = outbox \cup {t} /\ tx' = tx \ {t}
      /\ \A d \in Docs : d \notin Names(t.key) => stored'[d] = stored[d] /\ late'[d] = late[d]
  BY AppendEffect
<1>3. ASSUME NEW a \in Accounts, account[a] = "deleted", NEW d \in DocsOf(a)
      PROVE  d \in Docs /\ d \notin Names(t.key)
  BY <1>1, <1>3, DocsOfNames DEF DeletedIsEmpty
<1>4. CASE UNCHANGED <<account, flush>>
  <2>1. DeletedIsEmpty'
    <3>1. \A a \in Accounts : account[a] = "deleted" => \A d \in DocsOf(a) : stored'[d] = 0
      BY <1>2, <1>3 DEF DeletedIsEmpty
    <3> QED
      BY <1>2, <1>4, <3>1 DEF DeletedIsEmpty
  <2>2. FlushHasRead'
    <3>1. actor.serving \in Accounts \cup {NoOne}
      BY DEF TypeOK, Actors
    <3> QED
      BY <1>2, <1>3, <1>4, <3>1 DEF FlushHasRead, Below
  <2>3. FlushedStaysGone'
    <3> SUFFICES ASSUME NEW a \in Accounts, Flushed(a), NEW d \in DocsOf(a) PROVE Gone(d)'
      BY <1>2, <1>4 DEF FlushedStaysGone, Flushed
    <3>1. account[a] = "deleted"
      BY SearchAssumption DEF Flushed, DeletedIsEmpty, FlushHasRead
    <3>2. Gone(d) /\ d \in Docs /\ d \notin Names(t.key)
      BY <1>3, <3>1 DEF FlushedStaysGone
    <3> QED
      BY <1>2, <3>2 DEF Gone, Below
  <2> QED
    BY <2>1, <2>2, <2>3
<1>5. CASE /\ CommitDelete(t) /\ {d \in DocsOf(t.key) : stored[d] # 0} = {}
           /\ account' = [account EXCEPT ![t.key] = "deleted"]
           /\ flush' = [flush EXCEPT ![t.key] =
                          IF actor.phase \in {"off", "stopped"} THEN "absent" ELSE "asked"]
           /\ UNCHANGED stored
  <2> DEFINE k == t.key
  <2>1. k \in Accounts /\ account[k] # "active" /\ account[k] # "deleted"
    BY <1>1, <1>5 DEF CommitDelete, RowsKnown, DeletedIsEmpty
  <2>2. /\ account'[k] = "deleted" /\ \A a \in Accounts : a # k => account'[a] = account[a]
        /\ flush'[k] \in {"absent", "asked"} /\ \A a \in Accounts : a # k => flush'[a] = flush[a]
    BY <1>5, <2>1 DEF TypeOK
  <2> HIDE DEF k
  <2>3. DeletedIsEmpty'
    <3>1. ASSUME NEW a \in Accounts, a # k
          PROVE  /\ account'[a] # "active" => \A x \in tx' : x.key \notin DocsOf(a)
                 /\ \A x, y \in tx' : x.key = a /\ y.key = a => x = y
                 /\ account'[a] = "deleted" => /\ \A x \in tx' : x.key # a
                                              /\ \A d \in DocsOf(a) : stored'[d] = 0
                 /\ flush'[a] # "none" => account'[a] = "deleted"
      BY <1>2, <1>5, <2>2, <3>1 DEF DeletedIsEmpty
    <3>2. \A x \in tx' : x.key \notin DocsOf(k) /\ x.key # k
      BY <1>2, <2>1 DEF DeletedIsEmpty, k
    <3>3. \A d \in DocsOf(k) : stored'[d] = 0
      BY <1>5 DEF k
    <3> QED
      BY <2>2, <3>1, <3>2, <3>3 DEF DeletedIsEmpty
  <2>4. FlushHasRead'
    <3>1. actor.serving \in Accounts \cup {NoOne}
      BY DEF TypeOK, Actors
    <3>2. actor.serving # NoOne => account[actor.serving] = "deleted"
      BY DEF FlushHasRead
    <3>3. actor.serving # NoOne => account'[actor.serving] = "deleted"
      BY <2>1, <2>2, <3>1, <3>2
    <3>4. actor.serving # NoOne => \A d \in DocsOf(actor.serving) : d \notin Names(t.key)
      BY <1>3, <3>1, <3>2
    <3> QED
      BY <1>2, <3>3, <3>4 DEF FlushHasRead, Below
  <2>5. FlushedStaysGone'
    <3> SUFFICES ASSUME NEW a \in Accounts, Flushed(a)', NEW d \in DocsOf(a) PROVE Gone(d)'
      BY DEF FlushedStaysGone
    <3>1. Flushed(a)
      BY <1>2, <2>2 DEF Flushed
    <3>2. account[a] = "deleted"
      BY <3>1, SearchAssumption DEF Flushed, DeletedIsEmpty, FlushHasRead
    <3>3. Gone(d) /\ d \in Docs /\ d \notin Names(t.key)
      BY <1>3, <3>1, <3>2 DEF FlushedStaysGone
    <3> QED
      BY <1>2, <3>3 DEF Gone, Below
  <2> QED
    BY <2>3, <2>4, <2>5
<1> QED
  BY <1>4, <1>5 DEF CommitWrite, CommitDelete

LEMMA FlushWrites ==
  ASSUME TypeOK, RowsKnown, DeletedIsEmpty, FlushHasRead, FlushedStaysGone,
         \/ \E d \in Docs : BeginWrite(d)
         \/ \E a \in Accounts : BeginDelete(a) \/ StartDelete(a)
         \/ \E t \in tx : CommitWrite(t) \/ CommitDelete(t) \/ Rollback(t)
  PROVE  DeletedIsEmpty' /\ FlushHasRead' /\ FlushedStaysGone'
<1>1. Accounts \cap Docs = {} /\ Owner \in [Docs -> Accounts]
  BY SearchAssumption
<1>2. ASSUME NEW d \in Docs, BeginWrite(d)
      PROVE  DeletedIsEmpty' /\ FlushHasRead' /\ FlushedStaysGone'
  <2>1. /\ tx' = tx \cup {[seq |-> seq + 1, key |-> d]}
        /\ account[Owner[d]] = "active"
        /\ UNCHANGED <<stored, account, outbox, cursor, index, pending, actor, flush, late>>
    BY <1>2 DEF BeginWrite, Begin
  <2> DEFINE n == [seq |-> seq + 1, key |-> d]
  <2>2. n.key = d /\ tx' = tx \cup {n}
    BY <2>1
  <2> HIDE DEF n
  <2>3. \A a \in Accounts : d # a /\ (account[a] # "active" => d \notin DocsOf(a))
    BY <1>1, <2>1 DEF DocsOf
  <2>4. DeletedIsEmpty'
    BY <2>1, <2>2, <2>3 DEF DeletedIsEmpty
  <2> QED
    BY <2>1, <2>4, FlushQuiet
<1>3. ASSUME NEW b \in Accounts, BeginDelete(b)
      PROVE  DeletedIsEmpty' /\ FlushHasRead' /\ FlushedStaysGone'
  <2>1. /\ tx' = tx \cup {[seq |-> seq + 1, key |-> b]}
        /\ account[b] = "deleting" /\ \A t \in tx : t.key # b
        /\ UNCHANGED <<stored, account, outbox, cursor, index, pending, actor, flush, late>>
    BY <1>3 DEF BeginDelete, Begin
  <2> DEFINE n == [seq |-> seq + 1, key |-> b]
  <2>2. n.key = b /\ tx' = tx \cup {n}
    BY <2>1
  <2> HIDE DEF n
  <2>3. \A a \in Accounts : b \notin DocsOf(a)
    BY <1>1 DEF DocsOf
  <2>4. DeletedIsEmpty'
    BY <2>1, <2>2, <2>3 DEF DeletedIsEmpty
  <2> QED
    BY <2>1, <2>4, FlushQuiet
<1>4. ASSUME NEW b \in Accounts, StartDelete(b)
      PROVE  DeletedIsEmpty' /\ FlushHasRead' /\ FlushedStaysGone'
  <2>1. /\ account[b] = "active" /\ account'[b] = "deleting"
        /\ \A a \in Accounts : a # b => account'[a] = account[a]
        /\ \A t \in tx : t.key \notin DocsOf(b)
        /\ UNCHANGED <<stored, tx, outbox, cursor, index, pending, actor, flush, late>>
    BY <1>4 DEF StartDelete, TypeOK
  <2>2. DeletedIsEmpty'
    BY <2>1 DEF DeletedIsEmpty
  <2> QED
    BY <2>1, <2>2, FlushQuiet
<1>5. ASSUME NEW t \in tx, Rollback(t)
      PROVE  DeletedIsEmpty' /\ FlushHasRead' /\ FlushedStaysGone'
  <2>1. /\ tx' = tx \ {t}
        /\ UNCHANGED <<stored, account, outbox, cursor, index, pending, actor, flush, late>>
    BY <1>5 DEF Rollback
  <2>2. DeletedIsEmpty'
    BY <2>1 DEF DeletedIsEmpty
  <2> QED
    BY <2>1, <2>2, FlushQuiet
<1> QED
  BY <1>2, <1>3, <1>4, <1>5, FlushAppend

-----------------------------------------------------------------------------
(* The actor and a flushed account *)

\* A step of the actor deletes nothing, and answers only for a deleted account.
LEMMA FlushStore ==
  ASSUME DeletedIsEmpty, UNCHANGED <<stored, account>>, tx' \subseteq tx,
         \A a \in Accounts : flush'[a] # "none" => account[a] = "deleted"
  PROVE  DeletedIsEmpty'
BY DEF DeletedIsEmpty

\* A document stays gone while the actor neither reads nor writes it.
LEMMA GoneKept ==
  ASSUME NEW d, Gone(d), outbox' \subseteq outbox, cursor' = cursor,
         index'[d] = index[d], pending'[d] = pending[d], late'[d] = late[d],
         actor'.phase \in {"scan", "settle"} =>
           actor.phase \in {"scan", "settle"} /\ actor'.watermark = actor.watermark
  PROVE  Gone(d)'
BY DEF Gone, Below

\* A document of a flushed account, which has no text, stays gone.
LEMMA SeedGone ==
  ASSUME TypeOK, Inv, NEW d \in Docs, Gone(d), stored[d] = 0, Seed
  PROVE  Gone(d)'
<1> USE DEF store
<1>0. actor \in Actors
  BY DEF TypeOK
<1>1. ASSUME SeedFails, UNCHANGED <<outbox, cursor, index, pending, late>> PROVE Gone(d)'
  <2>1. actor'.phase = "stopped"
    BY <1>0, <1>1, RestingFields DEF SeedFails
  <2> QED
    BY <1>1, <2>1, GoneKept
<1>2. CASE SeedStart
  <2>1. CASE SeedFails /\ UNCHANGED <<index, pending, late>>
    BY <1>1, <1>2, <2>1 DEF SeedStart
  <2>2. CASE ~(SeedFails /\ UNCHANGED <<index, pending, late>>)
    <3>1. PICK top \in 0..MaxSeq :
            /\ Top(top, {t.seq : t \in outbox})
            /\ actor' = [actor EXCEPT !.phase = "scan", !.after = 0, !.watermark = top]
      BY <1>2, <2>2 DEF SeedStart
    <3>2. /\ pending' = [e \in Docs |-> 0] /\ index' = pending'
          /\ UNCHANGED <<outbox, cursor>>
      BY <1>2, <2>2 DEF SeedStart
    <3>3. actor'.watermark = top
      BY <1>0, <3>1 DEF Actors
    <3>4. \A t \in outbox : t.seq <= top
      BY <3>1 DEF Top
    <3>5. pending'[d] = 0 /\ index'[d] = 0
      BY <3>2
    <3> QED
      BY <3>2, <3>3, <3>4, <3>5 DEF Gone, Below
  <2> QED
    BY <2>1, <2>2
<1>3. CASE SeedBatch
  <2>1. CASE SeedFails /\ UNCHANGED <<index, pending>>
    BY <1>1, <1>3, <2>1 DEF SeedBatch
  <2>2. CASE ~(SeedFails /\ UNCHANGED <<index, pending>>)
    <3>1. PICK batch \in SUBSET Unscanned, last \in Docs \cup {0} :
            /\ pending' = [e \in Docs |-> IF e \in batch THEN stored[e] ELSE pending[e]]
            /\ index' = pending'
            /\ actor' = IF Cardinality(batch) < BatchSize
                        THEN [actor EXCEPT !.phase = "settle"] ELSE [actor EXCEPT !.after = last]
      BY <1>3, <2>2 DEF SeedBatch
    <3>2. actor'.watermark = actor.watermark
      BY <1>0, <3>1 DEF Actors
    <3>3. d \notin batch
      BY DEF Unscanned
    <3>4. pending'[d] = pending[d] /\ index'[d] = pending[d]
      BY <3>1, <3>3
    <3>5. actor.phase = "scan" /\ UNCHANGED <<outbox, cursor, late>>
      BY <1>3 DEF SeedBatch
    <3> QED
      BY <3>2, <3>4, <3>5 DEF Gone, Below
  <2> QED
    BY <2>1, <2>2
<1>4. CASE SeedSettle
  <2>1. CASE SeedFails /\ UNCHANGED cursor
    BY <1>1, <1>4, <2>1 DEF SeedSettle
  <2>2. CASE cursor' = actor.watermark /\ To("trim")
    <3>1. actor'.phase = "trim"
      BY <1>0, <2>2 DEF To, Actors
    <3> QED
      BY <1>4, <2>2, <3>1 DEF SeedSettle, Gone, Below
  <2> QED
    BY <1>4, <2>1, <2>2 DEF SeedSettle
<1>5. CASE SeedTrim
  <2>1. CASE SeedFails /\ UNCHANGED outbox
    BY <1>1, <1>5, <2>1 DEF SeedTrim
  <2>2. CASE outbox' = Pruned /\ To("mark")
    <3>1. actor'.phase = "mark"
      BY <1>0, <2>2 DEF To, Actors
    <3> QED
      BY <1>5, <2>2, <3>1, GoneKept DEF SeedTrim, Pruned
  <2> QED
    BY <1>5, <2>1, <2>2 DEF SeedTrim
<1>6. CASE SeedMark
  <2>1. actor'.phase = "drain"
    BY <1>0, <1>6, RestingFields DEF SeedMark
  <2> QED
    BY <1>6, <2>1, GoneKept DEF SeedMark
<1> QED
  BY <1>2, <1>3, <1>4, <1>5, <1>6 DEF Seed

LEMMA DrainGone ==
  ASSUME TypeOK, Inv, NEW d \in Docs, Gone(d), stored[d] = 0, Drain
  PROVE  Gone(d)'
<1> USE DEF store
<1>0. actor \in Actors
  BY DEF TypeOK
<1>1. \A ok \in BOOLEAN : EndDrain(ok) => actor'.phase = "wait"
  BY <1>0, RestingFields
<1>2. CASE DrainRead
  <2>1. outbox' \subseteq outbox /\ UNCHANGED <<cursor, index, pending, late>>
    BY <1>2 DEF DrainRead, Pruned
  <2>2. actor'.phase \in {"apply", "wait"}
    <3>1. \/ \E batch \in SUBSET Pruned, last \in 1..MaxSeq, full \in BOOLEAN :
                actor' = [actor EXCEPT !.phase = "apply", !.batch = batch, !.seen = {},
                                       !.last = last, !.full = full]
          \/ \E ok \in BOOLEAN : EndDrain(ok)
      BY <1>2, Zenon DEF DrainRead
    <3>2. ASSUME NEW batch, NEW last, NEW full,
                 actor' = [actor EXCEPT !.phase = "apply", !.batch = batch, !.seen = {},
                                        !.last = last, !.full = full]
          PROVE  actor'.phase = "apply"
      BY <1>0, <3>2 DEF Actors
    <3> QED
      BY <1>1, <3>1, <3>2
  <2> QED
    BY <2>1, <2>2, GoneKept
<1>3. ASSUME NEW t \in actor.batch, Apply(t) PROVE Gone(d)'
  <2>1. /\ actor.phase = "apply" /\ UNCHANGED <<outbox, cursor, index>>
        /\ t \in outbox /\ t.seq > cursor /\ t.seq \in Int /\ cursor \in Int
    BY <1>3 DEF Apply, Inv, BatchOK, TypeOK, Rows
  <2>2. d \notin Names(t.key)
    BY <2>1 DEF Gone, Below
  <2>3. pending'[d] = pending[d] /\ late'[d] = late[d]
    BY <1>3, <2>2 DEF Apply
  <2>4. actor'.phase \in {"apply", "commit"}
    BY <1>0, <1>3, <2>1 DEF Apply, Actors
  <2> QED
    BY <2>1, <2>3, <2>4, GoneKept
<1>4. CASE ApplyFails
  BY <1>1, <1>4, GoneKept DEF ApplyFails
<1>5. CASE Commit
  <2>1. /\ index' = pending \/ UNCHANGED index
        /\ UNCHANGED <<outbox, cursor, pending, late>>
    BY <1>5 DEF Commit
  <2>2. actor'.phase \in {"advance", "wait"}
    BY <1>0, <1>1, <1>5 DEF Commit, To, Actors
  <2> QED
    BY <2>1, <2>2 DEF Gone, Below
<1>6. CASE Advance
  <2>1. actor.last > cursor /\ actor.last \in Int /\ cursor \in Int /\ \A t \in outbox : t.seq \in Int
    BY <1>0, <1>6 DEF Advance, Inv, BatchOK, Actors, TypeOK, Rows
  <2>2. /\ cursor' = actor.last \/ cursor' = cursor
        /\ UNCHANGED <<outbox, index, pending, late>>
    BY <1>6 DEF Advance
  <2>3. actor'.phase \in {"prune", "wait"}
    BY <1>0, <1>1, <1>6 DEF Advance, To, Actors
  <2>4. Below(cursor, d)'
    BY <2>1, <2>2 DEF Gone, Below
  <2> QED
    BY <2>2, <2>3, <2>4 DEF Gone
<1>7. CASE Prune
  <2>1. actor'.phase \in {"drain", "wait"}
    BY <1>0, <1>1, <1>7 DEF Prune, To, Actors
  <2>2. outbox' \subseteq outbox /\ UNCHANGED <<cursor, index, pending, late>>
    BY <1>7 DEF Prune, Pruned
  <2> QED
    BY <2>1, <2>2, GoneKept
<1>8. ASSUME Wake \/ \E a \in Accounts : Answer(a) PROVE Gone(d)'
  <2>1. actor'.phase = "drain"
    BY <1>0, <1>8, RestingFields DEF Wake, Answer
  <2> QED
    BY <1>8, <2>1, GoneKept DEF Wake, Answer
<1> QED
  BY <1>2, <1>3, <1>4, <1>5, <1>6, <1>7, <1>8 DEF Drain

LEMMA AroundGone ==
  ASSUME TypeOK, NEW d \in Docs, Gone(d),
         \/ \E a \in Accounts : SeedTakes(a) \/ TakeFlush(a)
         \/ Reindex
         \/ \E enabled \in BOOLEAN : Restart(enabled)
  PROVE  Gone(d)'
<1> USE DEF store
<1>0. actor \in Actors
  BY DEF TypeOK
<1>1. ASSUME NEW a \in Accounts, SeedTakes(a) PROVE Gone(d)'
  BY <1>1, GoneKept DEF SeedTakes
<1>2. ASSUME NEW a \in Accounts, TakeFlush(a) PROVE Gone(d)'
  <2>1. actor'.phase = "drain"
    BY <1>0, <1>2 DEF TakeFlush, Actors
  <2> QED
    BY <1>2, <2>1, GoneKept DEF TakeFlush
<1>3. CASE Reindex
  BY <1>3, GoneKept DEF Reindex
<1>4. ASSUME NEW enabled \in BOOLEAN, Restart(enabled) PROVE Gone(d)'
  <2>1. actor'.phase \in {"off", "drain", "seed"}
    BY <1>0, <1>4, RestingFields DEF Restart
  <2>2. /\ index'[d] = index[d] \/ index'[d] = 0
        /\ pending'[d] = index'[d]
        /\ UNCHANGED <<outbox, cursor, late>>
    BY <1>4 DEF Restart
  <2> QED
    BY <2>1, <2>2 DEF Gone, Below
<1> QED
  BY <1>1, <1>2, <1>3, <1>4

\* A drain that has read every row of the account leaves its documents gone.
LEMMA DrainedIsGone ==
  ASSUME TypeOK, Inv, NEW d \in Docs, stored[d] = 0, Below(cursor, d), Seeded,
         actor.phase \in {"drain", "prune"}
  PROVE  (index[d] = 0 \/ late[d] # "no") /\ (pending[d] = 0 \/ late[d] # "no")
<1>1. cursor \in Int /\ \A t \in outbox : t.seq \in Int
  BY DEF TypeOK, Rows
<1>2. ~Above(cursor, d) /\ ~Owed(d)
  BY <1>1 DEF Below, Above, Owed
<1>3. Settled(cursor, d)
  BY DEF Inv, RestOK
<1>4. Right(d) \/ Owed(d) \/ late[d] # "no"
  BY DEF Inv, NothingForgotten
<1> QED
  BY <1>2, <1>3, <1>4 DEF Settled, Fits, Right

\* The seed answers nobody: it drops requests, and serves none.
LEMMA SeedFlush ==
  ASSUME TypeOK, Inv, DeletedIsEmpty, FlushHasRead, FlushedStaysGone, Seed
  PROVE  DeletedIsEmpty' /\ FlushHasRead' /\ FlushedStaysGone'
<1> USE DEF store
<1>0. actor \in Actors
  BY DEF TypeOK
<1>1. /\ UNCHANGED <<stored, account, tx>>
      /\ \A a \in Accounts : flush'[a] \in {flush[a], "absent"} /\ (flush[a] = "none" => flush'[a] = "none")
  BY DEF Seed, SeedStart, SeedBatch, SeedSettle, SeedTrim, SeedMark, SeedFails, TypeOK
<1>2. /\ actor'.phase \in {"stopped", "scan", "settle", "trim", "mark", "drain"}
      /\ actor'.serving \in {actor.serving, NoOne}
  <2>1. SeedFails => actor'.phase = "stopped" /\ actor'.serving = NoOne
    BY <1>0, RestingFields DEF SeedFails
  <2>2. CASE SeedStart
    <3>1. \/ SeedFails
          \/ \E top : actor' = [actor EXCEPT !.phase = "scan", !.after = 0, !.watermark = top]
      BY <2>2 DEF SeedStart
    <3>2. ASSUME NEW top, actor' = [actor EXCEPT !.phase = "scan", !.after = 0, !.watermark = top]
          PROVE  actor'.phase = "scan" /\ actor'.serving = actor.serving
      BY <1>0, <3>2 DEF Actors
    <3> QED
      BY <2>1, <3>1, <3>2
  <2>3. CASE SeedBatch
    <3>1. \/ SeedFails
          \/ actor' = [actor EXCEPT !.phase = "settle"]
          \/ \E last : actor' = [actor EXCEPT !.after = last]
      BY <2>3 DEF SeedBatch
    <3>2. ASSUME NEW last, actor' = [actor EXCEPT !.after = last]
          PROVE  actor'.phase = actor.phase /\ actor'.serving = actor.serving
      BY <1>0, <3>2 DEF Actors
    <3>3. ASSUME actor' = [actor EXCEPT !.phase = "settle"]
          PROVE  actor'.phase = "settle" /\ actor'.serving = actor.serving
      BY <1>0, <3>3 DEF Actors
    <3>4. actor.phase = "scan"
      BY <2>3 DEF SeedBatch
    <3> QED
      BY <2>1, <3>1, <3>2, <3>3, <3>4
  <2>4. ASSUME NEW p \in {"trim", "mark"}, To(p) PROVE actor'.phase = p /\ actor'.serving = actor.serving
    BY <1>0, <2>4 DEF To, Actors
  <2>5. CASE SeedSettle
    BY <2>1, <2>4, <2>5 DEF SeedSettle
  <2>6. CASE SeedTrim
    BY <2>1, <2>4, <2>6 DEF SeedTrim
  <2>7. CASE SeedMark
    BY <1>0, <2>7, RestingFields DEF SeedMark
  <2> QED
    BY <2>2, <2>3, <2>5, <2>6, <2>7 DEF Seed
<1>3. DeletedIsEmpty'
  BY <1>1, FlushStore DEF DeletedIsEmpty
<1>4. FlushHasRead'
  BY <1>1, <1>2 DEF FlushHasRead
<1>5. FlushedStaysGone'
  <2> SUFFICES ASSUME NEW a \in Accounts, Flushed(a)', NEW d \in DocsOf(a) PROVE Gone(d)'
    BY DEF FlushedStaysGone
  <2>1. flush[a] = "done"
    BY <1>1, <1>2 DEF Flushed
  <2>2. d \in Docs /\ stored[d] = 0 /\ Gone(d)
    BY <2>1 DEF DeletedIsEmpty, FlushedStaysGone, Flushed, DocsOf
  <2> QED
    BY <2>2, SeedGone
<1> QED
  BY <1>3, <1>4, <1>5

\* What a step of the drain has to keep, but for the one that ends it.
LEMMA FlushCarries ==
  ASSUME TypeOK, Inv, DeletedIsEmpty, FlushHasRead, FlushedStaysGone, Drain,
         UNCHANGED <<stored, account, tx>>,
         \A a \in Accounts : flush'[a] # flush[a] => account[a] = "deleted",
         \A a \in Accounts : Flushed(a)' /\ ~Flushed(a) => \A d \in DocsOf(a) : Gone(d)'
  PROVE  DeletedIsEmpty' /\ FlushedStaysGone'
<1>1. DeletedIsEmpty'
  BY FlushStore DEF DeletedIsEmpty
<1>2. ASSUME NEW a \in Accounts, Flushed(a), NEW d \in DocsOf(a) PROVE Gone(d)'
  <2>1. account[a] = "deleted"
    BY <1>2, SearchAssumption DEF Flushed, DeletedIsEmpty, FlushHasRead
  <2>2. d \in Docs /\ stored[d] = 0 /\ Gone(d)
    BY <1>2, <2>1 DEF DeletedIsEmpty, FlushedStaysGone, DocsOf
  <2> QED
    BY <2>2, DrainGone
<1>3. FlushedStaysGone'
  BY <1>2 DEF FlushedStaysGone
<1> QED
  BY <1>1, <1>3

\* A drain that ends without an error has read every row of the account it serves.
LEMMA FlushEnds ==
  ASSUME TypeOK, Inv, DeletedIsEmpty, FlushHasRead, FlushedStaysGone, Drain,
         EndDrain(TRUE), actor.phase \in {"drain", "prune"}, outbox' \subseteq outbox,
         UNCHANGED <<stored, account, tx, cursor, index, pending, flush, late>>,
         actor.serving # NoOne => \A d \in DocsOf(actor.serving) : Below(cursor, d)
  PROVE  DeletedIsEmpty' /\ FlushHasRead' /\ FlushedStaysGone'
<1>1. actor \in Actors /\ NoOne \notin Accounts
  BY SearchAssumption DEF TypeOK
<1>2. actor'.phase = "wait" /\ actor'.serving = actor.serving
  BY <1>1, RestingFields
<1>3. FlushHasRead'
  BY <1>2 DEF FlushHasRead
<1>4. ASSUME NEW a \in Accounts, Flushed(a)', ~Flushed(a), NEW d \in DocsOf(a) PROVE Gone(d)'
  <2>1. actor.serving = a /\ actor.serving # NoOne
    BY <1>1, <1>2, <1>4 DEF Flushed
  <2>2. d \in Docs /\ stored[d] = 0 /\ Below(cursor, d)
    BY <2>1 DEF FlushHasRead, DeletedIsEmpty, DocsOf
  <2>3. (index[d] = 0 \/ late[d] # "no") /\ (pending[d] = 0 \/ late[d] # "no")
    BY <2>2, DrainedIsGone DEF Seeded
  <2> QED
    BY <1>2, <2>2, <2>3 DEF Gone, Below
<1>5. DeletedIsEmpty' /\ FlushedStaysGone'
  BY <1>4, FlushCarries
<1> QED
  BY <1>3, <1>5

LEMMA DrainFlush ==
  ASSUME TypeOK, Inv, DeletedIsEmpty, FlushHasRead, FlushedStaysGone, Drain
  PROVE  DeletedIsEmpty' /\ FlushHasRead' /\ FlushedStaysGone'
<1> USE DEF store
<1>0. actor \in Actors /\ NoOne \notin Accounts
  BY SearchAssumption DEF TypeOK
<1>1. \A ok \in BOOLEAN : EndDrain(ok) => /\ actor'.phase = "wait" /\ actor'.ok = ok
                                          /\ actor'.serving = actor.serving
  BY <1>0, RestingFields
<1>2. ASSUME EndDrain(FALSE), UNCHANGED <<stored, account, tx, flush>>
      PROVE  DeletedIsEmpty' /\ FlushHasRead' /\ FlushedStaysGone'
  <2>1. actor'.phase = "wait" /\ ~actor'.ok /\ actor'.serving = actor.serving
    BY <1>1, <1>2
  <2>2. \A a \in Accounts : Flushed(a)' => Flushed(a)
    BY <1>2, <2>1 DEF Flushed
  <2>3. FlushHasRead'
    BY <1>2, <2>1 DEF FlushHasRead
  <2> QED
    BY <1>2, <2>2, <2>3, FlushCarries
<1>3. ASSUME actor'.phase \in {"apply", "commit", "advance", "prune", "drain"},
             UNCHANGED <<stored, account, tx, flush>>, FlushHasRead'
      PROVE  DeletedIsEmpty' /\ FlushHasRead' /\ FlushedStaysGone'
  <2>1. \A a \in Accounts : Flushed(a)' => Flushed(a)
    BY <1>3 DEF Flushed
  <2> QED
    BY <1>3, <2>1, FlushCarries
<1>4. CASE DrainRead
  <2>1. /\ UNCHANGED <<stored, account, tx, cursor, index, pending, flush, late>>
        /\ actor.phase = "drain" /\ outbox' \subseteq outbox
    BY <1>4 DEF DrainRead, Pruned
  <2>2. CASE Pruned = {} /\ EndDrain(TRUE)
    <3>1. cursor \in Int /\ \A t \in outbox : t.seq \in Int
      BY DEF TypeOK, Rows
    <3>2. \A d : Below(cursor, d)
      BY <2>2, <3>1 DEF Pruned, Below
    <3> QED
      BY <2>1, <2>2, <3>2, FlushEnds
  <2>3. CASE EndDrain(FALSE)
    BY <1>2, <2>1, <2>3
  <2>4. ASSUME NEW batch \in SUBSET Pruned, NEW last \in 1..MaxSeq, NEW full \in BOOLEAN,
               Limited(batch, Pruned), full = (Cardinality(batch) = BatchSize),
               batch # {}, Top(last, {t.seq : t \in batch}), UNCHANGED outbox,
               actor' = [actor EXCEPT !.phase = "apply", !.batch = batch, !.seen = {},
                                      !.last = last, !.full = full]
        PROVE  DeletedIsEmpty' /\ FlushHasRead' /\ FlushedStaysGone'
    <3>1. /\ actor'.phase = "apply" /\ actor'.last = last /\ actor'.full = full
          /\ actor'.serving = actor.serving
      BY <1>0, <2>4 DEF Actors
    <3>2. ASSUME ~full, NEW d PROVE Below(last, d)'
      <4>1. batch = Pruned
        BY <2>4, <3>2 DEF Limited
      <4>2. /\ \A t \in batch : t.seq <= last /\ t.seq > cursor
            /\ \E t \in batch : t.seq = last
        BY <2>4 DEF Top, Pruned
      <4>3. cursor \in Int /\ last \in Int /\ \A t \in outbox : t.seq \in Int
        BY DEF TypeOK, Rows
      <4>4. \A t \in outbox : t.seq <= last
        BY <4>1, <4>2, <4>3 DEF Pruned
      <4> QED
        BY <2>4, <4>4 DEF Below
    <3>3. FlushHasRead'
      BY <2>1, <3>1, <3>2 DEF FlushHasRead
    <3> QED
      BY <1>3, <2>1, <3>1, <3>3
  <2>5. \/ Pruned = {} /\ EndDrain(TRUE)
        \/ EndDrain(FALSE)
        \/ \E batch \in SUBSET Pruned, last \in 1..MaxSeq, full \in BOOLEAN :
             /\ Limited(batch, Pruned) /\ full = (Cardinality(batch) = BatchSize)
             /\ batch # {} /\ Top(last, {t.seq : t \in batch}) /\ UNCHANGED outbox
             /\ actor' = [actor EXCEPT !.phase = "apply", !.batch = batch, !.seen = {},
                                       !.last = last, !.full = full]
    BY <1>4, Zenon DEF DrainRead
  <2> QED
    BY <2>2, <2>3, <2>4, <2>5
<1>5. ASSUME NEW t \in actor.batch, Apply(t)
      PROVE  DeletedIsEmpty' /\ FlushHasRead' /\ FlushedStaysGone'
  <2>1. /\ actor'.phase \in {"apply", "commit"} /\ actor'.last = actor.last
        /\ actor'.full = actor.full /\ actor'.serving = actor.serving
        /\ actor.phase = "apply"
    BY <1>0, <1>5 DEF Apply, Actors
  <2>2. UNCHANGED <<stored, account, tx, outbox, flush>>
    BY <1>5 DEF Apply
  <2>3. FlushHasRead'
    BY <2>1, <2>2 DEF FlushHasRead, Below
  <2> QED
    BY <1>3, <2>1, <2>2, <2>3
<1>6. CASE ApplyFails
  BY <1>2, <1>6 DEF ApplyFails
<1>7. ASSUME NEW p \in {"advance", "prune", "drain"}, To(p)
      PROVE  /\ actor'.phase = p /\ actor'.last = actor.last
             /\ actor'.full = actor.full /\ actor'.serving = actor.serving
  BY <1>0, <1>7 DEF To, Actors
<1>8. CASE Commit
  <2>1. UNCHANGED <<stored, account, tx, outbox, flush>> /\ actor.phase = "commit"
    BY <1>8 DEF Commit
  <2>2. CASE To("advance")
    <3>1. FlushHasRead'
      BY <1>7, <2>1, <2>2 DEF FlushHasRead, Below
    <3> QED
      BY <1>3, <1>7, <2>1, <2>2, <3>1
  <2>3. CASE EndDrain(FALSE)
    BY <1>2, <2>1, <2>3
  <2> QED
    BY <1>8, <2>2, <2>3 DEF Commit
<1>9. CASE Advance
  <2>1. UNCHANGED <<stored, account, tx, outbox, flush>> /\ actor.phase = "advance"
    BY <1>9 DEF Advance
  <2>2. CASE To("prune") /\ cursor' = actor.last
    <3>1. FlushHasRead'
      BY <1>7, <2>1, <2>2 DEF FlushHasRead, Below
    <3> QED
      BY <1>3, <1>7, <2>1, <2>2, <3>1
  <2>3. CASE EndDrain(FALSE)
    BY <1>2, <2>1, <2>3
  <2> QED
    BY <1>9, <2>2, <2>3 DEF Advance
<1>10. CASE Prune
  <2>1. /\ UNCHANGED <<stored, account, tx, cursor, index, pending, flush, late>>
        /\ actor.phase = "prune" /\ outbox' \subseteq outbox
    BY <1>10 DEF Prune, Pruned
  <2>2. CASE actor.full
    <3>1. To("drain")
      BY <1>10, <2>2 DEF Prune
    <3>2. FlushHasRead'
      BY <1>7, <2>1, <3>1 DEF FlushHasRead
    <3> QED
      BY <1>3, <1>7, <2>1, <3>1, <3>2
  <2>3. CASE ~actor.full
    <3>1. EndDrain(TRUE)
      BY <1>10, <2>3 DEF Prune
    <3>2. actor.serving # NoOne => \A d \in DocsOf(actor.serving) : Below(cursor, d)
      BY <2>1, <2>3 DEF FlushHasRead
    <3> QED
      BY <2>1, <3>1, <3>2, FlushEnds
  <2> QED
    BY <2>2, <2>3
<1>11. ASSUME Wake \/ \E a \in Accounts : Answer(a)
       PROVE  DeletedIsEmpty' /\ FlushHasRead' /\ FlushedStaysGone'
  <2>1. actor'.phase = "drain" /\ actor'.serving = NoOne
    BY <1>0, <1>11, RestingFields DEF Wake, Answer
  <2>2. FlushHasRead'
    BY <2>1 DEF FlushHasRead
  <2>3. UNCHANGED <<stored, account, tx>>
    BY <1>11 DEF Wake, Answer
  <2>4. ASSUME NEW a \in Accounts
        PROVE  /\ flush'[a] # flush[a] => account[a] = "deleted"
               /\ Flushed(a)' => Flushed(a)
    <3>1. CASE Wake
      BY <2>1, <3>1 DEF Wake, Flushed
    <3>2. ASSUME NEW b \in Accounts, Answer(b)
          PROVE  /\ flush'[a] # flush[a] => account[a] = "deleted"
                 /\ Flushed(a)' => Flushed(a)
      <4>1. /\ actor.phase = "wait" /\ actor.serving = b /\ b # NoOne
            /\ flush'[b] = IF actor.ok THEN "done" ELSE "failed"
            /\ a # b => flush'[a] = flush[a]
        BY <1>0, <3>2 DEF Answer, TypeOK
      <4>2. account[b] = "deleted"
        BY <4>1 DEF FlushHasRead
      <4> QED
        BY <2>1, <4>1, <4>2 DEF Flushed
    <3> QED
      BY <1>11, <3>1, <3>2
  <2> QED
    BY <2>2, <2>3, <2>4, FlushCarries
<1> QED
  BY <1>4, <1>5, <1>6, <1>8, <1>9, <1>10, <1>11 DEF Drain

LEMMA AroundFlush ==
  ASSUME TypeOK, DeletedIsEmpty, FlushHasRead, FlushedStaysGone,
         \/ \E a \in Accounts : SeedTakes(a) \/ TakeFlush(a)
         \/ Reindex
         \/ \E enabled \in BOOLEAN : Restart(enabled)
  PROVE  DeletedIsEmpty' /\ FlushHasRead' /\ FlushedStaysGone'
<1> USE DEF store
<1>0. actor \in Actors /\ NoOne \notin Accounts
  BY SearchAssumption DEF TypeOK
<1>1. /\ UNCHANGED <<stored, account>> /\ tx' \subseteq tx
      /\ \A a \in Accounts : /\ flush'[a] = "done" => flush[a] = "done"
                             /\ flush[a] = "none" => flush'[a] = "none"
  BY DEF SeedTakes, TakeFlush, Reindex, Restart, TypeOK
<1>2. DeletedIsEmpty'
  BY <1>1, FlushStore DEF DeletedIsEmpty
<1>3. FlushHasRead' /\ \A a \in Accounts : Flushed(a)' => Flushed(a)
  <2>1. ASSUME NEW b \in Accounts, TakeFlush(b)
        PROVE  FlushHasRead' /\ \A a \in Accounts : Flushed(a)' => Flushed(a)
    <3>1. actor'.phase = "drain" /\ actor'.serving = b
      BY <1>0, <2>1 DEF TakeFlush, Actors
    <3>2. account[b] = "deleted"
      BY <2>1 DEF TakeFlush, DeletedIsEmpty
    <3> QED
      BY <1>1, <3>1, <3>2 DEF FlushHasRead, Flushed
  <2>2. ASSUME NEW enabled \in BOOLEAN, Restart(enabled)
        PROVE  FlushHasRead' /\ \A a \in Accounts : Flushed(a)' => Flushed(a)
    <3>1. actor'.phase # "wait" /\ actor'.serving = NoOne
      BY <1>0, <2>2, RestingFields DEF Restart
    <3> QED
      BY <1>1, <3>1 DEF FlushHasRead, Flushed
  <2>3. ASSUME UNCHANGED <<actor, cursor, outbox>>
        PROVE  FlushHasRead' /\ \A a \in Accounts : Flushed(a)' => Flushed(a)
    BY <1>1, <2>3 DEF FlushHasRead, Flushed, Below
  <2> QED
    BY <2>1, <2>2, <2>3 DEF SeedTakes, Reindex
<1>4. FlushedStaysGone'
  <2> SUFFICES ASSUME NEW a \in Accounts, Flushed(a), NEW d \in DocsOf(a) PROVE Gone(d)'
    BY <1>3 DEF FlushedStaysGone
  <2>1. d \in Docs /\ Gone(d)
    BY DEF FlushedStaysGone, DocsOf
  <2> QED
    BY <2>1, AroundGone
<1> QED
  BY <1>2, <1>3, <1>4

LEMMA NextFlush ==
  ASSUME TypeOK, Inv, DeletedIsEmpty, FlushHasRead, FlushedStaysGone, [Next]_vars
  PROVE  DeletedIsEmpty' /\ FlushHasRead' /\ FlushedStaysGone'
<1>1. CASE UNCHANGED vars
  <2>1. DeletedIsEmpty'
    BY <1>1 DEF vars, DeletedIsEmpty
  <2> QED
    BY <1>1, <2>1, FlushQuiet DEF vars
<1>2. RowsKnown
  BY DEF Inv
<1>3. CASE Work
  BY <1>2, <1>3, FlushWrites, SeedFlush, DrainFlush, AroundFlush DEF Work
<1> QED
  BY <1>1, <1>3, AroundFlush DEF Next

\* A flush whose drain succeeded leaves no document of the deleted account in the index,
\* and none comes back from a batch, a retry, a seed or a restart, unless its change was
\* committed below a row the actor had already read.
THEOREM FlushCorrect == Spec => []FlushedIsGone
<1>1. Init => DeletedIsEmpty /\ FlushHasRead /\ FlushedStaysGone
  BY InitFlush
<1>2. TypeOK /\ Inv /\ DeletedIsEmpty /\ FlushHasRead /\ FlushedStaysGone /\ [Next]_vars
        => DeletedIsEmpty' /\ FlushHasRead' /\ FlushedStaysGone'
  BY NextFlush
<1>3. FlushedStaysGone => FlushedIsGone
  BY DEF FlushedStaysGone, FlushedIsGone, Flushed, Gone
<1>4. Init => Inv
  BY InitInv
<1>5. TypeOK /\ Inv /\ [Next]_vars => Inv'
  BY NextInv
<1> QED
  BY <1>1, <1>2, <1>3, <1>4, <1>5, TypeCorrect, PTL DEF Spec

=============================================================================
