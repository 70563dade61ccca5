------------------------- MODULE RoomBackfillProofs -------------------------
(* Theorems about RoomBackfill, for any set of rooms and any constants. *)
EXTENDS RoomBackfill, FiniteSetTheorems, TLAPS

-----------------------------------------------------------------------------
(* What the store operations make of a cursor row *)

\* A retry waits at most RETRY_MAX.
LEMMA RetryDelayType ==
  ASSUME NEW f \in 1..ParkAfter
  PROVE  retry_delay(f) \in 0..RetryMax
<1>1. f - 1 \in 0..ParkAfter
  BY BackfillAssumption
<1>2. 2^(f - 1) \in Nat
  BY <1>1, DoublingAssumption
<1> DEFINE p == 2^(f - 1)
<1>3. p \in Nat
  BY <1>2
<1> HIDE DEF p
<1>4. RetryBase * p \in Nat
  BY <1>3, BackfillAssumption
<1>5. retry_delay(f) = IF RetryBase * p < RetryMax THEN RetryBase * p ELSE RetryMax
  BY DEF retry_delay, p
<1> QED
  BY <1>4, <1>5, BackfillAssumption

\* Clearing the failures of a row keeps what it says of the history.
LEMMA ClearedType ==
  ASSUME NEW c \in Cursors
  PROVE  /\ Cleared(c) \in Cursors
         /\ Cleared(c).token = c.token
         /\ Cleared(c).complete = c.complete
         /\ Cleared(c).wait = 0 /\ ~Cleared(c).parked /\ Cleared(c).failures = 0
<1>1. 0 \in 0..RetryMax \cup 0..ParkFor /\ 0 \in 0..ParkAfter
  BY BackfillAssumption
<1>2. Cleared(c) \in Cursors
  BY <1>1 DEF Cleared, Cursors
<1>3. Cleared(c).token = c.token /\ Cleared(c).complete = c.complete
  BY DEF Cleared, Cursors
<1>4. Cleared(c).wait = 0 /\ Cleared(c).failures = 0 /\ Cleared(c).parked = FALSE
  BY DEF Cleared, Cursors
<1> QED
  BY <1>2, <1>3, <1>4

\* A saved page sets the token, and completes the room if there is none.
LEMMA SavedType ==
  ASSUME NEW c \in Cursors, NEW end \in 0..(Depth + LiveMax + 1), NEW added \in 0..PageSize
  PROVE  /\ Saved(c, end, added) \in Cursors
         /\ Saved(c, end, added).token = end
         /\ Saved(c, end, added).complete = (end = NoToken)
         /\ Saved(c, end, added).wait = 0 /\ ~Saved(c, end, added).parked
<1> DEFINE d == Cleared(c)
<1>1. d \in Cursors /\ d.wait = 0 /\ ~d.parked
  BY ClearedType
<1> HIDE DEF d
<1>2. (IF d.count + added < CountCap THEN d.count + added ELSE CountCap) \in 0..CountCap
  BY <1>1, BackfillAssumption DEF Cursors
<1>3. Saved(c, end, added) =
        [d EXCEPT !.token = end, !.complete = (end = NoToken),
                  !.count = IF d.count + added < CountCap THEN d.count + added ELSE CountCap]
  BY DEF Saved, d
<1> QED
  BY <1>1, <1>2, <1>3 DEF Cursors

\* A recorded failure keeps the token, or clears it, and counts.
LEMMA RecordFailureType ==
  ASSUME NEW c \in Cursors, NEW w \in 0..RetryMax \cup 0..ParkFor,
         NEW p \in BOOLEAN, NEW t \in BOOLEAN
  PROVE  /\ RecordFailure(c, w, p, t) \in Cursors
         /\ RecordFailure(c, w, p, t).token \in {c.token, NoToken}
         /\ RecordFailure(c, w, p, t).complete = c.complete
         /\ RecordFailure(c, w, p, t).failures > 0
<1> DEFINE n == IF c.failures < ParkAfter THEN c.failures + 1 ELSE c.failures
           k == IF t THEN NoToken ELSE c.token
<1>1. n \in 0..ParkAfter /\ n > 0
  BY BackfillAssumption DEF Cursors
<1>2. k \in 0..(Depth + LiveMax + 1) /\ k \in {c.token, NoToken}
  BY BackfillAssumption DEF Cursors, NoToken
<1>3. RecordFailure(c, w, p, t) =
        [c EXCEPT !.failures = n, !.wait = w, !.parked = p, !.rejected = c.rejected \/ t,
                  !.token = k]
  BY DEF RecordFailure
<1>4. c.rejected \/ t \in BOOLEAN
  OBVIOUS
<1> HIDE DEF n, k
<1> QED
  BY <1>1, <1>2, <1>3, <1>4 DEF Cursors

LEMMA FailureRecordType ==
  ASSUME NEW c \in Cursors, NEW was \in Cursors,
         NEW failure \in {"Rejected", "Inaccessible", "Retryable"}
  PROVE  /\ failure_record(c, was, failure) \in Cursors
         /\ failure_record(c, was, failure).token \in {c.token, NoToken}
         /\ failure_record(c, was, failure).complete = c.complete
         /\ failure_record(c, was, failure).failures > 0
<1> DEFINE g == was.failures + 1
<1>1. g \in Nat \ {0}
  BY BackfillAssumption DEF Cursors
<1>2. 0 \in 0..RetryMax /\ ParkFor \in 0..ParkFor
  BY BackfillAssumption
<1>3. CASE failure = "Rejected" /\ was.rejected
  BY <1>2, <1>3, RecordFailureType DEF failure_record
<1>4. CASE failure = "Rejected" /\ ~was.rejected
  BY <1>2, <1>4, RecordFailureType DEF failure_record
<1>5. CASE failure = "Inaccessible"
  BY <1>2, <1>5, RecordFailureType DEF failure_record
<1>6. CASE failure = "Retryable" /\ g >= ParkAfter
  BY <1>2, <1>6, RecordFailureType DEF failure_record
<1>7. CASE failure = "Retryable" /\ ~(g >= ParkAfter)
  <2>1. g \in 1..ParkAfter
    BY <1>1, <1>7, BackfillAssumption
  <2>2. retry_delay(g) \in 0..RetryMax
    BY <2>1, RetryDelayType
  <2>3. failure_record(c, was, failure) = RecordFailure(c, retry_delay(g), FALSE, FALSE)
    <3>1. ~(failure = "Rejected") /\ ~(failure = "Inaccessible")
      BY <1>7
    <3>2. ~(was.failures + 1 >= ParkAfter)
      BY <1>7
    <3> QED
      BY <3>1, <3>2, Zenon DEF failure_record
  <2> DEFINE d == retry_delay(g)
  <2>4. d \in 0..RetryMax \cup 0..ParkFor
    BY <2>2
  <2>5. failure_record(c, was, failure) = RecordFailure(c, d, FALSE, FALSE)
    BY <2>3
  <2> HIDE DEF d
  <2> QED
    BY <2>4, <2>5, RecordFailureType, ZenonT(60)
<1> QED
  BY <1>3, <1>4, <1>5, <1>6, <1>7

\* The empty row and the empty page are values of their types.
LEMMA BlankType == Blank \in Cursors /\ NoPage \in Pages
BY BackfillAssumption DEF Blank, Cursors, NoPage, Pages, NoToken

-----------------------------------------------------------------------------
(* Types *)

USE DEF NoToken

LEMMA InitType == ASSUME Init PROVE TypeOK
<1>1. Depth \in Depth..(Depth + LiveMax)
  BY BackfillAssumption
<1> QED
  BY <1>1, BlankType, BackfillAssumption DEF Init, TypeOK, Ages

LEMMA RowType ==
  ASSUME row \in [Rooms -> [Positions -> Ages]]
  PROVE  /\ Restore(row) \in [Rooms -> [Positions -> Ages]]
         /\ \A r \in Rooms : Expire(r) \in [Rooms -> [Positions -> Ages]]
         /\ \A r \in Rooms : Advance(r) => row' \in [Rooms -> [Positions -> Ages]]
         /\ \A r \in Rooms : \A e : upsert_event(r, e) => row' \in [Rooms -> [Positions -> Ages]]
BY DEF Restore, Expire, Advance, upsert_event, Ages

\* An upsert stores its event, and touches no row that is already there.
LEMMA UpsertRow ==
  ASSUME row \in [Rooms -> [Positions -> Ages]], NEW r \in Rooms, NEW e \in Positions,
         upsert_event(r, e)
  PROVE  /\ row'[r][e] = IF row[r][e] = "absent" THEN "new" ELSE row[r][e]
         /\ \A x \in Positions : x # e => row'[r][x] = row[r][x]
         /\ \A s \in Rooms : s # r => row'[s] = row[s]
<1> DEFINE v == IF row[r][e] = "absent" THEN "new" ELSE row[r][e]
<1>1. row' = [row EXCEPT ![r] = [row[r] EXCEPT ![e] = v]]
  BY DEF upsert_event
<1> HIDE DEF v
<1>2. /\ row'[r][e] = v
      /\ \A x \in Positions : x # e => row'[r][x] = row[r][x]
      /\ \A s \in Rooms : s # r => row'[s] = row[s]
  BY <1>1
<1> QED
  BY <1>2 DEF v

\* Recording a leave stores nothing and deletes nothing.
LEMMA AdvanceRow ==
  ASSUME row \in [Rooms -> [Positions -> Ages]], NEW r \in Rooms, Advance(r)
  PROVE  /\ \A x \in Positions : row'[r][x] = IF row[r][x] = "new" THEN "intent" ELSE row[r][x]
         /\ \A s \in Rooms : s # r => row'[s] = row[s]
BY DEF Advance

LEMMA PendingType ==
  ASSUME intent \in [Rooms -> {"none", "same", "advanced"}]
  PROVE  /\ Pending \in [Rooms -> {"none", "same", "advanced"}]
         /\ \A r \in Rooms : Advance(r) => intent' \in [Rooms -> {"none", "same", "advanced"}]
BY DEF Pending, Advance

LEMMA VisitType ==
  ASSUME TypeOK
  PROVE  /\ \A r \in Rooms : Visited(r) => todo' \subseteq Rooms /\ snap' \in [Rooms -> Cursors]
         /\ Abandon => todo' \subseteq Rooms /\ snap' \in [Rooms -> Cursors]
BY BlankType DEF TypeOK, Visited, Abandon

\* Every step keeps every variable in its type.
LEMMA NextType == ASSUME TypeOK, [Next]_vars PROVE TypeOK'
<1> USE DEF vars, live, sweep
<1>1. CASE ListCursors
  BY <1>1, BlankType DEF ListCursors, TypeOK
<1>2. CASE DiskLow
  BY <1>2, VisitType DEF DiskLow, TypeOK
<1>3. CASE Tick
  <2>1. ASSUME NEW c \in Cursors
        PROVE  [c EXCEPT !.wait = IF @ > 0 THEN @ - 1 ELSE 0] \in Cursors
    <3> DEFINE w == IF c.wait > 0 THEN c.wait - 1 ELSE 0
    <3>1. w \in 0..RetryMax \cup 0..ParkFor
      BY BackfillAssumption DEF Cursors
    <3> HIDE DEF w
    <3>2. [c EXCEPT !.wait = w] \in Cursors
      BY <3>1 DEF Cursors
    <3> QED
      BY <3>2 DEF w
  <2>2. cursor' \in [Rooms -> Cursors]
    BY <1>3, <2>1 DEF Tick, TypeOK
  <2> QED
    BY <1>3, <2>2 DEF Tick, TypeOK
<1>4. ASSUME NEW r \in Rooms, LiveEvent(r) PROVE TypeOK'
  <2>1. top[r] + 1 \in Positions /\ top[r] + 1 \in Depth..(Depth + LiveMax)
    BY <1>4, BackfillAssumption DEF LiveEvent, TypeOK, Positions
  <2>2. row' \in [Rooms -> [Positions -> Ages]]
    BY <1>4, RowType DEF LiveEvent, TypeOK
  <2>3. since' \in [Rooms -> SUBSET Positions]
    <3> DEFINE s == since[r] \cup {top[r] + 1}
    <3>1. s \in SUBSET Positions
      BY <2>1 DEF TypeOK
    <3>2. since' = since \/ since' = [since EXCEPT ![r] = s]
      BY <1>4 DEF LiveEvent, TypeOK
    <3> HIDE DEF s
    <3> QED
      BY <3>1, <3>2 DEF TypeOK
  <2>4. top' \in [Rooms -> Depth..(Depth + LiveMax)]
    BY <1>4, <2>1 DEF LiveEvent, TypeOK
  <2> QED
    BY <1>4, <2>2, <2>3, <2>4 DEF LiveEvent, TypeOK
<1>5. ASSUME NEW r \in Rooms, Leave(r) PROVE TypeOK'
  BY <1>5 DEF Leave, TypeOK
<1>6. ASSUME NEW r \in Rooms, Rejoin(r) PROVE TypeOK'
  BY <1>6 DEF Rejoin, TypeOK
<1>7. ASSUME NEW r \in Rooms, PersistMember(r) PROVE TypeOK'
  <2>1. row' \in [Rooms -> [Positions -> Ages]] /\ intent' \in [Rooms -> {"none", "same", "advanced"}]
    BY <1>7, RowType, PendingType DEF PersistMember, TypeOK
  <2> QED
    BY <1>7, <2>1 DEF PersistMember, TypeOK
<1>8. ASSUME NEW r \in Rooms, Skip(r) PROVE TypeOK'
  BY <1>8, VisitType DEF Skip, TypeOK
<1>9. ASSUME NEW r \in Rooms, VisitCapped(r) PROVE TypeOK'
  <2>1. cursor' \in [Rooms -> Cursors]
    BY <1>9, ClearedType, SMTT(30) DEF VisitCapped, TypeOK
  <2> QED
    BY <1>9, <2>1, VisitType DEF VisitCapped, TypeOK
<1>10. ASSUME NEW r \in Rooms, SendPage(r) PROVE TypeOK'
  <2>1. page[r] \in Pages /\ snap[r] \in Cursors
    BY DEF TypeOK
  <2>2. [page[r] EXCEPT !.phase = "fetch", !.token = snap[r].token] \in Pages
    BY <2>1 DEF Pages, Cursors
  <2>3. page' = [page EXCEPT ![r] = [page[r] EXCEPT !.phase = "fetch", !.token = snap[r].token]]
    BY <1>10 DEF SendPage, TypeOK
  <2> QED
    BY <1>10, <2>2, <2>3 DEF SendPage, TypeOK
<1>11. ASSUME NEW r \in Rooms, NEW n \in 0..PageSize, PageServed(r, n) PROVE TypeOK'
  <2> DEFINE from == IF page[r].token = NoToken THEN top[r] + 1 ELSE page[r].token
  <2>1. from \in 1..(Depth + LiveMax + 1)
    BY BackfillAssumption DEF TypeOK, Pages
  <2>2. n < from
    BY <1>11 DEF PageServed
  <2>3. PICK end \in {from - n} \cup (IF from - n = 1 THEN {NoToken} ELSE {}) :
          page' = [page EXCEPT ![r] =
                     [phase |-> "persist", token |-> NoToken,
                      left |-> (from - n)..(from - 1), fetched |-> n,
                      end |-> end, checked |-> FALSE]]
    BY <1>11 DEF PageServed
  <2> HIDE DEF from
  <2>4. from - n \in 1..(Depth + LiveMax + 1)
    BY <2>1, <2>2, BackfillAssumption
  <2>5. end \in 0..(Depth + LiveMax + 1)
    BY <2>3, <2>4, BackfillAssumption
  <2>6. (from - n)..(from - 1) \in SUBSET Positions
    BY <2>1, <2>4, BackfillAssumption DEF Positions
  <2>7. NoToken \in 0..(Depth + LiveMax + 1)
    BY BackfillAssumption
  <2>8. page' \in [Rooms -> Pages]
    BY <2>3, <2>5, <2>6, <2>7 DEF TypeOK, Pages
  <2> QED
    BY <1>11, <2>8 DEF PageServed, TypeOK
<1>12. ASSUME NEW r \in Rooms, NEW f \in {"Rejected", "Inaccessible", "Retryable"}, PageFailed(r, f)
       PROVE TypeOK'
  <2>1. cursor' \in [Rooms -> Cursors]
    <3>1. cursor[r] \in Cursors /\ snap[r] \in Cursors
      BY DEF TypeOK
    <3>2. failure_record(cursor[r], snap[r], f) \in Cursors
      BY <3>1, FailureRecordType
    <3>3. cursor' = cursor \/ cursor' = [cursor EXCEPT ![r] = failure_record(cursor[r], snap[r], f)]
      BY <1>12 DEF PageFailed, TypeOK
    <3> QED
      BY <3>2, <3>3 DEF TypeOK
  <2> QED
    BY <1>12, <2>1, BlankType, VisitType DEF PageFailed, TypeOK
<1>13. ASSUME NEW r \in Rooms, PersistCheck(r) PROVE TypeOK'
  <2>1. page[r] \in Pages
    BY DEF TypeOK
  <2>2. PICK m \in page[r].left :
             \/ page' = [page EXCEPT ![r] = [page[r] EXCEPT !.left = page[r].left \ {m}]]
             \/ page' = [page EXCEPT ![r] = [page[r] EXCEPT !.checked = TRUE]]
    BY <1>13 DEF PersistCheck, TypeOK
  <2>3. /\ [page[r] EXCEPT !.left = page[r].left \ {m}] \in Pages
        /\ [page[r] EXCEPT !.checked = TRUE] \in Pages
    BY <2>1 DEF Pages
  <2> QED
    BY <1>13, <2>2, <2>3 DEF PersistCheck, TypeOK
<1>14. ASSUME NEW r \in Rooms, PersistWrite(r) PROVE TypeOK'
  <2>1. page[r] \in Pages
    BY DEF TypeOK
  <2>2. PICK m \in page[r].left :
          page' = [page EXCEPT ![r] = [page[r] EXCEPT !.left = page[r].left \ {m}, !.checked = FALSE]]
    BY <1>14, ZenonT(60) DEF PersistWrite, TypeOK
  <2>3. [page[r] EXCEPT !.left = page[r].left \ {m}, !.checked = FALSE] \in Pages
    BY <2>1 DEF Pages
  <2>4. row' \in [Rooms -> [Positions -> Ages]]
    BY <1>14, RowType DEF PersistWrite, TypeOK
  <2>5. page' \in [Rooms -> Pages]
    BY <2>2, <2>3 DEF TypeOK
  <2> QED
    BY <1>14, <2>4, <2>5 DEF PersistWrite, TypeOK
<1>15. ASSUME NEW r \in Rooms, SaveCursor(r) PROVE TypeOK'
  <2>1. page[r] \in Pages
    BY DEF TypeOK
  <2>2. page[r].end \in 0..(Depth + LiveMax + 1) /\ page[r].fetched \in 0..PageSize
    BY <2>1 DEF Pages
  <2>3. cursor' \in [Rooms -> Cursors]
    <3>1. Saved(cursor[r], page[r].end, page[r].fetched) \in Cursors
      BY <2>2, SavedType DEF TypeOK
    <3>2. \/ cursor' = cursor
          \/ cursor' = [cursor EXCEPT ![r] = Saved(cursor[r], page[r].end, page[r].fetched)]
      BY <1>15 DEF SaveCursor, TypeOK
    <3> QED
      BY <3>1, <3>2 DEF TypeOK
  <2> QED
    BY <1>15, <2>3, BlankType, VisitType DEF SaveCursor, TypeOK
<1>16. ASSUME NEW r \in Rooms, PurgeStart(r) PROVE TypeOK'
  BY <1>16, RowType DEF PurgeStart, TypeOK
<1>17. ASSUME NEW r \in Rooms, PurgeEvents(r) PROVE TypeOK'
  BY <1>17, BlankType DEF PurgeEvents, TypeOK, Ages
<1>18. ASSUME NEW r \in Rooms, PurgeState(r) PROVE TypeOK'
  BY <1>18 DEF PurgeState, TypeOK
<1>19. ASSUME NEW r \in Rooms, PurgeFinal(r) PROVE TypeOK'
  BY <1>19, BlankType, RowType, PendingType DEF PurgeFinal, TypeOK
<1>20. ASSUME NEW r \in Rooms, PurgeFails(r) PROVE TypeOK'
  BY <1>20, RowType, PendingType DEF PurgeFails, TypeOK
<1>21. ASSUME NEW d \in TargetDepths, Restart(d) PROVE TypeOK'
  BY <1>21, BlankType, RowType, PendingType, VisitType DEF Restart, TypeOK
<1>22. CASE UNCHANGED vars
  BY <1>22 DEF TypeOK
<1> QED
  BY <1>1, <1>2, <1>3, <1>4, <1>5, <1>6, <1>7, <1>8, <1>9, <1>10, <1>11, <1>12, <1>13,
     <1>14, <1>15, <1>16, <1>17, <1>18, <1>19, <1>20, <1>21, <1>22 DEF Next

\* The type invariant holds in every reachable state: no token leaves the timeline,
\* no delay exceeds its ceiling, no failure count passes PARK_AFTER.
THEOREM TypeCorrect == Spec => []TypeOK
<1>1. Init => TypeOK
  BY InitType
<1>2. TypeOK /\ [Next]_vars => TypeOK'
  BY NextType
<1> QED
  BY <1>1, <1>2, PTL DEF Spec

-----------------------------------------------------------------------------
(* Backoffs *)

LEMMA InitBackoff == ASSUME Init PROVE NoStaleBackoff
BY DEF Init, NoStaleBackoff, Blank

\* Every step keeps a backoff with the failures it is for.
LEMMA NextBackoff == ASSUME TypeOK, NoStaleBackoff, [Next]_vars PROVE NoStaleBackoff'
<1> DEFINE Ok(c) == c.parked \/ c.wait > 0 => c.failures > 0
<1>1. \A r \in Rooms : cursor[r] \in Cursors /\ snap[r] \in Cursors /\ page[r] \in Pages
  BY DEF TypeOK
<1>2. \A r \in Rooms : Ok(cursor[r])
  BY DEF NoStaleBackoff
<1>3. SUFFICES \A r \in Rooms : Ok(cursor'[r])
  BY DEF NoStaleBackoff
<1>4. Ok(Blank)
  BY DEF Blank
<1>5. ASSUME NEW r \in Rooms, NEW c, Ok(c), cursor' = [cursor EXCEPT ![r] = c]
      PROVE  \A s \in Rooms : Ok(cursor'[s])
  BY <1>2, <1>5 DEF TypeOK
<1>6. CASE Tick
  <2>1. ASSUME NEW c \in Cursors, Ok(c)
        PROVE  Ok([c EXCEPT !.wait = IF @ > 0 THEN @ - 1 ELSE 0])
    <3>1. c.wait \in Nat
      BY BackfillAssumption DEF Cursors
    <3> DEFINE w == IF c.wait > 0 THEN c.wait - 1 ELSE 0
               d == [c EXCEPT !.wait = w]
    <3>2. w \in Nat /\ (w > 0 => c.wait > 0)
      BY <3>1
    <3>3. d.wait = w /\ d.parked = c.parked /\ d.failures = c.failures
      BY DEF Cursors
    <3> HIDE DEF w
    <3>4. Ok(d)
      BY <2>1, <3>2, <3>3
    <3> QED
      BY <3>4 DEF w
  <2>2. \A r \in Rooms : cursor'[r] = [cursor[r] EXCEPT !.wait = IF @ > 0 THEN @ - 1 ELSE 0]
    BY <1>6 DEF Tick
  <2> QED
    BY <1>1, <1>2, <2>1, <2>2
<1>7. ASSUME NEW r \in Rooms, VisitCapped(r) PROVE \A s \in Rooms : Ok(cursor'[s])
  <2>1. Ok(Cleared(cursor[r]))
    BY <1>1, ClearedType
  <2> QED
    BY <1>2, <1>5, <1>7, <2>1 DEF VisitCapped
<1>8. ASSUME NEW r \in Rooms, NEW f \in {"Rejected", "Inaccessible", "Retryable"}, PageFailed(r, f)
      PROVE  \A s \in Rooms : Ok(cursor'[s])
  <2>1. Ok(failure_record(cursor[r], snap[r], f))
    BY <1>1, FailureRecordType
  <2> QED
    BY <1>2, <1>5, <1>8, <2>1 DEF PageFailed
<1>9. ASSUME NEW r \in Rooms, SaveCursor(r) PROVE \A s \in Rooms : Ok(cursor'[s])
  <2>1. page[r].end \in 0..(Depth + LiveMax + 1) /\ page[r].fetched \in 0..PageSize
    BY <1>1 DEF Pages
  <2>2. /\ Saved(cursor[r], page[r].end, page[r].fetched).wait = 0
        /\ ~Saved(cursor[r], page[r].end, page[r].fetched).parked
    BY <1>1, <2>1, SavedType
  <2>3. Ok(Saved(cursor[r], page[r].end, page[r].fetched))
    BY <2>2
  <2> QED
    BY <1>2, <1>5, <1>9, <2>3 DEF SaveCursor
<1>10. ASSUME NEW r \in Rooms, PurgeEvents(r) \/ PurgeFinal(r) PROVE \A s \in Rooms : Ok(cursor'[s])
  <2>1. cursor' = cursor \/ cursor' = [cursor EXCEPT ![r] = Blank]
    BY <1>10 DEF PurgeEvents, PurgeFinal
  <2> QED
    BY <1>2, <1>4, <1>5, <2>1
<1>11. ASSUME cursor' = cursor PROVE \A s \in Rooms : Ok(cursor'[s])
  BY <1>2, <1>11
<1> QED
  BY <1>6, <1>7, <1>8, <1>9, <1>10, <1>11
     DEF Next, vars, live, sweep, ListCursors, DiskLow, LiveEvent, Leave, Rejoin, PersistMember,
         Skip, SendPage, PageServed, PersistCheck, PersistWrite, PurgeStart, PurgeState,
         PurgeFails, Restart

\* A page that is served, a cleared room and a purge all end the backoff they find:
\* no room waits or is parked without a recorded failure.
THEOREM BackoffCorrect == Spec => []NoStaleBackoff
<1>1. Init => NoStaleBackoff
  BY InitBackoff
<1>2. TypeOK /\ NoStaleBackoff /\ [Next]_vars => NoStaleBackoff'
  BY NextBackoff
<1> QED
  BY <1>1, <1>2, TypeCorrect, PTL DEF Spec

-----------------------------------------------------------------------------
(* Positions *)

\* Nothing the store or the task holds lies beyond the timeline's end.
InTimeline ==
  \A r \in Rooms :
    /\ cursor[r].token <= top[r] + 1
    /\ snap[r].token <= top[r] + 1
    /\ page[r].token <= top[r] + 1
    /\ page[r].end <= top[r] + 1
    /\ \A e \in page[r].left : e <= top[r]
    /\ \A e \in Positions : e > top[r] => row[r][e] = "absent"

LEMMA InitTimeline == ASSUME Init PROVE InTimeline
BY BackfillAssumption DEF Init, InTimeline, Blank, NoPage, Positions

LEMMA NextTimeline == ASSUME TypeOK, InTimeline, [Next]_vars PROVE InTimeline'
<1> USE DEF vars, live, sweep
<1>1. /\ \A r \in Rooms : cursor[r] \in Cursors /\ snap[r] \in Cursors /\ page[r] \in Pages
      /\ \A r \in Rooms : top[r] \in Nat
      /\ \A r \in Rooms : cursor[r].token \in Nat /\ snap[r].token \in Nat
      /\ \A r \in Rooms : page[r].token \in Nat /\ page[r].end \in Nat /\ page[r].left \subseteq Nat
  <2>1. \A r \in Rooms : cursor[r] \in Cursors /\ snap[r] \in Cursors /\ page[r] \in Pages
    BY DEF TypeOK
  <2>2. \A r \in Rooms : top[r] \in Nat
    BY BackfillAssumption DEF TypeOK
  <2>3. \A c \in Cursors : c.token \in Nat
    BY BackfillAssumption DEF Cursors
  <2>4. \A g \in Pages : g.token \in Nat /\ g.end \in Nat /\ g.left \subseteq Nat
    BY BackfillAssumption DEF Pages, Positions
  <2> QED
    BY <2>1, <2>2, <2>3, <2>4
<1>2. /\ Blank.token = NoToken
      /\ NoPage.token = NoToken /\ NoPage.end = NoToken /\ NoPage.left = {}
  BY DEF Blank, NoPage
<1>3. /\ \A r \in Rooms : Visited(r) => \A s \in Rooms : snap'[s].token \in {snap[s].token, NoToken}
      /\ Abandon => \A s \in Rooms : snap'[s].token \in {snap[s].token, NoToken}
  BY <1>2 DEF Visited, Abandon, TypeOK
<1>4. ASSUME top' = top, row' = row,
             \A s \in Rooms : cursor'[s].token \in {cursor[s].token, NoToken},
             \A s \in Rooms : snap'[s].token \in {snap[s].token, cursor[s].token, NoToken},
             \A s \in Rooms : page'[s] \in {page[s], NoPage}
      PROVE  InTimeline'
  BY <1>1, <1>2, <1>4 DEF InTimeline
<1>5. CASE ListCursors
  BY <1>2, <1>4, <1>5 DEF ListCursors, TypeOK
<1>6. CASE DiskLow
  BY <1>3, <1>4, <1>6 DEF DiskLow
<1>7. CASE Tick
  <2>1. \A s \in Rooms : cursor'[s].token = cursor[s].token
    BY <1>1, <1>7 DEF Tick, Cursors
  <2> QED
    BY <1>4, <1>7, <2>1 DEF Tick
<1>8. ASSUME NEW r \in Rooms, LiveEvent(r) PROVE InTimeline'
  <2>1. \A s \in Rooms : top'[s] \in Nat /\ top'[s] >= top[s]
    BY <1>1, <1>8 DEF LiveEvent, TypeOK
  <2>2. \A s \in Rooms, e \in Positions : e > top'[s] => row'[s][e] = row[s][e]
    <3>1. top[r] + 1 \in Positions
      BY <1>1, <1>8, BackfillAssumption DEF LiveEvent, Positions
    <3>2. top'[r] = top[r] + 1
      BY <1>8 DEF LiveEvent, TypeOK
    <3>3. row' = row \/ upsert_event(r, top[r] + 1)
      BY <1>8 DEF LiveEvent
    <3>4. \A e \in Positions : e > top[r] + 1 => e # top[r] + 1
      BY <1>1 DEF Positions
    <3>5. row \in [Rooms -> [Positions -> Ages]]
      BY DEF TypeOK
    <3> QED
      BY <3>1, <3>2, <3>3, <3>4, <3>5, UpsertRow
  <2>3. \A s \in Rooms, e \in Positions : e > top'[s] => e > top[s]
    BY <1>1, <2>1 DEF Positions
  <2> QED
    BY <1>1, <1>8, <2>1, <2>2, <2>3 DEF LiveEvent, InTimeline
<1>9. ASSUME NEW r \in Rooms, Leave(r) \/ Rejoin(r) \/ PurgeState(r) PROVE InTimeline'
  BY <1>4, <1>9 DEF Leave, Rejoin, PurgeState
<1>10. ASSUME NEW r \in Rooms, Skip(r) PROVE InTimeline'
  BY <1>3, <1>4, <1>10 DEF Skip
<1>11. ASSUME NEW r \in Rooms, VisitCapped(r) PROVE InTimeline'
  <2>1. \A s \in Rooms : cursor'[s].token = cursor[s].token
    <3>1. Cleared(cursor[r]).token = cursor[r].token
      BY <1>1, ClearedType
    <3>2. cursor' = cursor \/ cursor' = [cursor EXCEPT ![r] = Cleared(cursor[r])]
      BY <1>11 DEF VisitCapped
    <3> QED
      BY <3>1, <3>2 DEF TypeOK
  <2> QED
    BY <1>3, <1>4, <1>11, <2>1 DEF VisitCapped
<1>12. ASSUME NEW r \in Rooms, SendPage(r) PROVE InTimeline'
  <2>1. page' = [page EXCEPT ![r] = [page[r] EXCEPT !.phase = "fetch", !.token = snap[r].token]]
    BY <1>12 DEF SendPage, TypeOK
  <2>2. /\ page'[r].token = snap[r].token /\ page'[r].end = page[r].end /\ page'[r].left = page[r].left
        /\ \A s \in Rooms \ {r} : page'[s] = page[s]
    BY <1>1, <2>1 DEF TypeOK, Pages
  <2> QED
    BY <1>12, <2>2 DEF SendPage, InTimeline
<1>13. ASSUME NEW r \in Rooms, NEW n \in 0..PageSize, PageServed(r, n) PROVE InTimeline'
  <2> DEFINE from == IF page[r].token = NoToken THEN top[r] + 1 ELSE page[r].token
  <2>1. from \in Nat /\ from <= top[r] + 1
    BY <1>1 DEF InTimeline
  <2>2. PICK end \in {from - n} \cup (IF from - n = 1 THEN {NoToken} ELSE {}) :
          page' = [page EXCEPT ![r] =
                     [phase |-> "persist", token |-> NoToken,
                      left |-> (from - n)..(from - 1), fetched |-> n,
                      end |-> end, checked |-> FALSE]]
    BY <1>13 DEF PageServed
  <2> HIDE DEF from
  <2>3. end <= top[r] + 1 /\ \A e \in (from - n)..(from - 1) : e <= top[r]
    BY <1>1, <2>1, <2>2, BackfillAssumption
  <2>4. /\ page'[r].token = NoToken /\ page'[r].end = end /\ page'[r].left = (from - n)..(from - 1)
        /\ \A s \in Rooms \ {r} : page'[s] = page[s]
    BY <2>2 DEF TypeOK
  <2> QED
    BY <1>1, <1>13, <2>3, <2>4 DEF PageServed, InTimeline
<1>14. ASSUME NEW r \in Rooms, NEW f \in {"Rejected", "Inaccessible", "Retryable"}, PageFailed(r, f)
       PROVE InTimeline'
  <2>1. failure_record(cursor[r], snap[r], f).token \in {cursor[r].token, NoToken}
    BY <1>1, FailureRecordType
  <2>2. \A s \in Rooms : cursor'[s].token \in {cursor[s].token, NoToken}
    BY <1>14, <2>1 DEF PageFailed, TypeOK
  <2>3. \A s \in Rooms : page'[s] \in {page[s], NoPage}
    BY <1>14 DEF PageFailed, TypeOK
  <2> QED
    BY <1>3, <1>4, <1>14, <2>2, <2>3 DEF PageFailed
<1>15. ASSUME NEW r \in Rooms, PersistCheck(r) PROVE InTimeline'
  <2>1. PICK m \in page[r].left :
             \/ page' = [page EXCEPT ![r] = [page[r] EXCEPT !.left = page[r].left \ {m}]]
             \/ page' = [page EXCEPT ![r] = [page[r] EXCEPT !.checked = TRUE]]
    BY <1>15 DEF PersistCheck, TypeOK
  <2>2. /\ page'[r].token = page[r].token /\ page'[r].end = page[r].end /\ page'[r].left \subseteq page[r].left
        /\ \A s \in Rooms \ {r} : page'[s] = page[s]
    BY <1>1, <2>1, SMTT(30) DEF TypeOK, Pages
  <2> QED
    BY <1>15, <2>2 DEF PersistCheck, InTimeline
<1>16. ASSUME NEW r \in Rooms, PersistWrite(r) PROVE InTimeline'
  <2>1. PICK m \in page[r].left :
          /\ page' = [page EXCEPT ![r] = [page[r] EXCEPT !.left = page[r].left \ {m}, !.checked = FALSE]]
          /\ row' = row \/ upsert_event(r, m)
    BY <1>16, ZenonT(60) DEF PersistWrite, TypeOK
  <2>2. /\ page'[r].token = page[r].token /\ page'[r].end = page[r].end /\ page'[r].left \subseteq page[r].left
        /\ \A s \in Rooms \ {r} : page'[s] = page[s]
    BY <1>1, <2>1 DEF TypeOK, Pages
  <2>3. m \in Nat /\ m <= top[r]
    BY <1>1 DEF InTimeline
  <2>4. \A s \in Rooms, e \in Positions : e > top[s] => row'[s][e] = row[s][e]
    <3>1. m \in Positions /\ row \in [Rooms -> [Positions -> Ages]]
      BY <1>1 DEF TypeOK, Pages
    <3>2. \A e \in Positions : e > top[r] => e # m
      BY <1>1, <2>3 DEF Positions
    <3> QED
      BY <2>1, <3>1, <3>2, UpsertRow
  <2> QED
    BY <1>16, <2>2, <2>4, ZenonT(60) DEF PersistWrite, InTimeline
<1>17. ASSUME NEW r \in Rooms, SaveCursor(r) PROVE InTimeline'
  <2>1. page[r].end \in 0..(Depth + LiveMax + 1) /\ page[r].fetched \in 0..PageSize
    BY <1>1 DEF Pages
  <2>2. Saved(cursor[r], page[r].end, page[r].fetched).token = page[r].end
    BY <1>1, <2>1, SavedType
  <2>3. \A s \in Rooms : cursor'[s].token \in {cursor[s].token, page[s].end}
    BY <1>17, <2>2 DEF SaveCursor, TypeOK
  <2>4. \A s \in Rooms : page'[s] \in {page[s], NoPage}
    BY <1>17 DEF SaveCursor, TypeOK
  <2>5. \A s \in Rooms : snap'[s].token \in {snap[s].token, NoToken}
    BY <1>3, <1>17 DEF SaveCursor
  <2> QED
    BY <1>1, <1>2, <1>17, <2>3, <2>4, <2>5 DEF SaveCursor, InTimeline
<1>18. ASSUME UNCHANGED <<top, snap, page>>,
              \A s \in Rooms : cursor'[s] \in {cursor[s], Blank},
              \A s \in Rooms, e \in Positions : row[s][e] = "absent" => row'[s][e] = "absent"
       PROVE  InTimeline'
  BY <1>1, <1>2, <1>18 DEF InTimeline
<1>19. ASSUME NEW r \in Rooms, PersistMember(r) PROVE InTimeline'
  BY <1>18, <1>19 DEF PersistMember, Advance, TypeOK
<1>20. ASSUME NEW r \in Rooms, PurgeStart(r) PROVE InTimeline'
  BY <1>18, <1>20 DEF PurgeStart, Expire, TypeOK
<1>21. ASSUME NEW r \in Rooms, PurgeEvents(r) PROVE InTimeline'
  <2>1. \A s \in Rooms : cursor'[s] \in {cursor[s], Blank}
    BY <1>21 DEF PurgeEvents, TypeOK
  <2>2. \A s \in Rooms, e \in Positions : row[s][e] = "absent" => row'[s][e] = "absent"
    BY <1>21 DEF PurgeEvents, TypeOK
  <2> QED
    BY <1>18, <1>21, <2>1, <2>2 DEF PurgeEvents
<1>22. ASSUME NEW r \in Rooms, PurgeFinal(r) \/ PurgeFails(r) PROVE InTimeline'
  BY <1>18, <1>22 DEF PurgeFinal, PurgeFails, Restore, TypeOK
<1>23. ASSUME NEW d \in TargetDepths, Restart(d) PROVE InTimeline'
  <2>1. \A s \in Rooms : snap'[s].token = NoToken /\ page'[s] = NoPage
    BY <1>2, <1>23 DEF Restart, Abandon
  <2>2. \A s \in Rooms, e \in Positions : row[s][e] = "absent" => row'[s][e] = "absent"
    BY <1>23 DEF Restart, Restore
  <2> QED
    BY <1>1, <1>2, <1>23, <2>1, <2>2 DEF Restart, InTimeline
<1>24. CASE UNCHANGED vars
  BY <1>4, <1>24
<1> QED
  BY <1>5, <1>6, <1>7, <1>8, <1>9, <1>10, <1>11, <1>12, <1>13, <1>14, <1>15, <1>16, <1>17,
     <1>19, <1>20, <1>21, <1>22, <1>23, <1>24 DEF Next

\* No token, page or row of a room is beyond the end of its timeline.
THEOREM TimelineCorrect == Spec => []InTimeline
<1>1. Init => InTimeline
  BY InitTimeline
<1>2. TypeOK /\ InTimeline /\ [Next]_vars => InTimeline'
  BY NextTimeline
<1> QED
  BY <1>1, <1>2, TypeCorrect, PTL DEF Spec

-----------------------------------------------------------------------------
(* What the purge leaves alone *)

\* RejoinKept is not inductive: a row of the present stay must be newer than every
\* watermark, and a leave still to be stored means that the stay is over.
StayIsNew ==
  \A r \in Rooms :
    /\ handler[r] = "leave" => sdk[r] = "left"
    /\ sdk[r] = "left" => since[r] = {}
    /\ sdk[r] = "joined" => \A e \in since[r] : row[r][e] = "new"

LEMMA InitStay == ASSUME Init PROVE StayIsNew
BY DEF Init, StayIsNew

LEMMA NextStay == ASSUME TypeOK, InTimeline, StayIsNew, [Next]_vars PROVE StayIsNew'
<1> USE DEF vars, live, sweep
<1>1. ASSUME NEW r \in Rooms, LiveEvent(r) PROVE StayIsNew'
  <2>1. top[r] + 1 \in Positions
    BY <1>1, BackfillAssumption DEF LiveEvent, TypeOK, Positions
  <2>2. row[r][top[r] + 1] = "absent"
    BY <2>1, BackfillAssumption DEF InTimeline, TypeOK
  <2> DEFINE t == top[r] + 1
  <2>3. t \in Positions /\ row[r][t] = "absent"
    BY <2>1, <2>2
  <2>4. \/ UNCHANGED <<row, since>>
        \/ upsert_event(r, t) /\ since' = [since EXCEPT ![r] = since[r] \cup {t}]
    BY <1>1 DEF LiveEvent
  <2> HIDE DEF t
  <2>5. UNCHANGED <<sdk, handler>>
    BY <1>1 DEF LiveEvent
  <2>6. sdk[r] = "joined"
    BY <1>1 DEF LiveEvent
  <2>7. CASE UNCHANGED <<row, since>>
    BY <2>5, <2>7 DEF StayIsNew
  <2>8. CASE upsert_event(r, t) /\ since' = [since EXCEPT ![r] = since[r] \cup {t}]
    <3>1. /\ row'[r][t] = "new"
          /\ \A x \in Positions : x # t => row'[r][x] = row[r][x]
          /\ \A q \in Rooms : q # r => row'[q] = row[q]
      BY <2>3, <2>8, UpsertRow DEF TypeOK
    <3>2. since'[r] = since[r] \cup {t} /\ \A q \in Rooms : q # r => since'[q] = since[q]
      BY <2>8 DEF TypeOK
    <3>3. since[r] \subseteq Positions
      BY DEF TypeOK
    <3> QED
      BY <2>5, <2>6, <3>1, <3>2, <3>3 DEF StayIsNew
  <2> QED
    BY <2>4, <2>7, <2>8
<1>2. ASSUME NEW r \in Rooms, Leave(r) PROVE StayIsNew'
  BY <1>2 DEF Leave, TypeOK, StayIsNew
<1>3. ASSUME NEW r \in Rooms, Rejoin(r) PROVE StayIsNew'
  BY <1>3 DEF Rejoin, TypeOK, StayIsNew
<1>4. ASSUME NEW r \in Rooms, PersistMember(r) PROVE StayIsNew'
  <2>1. /\ UNCHANGED <<sdk, since>>
        /\ \A s \in Rooms : handler'[s] \in {handler[s], "none"}
    BY <1>4 DEF PersistMember, TypeOK
  <2>2. CASE row' = row
    BY <2>1, <2>2 DEF StayIsNew
  <2>3. CASE handler[r] = "leave" /\ Advance(r)
    <3>1. sdk[r] = "left"
      BY <2>3 DEF StayIsNew
    <3>2. \A s \in Rooms : s # r => row'[s] = row[s]
      BY <2>3, AdvanceRow DEF TypeOK
    <3> QED
      BY <2>1, <3>1, <3>2 DEF StayIsNew
  <2> QED
    BY <1>4, <2>2, <2>3 DEF PersistMember
<1>5. ASSUME NEW r \in Rooms, PersistWrite(r) PROVE StayIsNew'
  <2>1. PICK m \in page[r].left : row' = row \/ upsert_event(r, m)
    BY <1>5 DEF PersistWrite
  <2>2. m \in Positions
    BY DEF TypeOK, Pages
  <2>3. \A s \in Rooms, e \in Positions : row[s][e] = "new" => row'[s][e] = "new"
    BY <2>1, <2>2, UpsertRow DEF TypeOK
  <2>4. \A s \in Rooms : since[s] \subseteq Positions
    BY DEF TypeOK
  <2> QED
    BY <1>5, <2>3, <2>4 DEF PersistWrite, StayIsNew
<1>6. ASSUME NEW r \in Rooms, PurgeStart(r) PROVE StayIsNew'
  BY <1>6 DEF PurgeStart, Expire, TypeOK, StayIsNew
<1>7. ASSUME NEW r \in Rooms, PurgeEvents(r) PROVE StayIsNew'
  BY <1>7 DEF PurgeEvents, TypeOK, StayIsNew
<1>8. ASSUME NEW r \in Rooms, PurgeFinal(r) \/ PurgeFails(r) PROVE StayIsNew'
  BY <1>8 DEF PurgeFinal, PurgeFails, Restore, TypeOK, StayIsNew
<1>9. ASSUME NEW d \in TargetDepths, Restart(d) PROVE StayIsNew'
  BY <1>9 DEF Restart, Restore, TypeOK, StayIsNew
<1>10. ASSUME UNCHANGED <<sdk, handler, since, row>> PROVE StayIsNew'
  BY <1>10 DEF StayIsNew
<1> QED
  BY <1>1, <1>2, <1>3, <1>4, <1>5, <1>6, <1>7, <1>8, <1>9, <1>10
     DEF Next, ListCursors, DiskLow, Tick, Skip, VisitCapped, SendPage, PageServed, PageFailed,
         PersistCheck, SaveCursor, PurgeState

\* The purge of a left room, retried and restarted at any point, never deletes an
\* event received since the account joined the room again.
THEOREM RejoinCorrect == Spec => []RejoinKept
<1>1. Init => StayIsNew
  BY InitStay
<1>2. TypeOK /\ InTimeline /\ StayIsNew /\ [Next]_vars => StayIsNew'
  BY NextStay
<1>3. TypeOK /\ StayIsNew => RejoinKept
  BY DEF TypeOK, StayIsNew, RejoinKept, Stored
<1> QED
  BY <1>1, <1>2, <1>3, TypeCorrect, TimelineCorrect, PTL DEF Spec

-----------------------------------------------------------------------------
(* No gap, when history is never purged and no event is lost by the store *)

\* Every position from k up to t is stored.
Held(t, rw, k) == \A e \in 1..t : e >= k => rw[e] # "absent"

\* A request pages below stored history; of an answer, what is not stored is left.
PageHeld(t, rw, g) ==
  /\ g.phase = "fetch" /\ g.token # NoToken => Held(t, rw, g.token)
  /\ g.phase = "persist" =>
       \A e \in 1..t : e >= g.end => rw[e] # "absent" \/ e \in g.left

\* NoGap is not inductive: the token a sweep loaded, the one a request carries and the
\* one its answer brought must be as true as the cursor that is saved from them.
ClaimsHeld ==
  \A r \in Rooms :
    /\ intent[r] = "none" /\ worker[r] = "none"
    /\ cursor[r].complete => Held(top[r], row[r], 1)
    /\ cursor[r].token # NoToken => Held(top[r], row[r], cursor[r].token)
    /\ snap[r].token # NoToken => Held(top[r], row[r], snap[r].token)
    /\ PageHeld(top[r], row[r], page[r])

LEMMA InitClaims == ASSUME Init PROVE ClaimsHeld
BY DEF Init, ClaimsHeld, PageHeld, Blank, NoPage

LEMMA NextClaims ==
  ASSUME ~PurgeOnLeave, "persist" \notin StoreErrors, TypeOK, ClaimsHeld, [Next]_vars
  PROVE  ClaimsHeld'
<1> USE DEF vars, live, sweep
<1>1. /\ \A r \in Rooms : cursor[r] \in Cursors /\ snap[r] \in Cursors /\ page[r] \in Pages
      /\ \A r \in Rooms : top[r] \in Nat
      /\ row \in [Rooms -> [Positions -> Ages]]
  BY BackfillAssumption DEF TypeOK
<1>2. \A r \in Rooms : 1..top[r] \subseteq Positions
  BY BackfillAssumption DEF TypeOK, Positions
<1>3. /\ Blank.token = NoToken /\ ~Blank.complete
      /\ \A t, rw : PageHeld(t, rw, NoPage)
  BY DEF Blank, NoPage, PageHeld
<1>4. /\ \A r \in Rooms : Visited(r) => \A s \in Rooms : snap'[s].token \in {snap[s].token, NoToken}
      /\ Abandon => \A s \in Rooms : snap'[s].token \in {snap[s].token, NoToken}
  BY <1>3 DEF Visited, Abandon, TypeOK
<1>5. ASSUME UNCHANGED <<top, row, intent, worker>>,
             \A s \in Rooms : cursor'[s].complete = cursor[s].complete,
             \A s \in Rooms : cursor'[s].token \in {cursor[s].token, NoToken},
             \A s \in Rooms : snap'[s].token \in {snap[s].token, cursor[s].token, NoToken},
             \A s \in Rooms : page'[s] \in {page[s], NoPage}
      PROVE  ClaimsHeld'
  BY <1>3, <1>5 DEF ClaimsHeld
<1>6. CASE ListCursors
  BY <1>3, <1>5, <1>6 DEF ListCursors, TypeOK
<1>7. CASE DiskLow
  BY <1>4, <1>5, <1>7 DEF DiskLow
<1>8. CASE Tick
  <2>1. \A s \in Rooms : cursor'[s].token = cursor[s].token /\ cursor'[s].complete = cursor[s].complete
    BY <1>1, <1>8 DEF Tick, Cursors
  <2> QED
    BY <1>5, <1>8, <2>1 DEF Tick
<1>9. ASSUME NEW r \in Rooms, LiveEvent(r) PROVE ClaimsHeld'
  <2> DEFINE t == top[r] + 1
  <2>1. t \in Positions
    BY <1>1, <1>9, BackfillAssumption DEF LiveEvent, Positions
  <2>2. top'[r] = t /\ \A s \in Rooms : s # r => top'[s] = top[s]
    BY <1>9 DEF LiveEvent, TypeOK
  <2>3. upsert_event(r, t)
    BY <1>9 DEF LiveEvent
  <2>4. /\ row'[r][t] # "absent"
        /\ \A x \in Positions : row[r][x] # "absent" => row'[r][x] # "absent"
        /\ \A s \in Rooms : s # r => row'[s] = row[s]
    BY <1>1, <2>1, <2>3, UpsertRow
  <2>5. \A e \in 1..t : e = t \/ e \in 1..top[r]
    BY <1>1
  <2>6. \A k : Held(top[r], row[r], k) => Held(t, row'[r], k)
    BY <1>2, <2>4, <2>5 DEF Held
  <2>7. PageHeld(t, row'[r], page[r])
    BY <1>2, <2>4, <2>5, <2>6 DEF ClaimsHeld, PageHeld
  <2> HIDE DEF t
  <2>8. UNCHANGED <<cursor, snap, page, intent, worker>>
    BY <1>9 DEF LiveEvent
  <2> QED
    BY <2>2, <2>4, <2>6, <2>7, <2>8 DEF ClaimsHeld
<1>10. ASSUME NEW r \in Rooms, Leave(r) \/ Rejoin(r) \/ PersistMember(r) PROVE ClaimsHeld'
  BY <1>5, <1>10 DEF Leave, Rejoin, PersistMember
<1>11. ASSUME NEW r \in Rooms, Skip(r) PROVE ClaimsHeld'
  BY <1>4, <1>5, <1>11 DEF Skip
<1>12. ASSUME NEW r \in Rooms, VisitCapped(r) PROVE ClaimsHeld'
  <2>1. Cleared(cursor[r]).token = cursor[r].token /\ Cleared(cursor[r]).complete = cursor[r].complete
    BY <1>1, ClearedType
  <2>2. cursor' = cursor \/ cursor' = [cursor EXCEPT ![r] = Cleared(cursor[r])]
    BY <1>12 DEF VisitCapped
  <2>3. \A s \in Rooms : cursor'[s].token = cursor[s].token /\ cursor'[s].complete = cursor[s].complete
    BY <2>1, <2>2 DEF TypeOK
  <2> QED
    BY <1>4, <1>5, <1>12, <2>3 DEF VisitCapped
<1>13. ASSUME NEW r \in Rooms, SendPage(r) PROVE ClaimsHeld'
  <2>1. page' = [page EXCEPT ![r] = [page[r] EXCEPT !.phase = "fetch", !.token = snap[r].token]]
    BY <1>13 DEF SendPage, TypeOK
  <2>2. /\ page'[r].phase = "fetch" /\ page'[r].token = snap[r].token
        /\ \A s \in Rooms \ {r} : page'[s] = page[s]
    BY <1>1, <2>1 DEF TypeOK, Pages
  <2>3. PageHeld(top[r], row[r], page'[r])
    BY <2>2 DEF ClaimsHeld, PageHeld
  <2> QED
    BY <1>13, <2>2, <2>3 DEF SendPage, ClaimsHeld
<1>14. ASSUME NEW r \in Rooms, NEW n \in 0..PageSize, PageServed(r, n) PROVE ClaimsHeld'
  <2> DEFINE from == IF page[r].token = NoToken THEN top[r] + 1 ELSE page[r].token
  <2>1. from \in Nat /\ n \in Nat /\ n < from
    BY <1>1, <1>14, BackfillAssumption DEF PageServed, Pages
  <2>2. \A e \in 1..top[r] : e >= from => row[r][e] # "absent"
    BY <1>1, <1>14 DEF PageServed, ClaimsHeld, PageHeld, Held
  <2>3. PICK end \in {from - n} \cup (IF from - n = 1 THEN {NoToken} ELSE {}) :
          page' = [page EXCEPT ![r] =
                     [phase |-> "persist", token |-> NoToken,
                      left |-> (from - n)..(from - 1), fetched |-> n,
                      end |-> end, checked |-> FALSE]]
    BY <1>14 DEF PageServed
  <2> HIDE DEF from
  <2>4. \A e \in 1..top[r] : e >= end => e >= from \/ e \in (from - n)..(from - 1)
    BY <1>1, <2>1, <2>3
  <2>5. /\ page'[r].phase = "persist" /\ page'[r].end = end /\ page'[r].left = (from - n)..(from - 1)
        /\ \A s \in Rooms \ {r} : page'[s] = page[s]
    BY <2>3 DEF TypeOK
  <2>6. UNCHANGED <<top, row, cursor, snap, intent, worker>>
    BY <1>14 DEF PageServed
  <2>7. PageHeld(top[r], row[r], page'[r])
    BY <2>2, <2>4, <2>5 DEF PageHeld
  <2> QED
    BY <2>5, <2>6, <2>7 DEF ClaimsHeld
<1>15. ASSUME NEW r \in Rooms, NEW f \in {"Rejected", "Inaccessible", "Retryable"}, PageFailed(r, f)
       PROVE ClaimsHeld'
  <2> DEFINE c == failure_record(cursor[r], snap[r], f)
  <2>1. c.token \in {cursor[r].token, NoToken} /\ c.complete = cursor[r].complete
    BY <1>1, FailureRecordType
  <2>2. cursor' = cursor \/ cursor' = [cursor EXCEPT ![r] = c]
    BY <1>15 DEF PageFailed
  <2> HIDE DEF c
  <2>3. /\ \A s \in Rooms : cursor'[s].token \in {cursor[s].token, NoToken}
        /\ \A s \in Rooms : cursor'[s].complete = cursor[s].complete
    BY <2>1, <2>2 DEF TypeOK
  <2>4. \A s \in Rooms : page'[s] \in {page[s], NoPage}
    BY <1>15 DEF PageFailed, TypeOK
  <2> QED
    BY <1>4, <1>5, <1>15, <2>3, <2>4 DEF PageFailed
<1>16. ASSUME NEW r \in Rooms, PersistCheck(r) PROVE ClaimsHeld'
  <2>1. page' = [page EXCEPT ![r] = [page[r] EXCEPT !.checked = TRUE]]
    BY <1>16 DEF PersistCheck, TypeOK
  <2>2. /\ page'[r].phase = page[r].phase /\ page'[r].token = page[r].token
        /\ page'[r].end = page[r].end /\ page'[r].left = page[r].left
        /\ \A s \in Rooms \ {r} : page'[s] = page[s]
    BY <1>1, <2>1 DEF TypeOK, Pages
  <2>3. PageHeld(top[r], row[r], page'[r])
    BY <2>2 DEF ClaimsHeld, PageHeld
  <2> QED
    BY <1>16, <2>2, <2>3 DEF PersistCheck, ClaimsHeld
<1>17. ASSUME NEW r \in Rooms, PersistWrite(r) PROVE ClaimsHeld'
  <2>1. PICK m \in page[r].left :
          /\ page' = [page EXCEPT ![r] = [page[r] EXCEPT !.left = page[r].left \ {m}, !.checked = FALSE]]
          /\ upsert_event(r, m)
    BY <1>17, ZenonT(60) DEF PersistWrite, TypeOK
  <2>2. m \in Positions
    BY <1>1 DEF Pages
  <2>3. /\ page'[r].phase = page[r].phase /\ page'[r].token = page[r].token
        /\ page'[r].end = page[r].end /\ page'[r].left = page[r].left \ {m}
        /\ \A s \in Rooms \ {r} : page'[s] = page[s]
    BY <1>1, <2>1 DEF TypeOK, Pages
  <2>4. /\ row'[r][m] # "absent"
        /\ \A x \in Positions : row[r][x] # "absent" => row'[r][x] # "absent"
        /\ \A s \in Rooms : s # r => row'[s] = row[s]
    BY <1>1, <2>1, <2>2, UpsertRow
  <2>5. \A k : Held(top[r], row[r], k) => Held(top[r], row'[r], k)
    BY <1>2, <2>4 DEF Held
  <2>6. PageHeld(top[r], row'[r], page'[r])
    BY <1>2, <2>3, <2>4, <2>5 DEF ClaimsHeld, PageHeld
  <2>7. UNCHANGED <<top, cursor, snap, intent, worker>>
    BY <1>17 DEF PersistWrite
  <2> QED
    BY <2>3, <2>4, <2>5, <2>6, <2>7 DEF ClaimsHeld
<1>18. ASSUME NEW r \in Rooms, SaveCursor(r) PROVE ClaimsHeld'
  <2> DEFINE c == Saved(cursor[r], page[r].end, page[r].fetched)
  <2>1. page[r].end \in 0..(Depth + LiveMax + 1) /\ page[r].fetched \in 0..PageSize
    BY <1>1 DEF Pages
  <2>2. c.token = page[r].end /\ c.complete = (page[r].end = NoToken)
    BY <1>1, <2>1, SavedType
  <2>3. \A e \in 1..top[r] : e >= page[r].end => row[r][e] # "absent"
    BY <1>18 DEF SaveCursor, ClaimsHeld, PageHeld
  <2>4. /\ c.complete => Held(top[r], row[r], 1)
        /\ c.token # NoToken => Held(top[r], row[r], c.token)
    <3>1. Held(top[r], row[r], page[r].end)
      BY <2>3 DEF Held
    <3>2. page[r].end = NoToken => Held(top[r], row[r], 1)
      BY <1>1, <2>3 DEF Held
    <3> HIDE DEF c
    <3> QED
      BY <2>2, <3>1, <3>2
  <2>5. cursor' = cursor \/ cursor' = [cursor EXCEPT ![r] = c]
    BY <1>18 DEF SaveCursor
  <2> HIDE DEF c
  <2>6. \A s \in Rooms : cursor'[s] = cursor[s] \/ (s = r /\ cursor'[s] = c)
    BY <2>5 DEF TypeOK
  <2>7. \A s \in Rooms : page'[s] \in {page[s], NoPage}
    BY <1>18 DEF SaveCursor, TypeOK
  <2>8. \A s \in Rooms : snap'[s].token \in {snap[s].token, NoToken}
    BY <1>4, <1>18 DEF SaveCursor
  <2>9. UNCHANGED <<top, row, intent, worker>>
    BY <1>18 DEF SaveCursor
  <2> QED
    BY <1>3, <2>4, <2>6, <2>7, <2>8, <2>9 DEF ClaimsHeld
<1>19. ASSUME NEW r \in Rooms,
              PurgeStart(r) \/ PurgeEvents(r) \/ PurgeState(r) \/ PurgeFinal(r) \/ PurgeFails(r)
       PROVE  FALSE
  BY <1>19 DEF PurgeStart, PurgeEvents, PurgeState, PurgeFinal, PurgeFails, ClaimsHeld
<1>20. ASSUME NEW d \in TargetDepths, Restart(d) PROVE ClaimsHeld'
  <2>1. \A s \in Rooms : snap'[s].token = NoToken /\ page'[s] = NoPage
    BY <1>3, <1>20 DEF Restart, Abandon
  <2>2. \A s \in Rooms, e \in Positions : row[s][e] # "absent" => row'[s][e] # "absent"
    BY <1>20 DEF Restart, Restore
  <2>3. \A s \in Rooms : \A k : Held(top[s], row[s], k) => Held(top[s], row'[s], k)
    BY <1>2, <2>2 DEF Held
  <2>4. \A s \in Rooms : intent'[s] = "none" /\ worker'[s] = "none"
    BY <1>20 DEF Restart, Pending, ClaimsHeld
  <2>5. top' = top /\ cursor' = cursor
    BY <1>20 DEF Restart
  <2> QED
    BY <1>3, <2>1, <2>3, <2>4, <2>5 DEF ClaimsHeld
<1>21. CASE UNCHANGED vars
  BY <1>5, <1>21
<1> QED
  BY <1>6, <1>7, <1>8, <1>9, <1>10, <1>11, <1>12, <1>13, <1>14, <1>15, <1>16, <1>17, <1>18,
     <1>19, <1>20, <1>21 DEF Next

\* Where leaving does not purge and the store takes every event, a cursor never
\* claims history that is not stored, whatever fails, restarts, or is rejected.
THEOREM NoGapCorrect ==
  ASSUME ~PurgeOnLeave, "persist" \notin StoreErrors
  PROVE  Spec => []NoGap
<1>1. Init => ClaimsHeld
  BY InitClaims
<1>2. TypeOK /\ ClaimsHeld /\ [Next]_vars => ClaimsHeld'
  BY NextClaims
<1>3. TypeOK /\ ClaimsHeld => NoGap
  <2> SUFFICES ASSUME TypeOK, ClaimsHeld, NEW r \in Rooms, NEW e \in Reach(r)..top[r]
               PROVE  e \in Stored(r)
    BY DEF NoGap
  <2>1. top[r] \in Nat /\ cursor[r].token \in Nat /\ 1..top[r] \subseteq Positions
    BY BackfillAssumption DEF TypeOK, Cursors, Positions
  <2>2. e \in 1..top[r]
    BY <2>1 DEF Reach
  <2>3. row[r][e] # "absent"
    BY <2>1, <2>2 DEF ClaimsHeld, Held, Reach
  <2> QED
    BY <2>1, <2>2, <2>3 DEF Stored
<1> QED
  BY <1>1, <1>2, <1>3, TypeCorrect, PTL DEF Spec

-----------------------------------------------------------------------------
(* Progress *)

\* A sweep works from the cursors it loaded: while it has a room still to visit, the
\* stored cursor has only been ticked or purged, and a page is one of that room's.
SweepFollows ==
  \A r \in Rooms :
    /\ cursor[r].complete => cursor[r].token = NoToken
    /\ r \notin todo => page[r].phase = "none"
    /\ r \in todo => /\ cursor[r].token \in {snap[r].token, NoToken}
                     /\ cursor[r].wait <= snap[r].wait
                     /\ cursor[r].rejected => snap[r].rejected
    /\ page[r].phase = "fetch" => page[r].token = snap[r].token
    /\ page[r].phase = "persist" /\ snap[r].token # NoToken => page[r].end <= snap[r].token

LEMMA InitFollows == ASSUME Init PROVE SweepFollows
BY DEF Init, SweepFollows, Blank, NoPage

\* What a recorded failure does to the columns a sweep compares.
LEMMA FailureRecordFields ==
  ASSUME NEW c \in Cursors, NEW was \in Cursors,
         NEW failure \in {"Rejected", "Inaccessible", "Retryable"}
  PROVE  /\ failure_record(c, was, failure).token = NoToken /\ c.token # NoToken
              => failure = "Rejected"
         /\ failure = "Rejected" /\ was.rejected
              => /\ failure_record(c, was, failure).parked
                 /\ failure_record(c, was, failure).wait = ParkFor
<1> DEFINE g == was.failures + 1
<1>1. \A w, p : RecordFailure(c, w, p, FALSE).token = c.token
  BY DEF RecordFailure, Cursors
<1>2. \A w, t : /\ RecordFailure(c, w, TRUE, t).parked
                /\ RecordFailure(c, w, TRUE, t).wait = w
  BY DEF RecordFailure, Cursors
<1>3. CASE failure = "Rejected" /\ was.rejected
  <2>1. failure_record(c, was, failure) = RecordFailure(c, ParkFor, TRUE, TRUE)
    BY <1>3 DEF failure_record
  <2>2. /\ failure_record(c, was, failure).parked
        /\ failure_record(c, was, failure).wait = ParkFor
    BY <1>2, <2>1, Zenon
  <2> QED
    BY <1>3, <2>2
<1>4. CASE failure = "Rejected" /\ ~was.rejected
  BY <1>4
<1>5. CASE failure # "Rejected"
  <2>1. \E w, p : failure_record(c, was, failure) = RecordFailure(c, w, p, FALSE)
    <3>1. CASE failure = "Inaccessible"
      BY <3>1 DEF failure_record
    <3>2. CASE failure = "Retryable" /\ g >= ParkAfter
      BY <3>2 DEF failure_record
    <3>3. CASE failure = "Retryable" /\ ~(g >= ParkAfter)
      <4>1. ~(failure = "Rejected") /\ ~(failure = "Inaccessible") /\ ~(was.failures + 1 >= ParkAfter)
        BY <3>3
      <4>2. failure_record(c, was, failure) = RecordFailure(c, retry_delay(g), FALSE, FALSE)
        BY <4>1, Zenon DEF failure_record
      <4> QED
        BY <4>2
    <3> QED
      BY <1>5, <3>1, <3>2, <3>3
  <2> QED
    BY <1>1, <1>5, <2>1
<1> QED
  BY <1>3, <1>4, <1>5

LEMMA NextFollows == ASSUME TypeOK, SweepFollows, [Next]_vars PROVE SweepFollows'
<1> USE DEF vars, live, sweep
<1>1. /\ \A r \in Rooms : cursor[r] \in Cursors /\ snap[r] \in Cursors /\ page[r] \in Pages
      /\ \A r \in Rooms : cursor[r].token \in Nat /\ snap[r].token \in Nat
      /\ \A r \in Rooms : cursor[r].wait \in Nat /\ snap[r].wait \in Nat
      /\ \A r \in Rooms : page[r].token \in Nat /\ page[r].end \in Nat
  <2>1. \A r \in Rooms : cursor[r] \in Cursors /\ snap[r] \in Cursors /\ page[r] \in Pages
    BY DEF TypeOK
  <2>2. \A c \in Cursors : c.token \in Nat /\ c.wait \in Nat
    BY BackfillAssumption DEF Cursors
  <2>3. \A p \in Pages : p.token \in Nat /\ p.end \in Nat
    BY BackfillAssumption DEF Pages
  <2> QED
    BY <2>1, <2>2, <2>3
<1>2. /\ Blank.token = NoToken /\ Blank.wait = 0 /\ Blank.rejected = FALSE /\ Blank.complete = FALSE
      /\ NoPage.phase = "none"
  BY DEF Blank, NoPage
\* A room the sweep has visited keeps only what its cursor says of itself.
<1>3. ASSUME NEW r \in Rooms, Visited(r), page' = [page EXCEPT ![r] = NoPage],
             cursor'[r].complete => cursor'[r].token = NoToken,
             \A s \in Rooms : s # r => cursor'[s] = cursor[s]
      PROVE  SweepFollows'
  <2> SUFFICES ASSUME NEW s \in Rooms
               PROVE  /\ cursor'[s].complete => cursor'[s].token = NoToken
                      /\ s \notin todo' => page'[s].phase = "none"
                      /\ s \in todo' => /\ cursor'[s].token \in {snap'[s].token, NoToken}
                                        /\ cursor'[s].wait <= snap'[s].wait
                                        /\ cursor'[s].rejected => snap'[s].rejected
                      /\ page'[s].phase = "fetch" => page'[s].token = snap'[s].token
                      /\ page'[s].phase = "persist" /\ snap'[s].token # NoToken
                           => page'[s].end <= snap'[s].token
    BY DEF SweepFollows
  <2>1. CASE s = r
    BY <1>2, <1>3, <2>1 DEF Visited, TypeOK
  <2>2. CASE s # r
    <3>1. cursor'[s] = cursor[s] /\ snap'[s] = snap[s] /\ page'[s] = page[s] /\ (s \in todo' <=> s \in todo)
      BY <1>3, <2>2 DEF Visited, TypeOK
    <3> QED
      BY <3>1 DEF SweepFollows
  <2> QED
    BY <2>1, <2>2
<1>4. CASE ListCursors
  BY <1>1, <1>2, <1>4 DEF ListCursors, SweepFollows, Idle, TypeOK
<1>5. CASE DiskLow
  BY <1>2, <1>5 DEF DiskLow, Abandon, Between, SweepFollows
<1>6. CASE Tick
  <2>1. ASSUME NEW s \in Rooms
        PROVE  /\ cursor'[s].token = cursor[s].token
               /\ cursor'[s].complete = cursor[s].complete
               /\ cursor'[s].rejected = cursor[s].rejected
               /\ cursor'[s].wait <= cursor[s].wait /\ cursor'[s].wait \in Nat
    <3> DEFINE w == IF cursor[s].wait > 0 THEN cursor[s].wait - 1 ELSE 0
    <3>1. w \in Nat /\ w <= cursor[s].wait
      BY <1>1
    <3>2. cursor'[s] = [cursor[s] EXCEPT !.wait = w]
      BY <1>6 DEF Tick
    <3> HIDE DEF w
    <3> QED
      BY <1>1, <3>1, <3>2 DEF Cursors
  <2> QED
    BY <1>1, <1>6, <2>1 DEF Tick, SweepFollows
<1>7. ASSUME NEW r \in Rooms, Skip(r) PROVE SweepFollows'
  <2>1. page' = page /\ page[r].phase = "none"
    BY <1>7 DEF Skip, Between
  <2> QED
    BY <1>2, <1>7, <2>1 DEF Skip, Visited, SweepFollows, TypeOK
<1>8. ASSUME NEW r \in Rooms, VisitCapped(r) PROVE SweepFollows'
  <2>1. page' = page /\ page[r].phase = "none"
    BY <1>8 DEF VisitCapped, Between
  <2>2. cursor'[r].token = cursor[r].token /\ cursor'[r].complete = cursor[r].complete
    BY <1>1, <1>8, ClearedType DEF VisitCapped, TypeOK
  <2>3. \A s \in Rooms : s # r => cursor'[s] = cursor[s] /\ snap'[s] = snap[s]
    BY <1>8 DEF VisitCapped, Visited, TypeOK
  <2>4. todo' = todo \ {r} /\ snap'[r] = Blank
    BY <1>8 DEF VisitCapped, Visited, TypeOK
  <2> QED
    BY <1>2, <2>1, <2>2, <2>3, <2>4 DEF SweepFollows
<1>9. ASSUME NEW r \in Rooms, SendPage(r) PROVE SweepFollows'
  <2>1. /\ page'[r].phase = "fetch" /\ page'[r].token = snap[r].token
        /\ \A s \in Rooms : s # r => page'[s] = page[s]
    <3>1. page' = [page EXCEPT ![r] = [page[r] EXCEPT !.phase = "fetch", !.token = snap[r].token]]
      BY <1>9 DEF SendPage, TypeOK
    <3> QED
      BY <1>1, <3>1 DEF TypeOK, Pages
  <2> QED
    BY <1>9, <2>1 DEF SendPage, SweepFollows
<1>10. ASSUME NEW r \in Rooms, NEW n \in 0..PageSize, PageServed(r, n) PROVE SweepFollows'
  <2> DEFINE from == IF page[r].token = NoToken THEN top[r] + 1 ELSE page[r].token
  <2>1. PICK end \in {from - n} \cup (IF from - n = 1 THEN {NoToken} ELSE {}) :
          page' = [page EXCEPT ![r] = [phase |-> "persist", token |-> NoToken,
                                       left |-> (from - n)..(from - 1), fetched |-> n,
                                       end |-> end, checked |-> FALSE]]
    BY <1>10 DEF PageServed
  <2>2. /\ page'[r].phase = "persist" /\ page'[r].end = end
        /\ \A s \in Rooms : s # r => page'[s] = page[s]
    BY <2>1 DEF TypeOK
  <2>3. page[r].phase = "fetch" /\ r \in todo /\ page[r].token = snap[r].token
    BY <1>10 DEF PageServed, SweepFollows
  <2>4. snap[r].token # NoToken => end <= snap[r].token
    BY <1>1, <2>1, <2>3, BackfillAssumption
  <2>5. UNCHANGED <<cursor, snap, todo>>
    BY <1>10 DEF PageServed
  <2> QED
    BY <2>2, <2>3, <2>4, <2>5 DEF SweepFollows
<1>11. ASSUME NEW r \in Rooms, NEW f \in {"Rejected", "Inaccessible", "Retryable"}, PageFailed(r, f)
       PROVE SweepFollows'
  <2>1. /\ failure_record(cursor[r], snap[r], f).token \in {cursor[r].token, NoToken}
        /\ failure_record(cursor[r], snap[r], f).complete = cursor[r].complete
    BY <1>1, FailureRecordType
  <2>2. cursor'[r].complete => cursor'[r].token = NoToken
    BY <1>11, <2>1 DEF PageFailed, SweepFollows, TypeOK
  <2>3. \A s \in Rooms : s # r => cursor'[s] = cursor[s]
    BY <1>11 DEF PageFailed, TypeOK
  <2> QED
    BY <1>3, <1>11, <2>2, <2>3 DEF PageFailed
<1>12. ASSUME NEW r \in Rooms, SaveCursor(r) PROVE SweepFollows'
  <2>1. page[r].end \in 0..(Depth + LiveMax + 1) /\ page[r].fetched \in 0..PageSize
    BY <1>1 DEF Pages
  <2>2. /\ Saved(cursor[r], page[r].end, page[r].fetched).token = page[r].end
        /\ Saved(cursor[r], page[r].end, page[r].fetched).complete = (page[r].end = NoToken)
    BY <1>1, <2>1, SavedType
  <2>3. cursor'[r].complete => cursor'[r].token = NoToken
    BY <1>12, <2>2 DEF SaveCursor, SweepFollows, TypeOK
  <2>4. \A s \in Rooms : s # r => cursor'[s] = cursor[s]
    BY <1>12 DEF SaveCursor, TypeOK
  <2> QED
    BY <1>3, <1>12, <2>3, <2>4 DEF SaveCursor
<1>13. ASSUME NEW r \in Rooms, PersistCheck(r) \/ PersistWrite(r) PROVE SweepFollows'
  <2>1. \A s \in Rooms : page'[s].phase = page[s].phase /\ page'[s].token = page[s].token
                           /\ page'[s].end = page[s].end
    <3>1. PICK e : \/ page' = [page EXCEPT ![r].left = @ \ {e}]
                   \/ page' = [page EXCEPT ![r].checked = TRUE]
                   \/ page' = [page EXCEPT ![r].left = @ \ {e}, ![r].checked = FALSE]
      <4>1. CASE PersistCheck(r)
        BY <4>1 DEF PersistCheck
      <4>2. CASE PersistWrite(r)
        BY <4>2 DEF PersistWrite
      <4> QED
        BY <1>13, <4>1, <4>2
    <3>2. TAKE s \in Rooms
    <3>3. page \in [Rooms -> Pages]
      BY <1>1 DEF TypeOK
    <3>4. CASE s = r
      BY <3>1, <3>3, <3>4 DEF Pages
    <3>5. CASE s # r
      BY <3>1, <3>3, <3>5
    <3> QED
      BY <3>4, <3>5
  <2> QED
    BY <1>13, <2>1 DEF PersistCheck, PersistWrite, SweepFollows
<1>14. ASSUME NEW r \in Rooms, PurgeEvents(r) \/ PurgeFinal(r) PROVE SweepFollows'
  <2>1. \A s \in Rooms : cursor'[s] = cursor[s] \/ cursor'[s] = Blank
    BY <1>14 DEF PurgeEvents, PurgeFinal, TypeOK
  <2>2. UNCHANGED <<todo, snap, page>>
    BY <1>14 DEF PurgeEvents, PurgeFinal
  <2> QED
    BY <1>1, <1>2, <2>1, <2>2 DEF SweepFollows
<1>15. ASSUME NEW d \in TargetDepths, Restart(d) PROVE SweepFollows'
  BY <1>2, <1>15 DEF Restart, Abandon, SweepFollows
<1>16. ASSUME UNCHANGED <<cursor, todo, snap, page>> PROVE SweepFollows'
  BY <1>16 DEF SweepFollows
<1> QED
  BY <1>4, <1>5, <1>6, <1>7, <1>8, <1>9, <1>10, <1>11, <1>12, <1>13, <1>14, <1>15, <1>16
     DEF Next, LiveEvent, Leave, Rejoin, PersistMember, PurgeStart, PurgeState, PurgeFails

LEMMA FollowsAlways == Spec => []SweepFollows
<1>1. Init => SweepFollows
  BY InitFollows
<1>2. TypeOK /\ SweepFollows /\ [Next]_vars => SweepFollows'
  BY NextFollows
<1> QED
  BY <1>1, <1>2, TypeCorrect, PTL DEF Spec

\* What one step may do to a room's cursor.
LEMMA CursorStep ==
  ASSUME TypeOK, SweepFollows, [Next]_vars, NEW r \in Rooms
  PROVE  /\ cursor[r].token # NoToken /\ cursor'[r].token # NoToken
              => cursor'[r].token <= cursor[r].token /\ ~cursor[r].complete
         /\ cursor[r].token # NoToken /\ cursor[r].rejected /\ cursor'[r].rejected
              => \/ cursor'[r].token # NoToken
                 \/ cursor'[r].complete
                 \/ cursor'[r].parked /\ cursor'[r].wait > 0
<1> USE DEF vars, live, sweep
<1> DEFINE Step(d) ==
             /\ cursor[r].token # NoToken /\ d.token # NoToken
                  => d.token <= cursor[r].token /\ ~cursor[r].complete
             /\ cursor[r].token # NoToken /\ cursor[r].rejected /\ d.rejected
                  => d.token # NoToken \/ d.complete \/ (d.parked /\ d.wait > 0)
<1>1. /\ cursor[r] \in Cursors /\ snap[r] \in Cursors /\ page[r] \in Pages
      /\ cursor[r].token \in Nat /\ page[r].end \in Nat
      /\ cursor[r].complete => cursor[r].token = NoToken
  <2>1. cursor[r] \in Cursors /\ snap[r] \in Cursors /\ page[r] \in Pages
    BY DEF TypeOK
  <2> QED
    BY <2>1, BackfillAssumption DEF Cursors, Pages, SweepFollows
<1>2. \A d : d.token = cursor[r].token => Step(d)
  BY <1>1
<1>3. SUFFICES Step(cursor'[r])
  OBVIOUS
<1>4. Step(Blank)
  BY DEF Blank
<1>5. CASE Tick
  <2>1. cursor'[r].token = cursor[r].token
    BY <1>1, <1>5 DEF Tick, Cursors
  <2> QED
    BY <1>2, <2>1
<1>6. ASSUME NEW s \in Rooms, VisitCapped(s) PROVE Step(cursor'[r])
  <2>1. cursor'[r].token = cursor[r].token
    BY <1>1, <1>6, ClearedType DEF VisitCapped, TypeOK
  <2> QED
    BY <1>2, <2>1
<1>7. ASSUME NEW s \in Rooms, NEW f \in {"Rejected", "Inaccessible", "Retryable"}, PageFailed(s, f)
      PROVE  Step(cursor'[r])
  <2> DEFINE d == failure_record(cursor[r], snap[r], f)
  <2>1. CASE cursor'[r] = cursor[r]
    BY <1>2, <2>1
  <2>2. CASE s = r /\ cursor'[r] = d
    <3>1. d.token \in {cursor[r].token, NoToken}
      BY <1>1, FailureRecordType
    <3>2. /\ d.token = NoToken /\ cursor[r].token # NoToken => f = "Rejected"
          /\ f = "Rejected" /\ snap[r].rejected => d.parked /\ d.wait = ParkFor
      BY <1>1, FailureRecordFields
    <3>3. cursor[r].rejected => snap[r].rejected
      BY <1>7, <2>2 DEF PageFailed, SweepFollows
    <3> HIDE DEF d
    <3> QED
      BY <1>1, <2>2, <3>1, <3>2, <3>3, BackfillAssumption
  <2> QED
    BY <1>7, <2>1, <2>2 DEF PageFailed, TypeOK
<1>8. ASSUME NEW s \in Rooms, SaveCursor(s) PROVE Step(cursor'[r])
  <2> DEFINE d == Saved(cursor[r], page[r].end, page[r].fetched)
  <2>1. CASE cursor'[r] = cursor[r]
    BY <1>2, <2>1
  <2>2. CASE s = r /\ cursor'[r] = d
    <3>1. page[r].end \in 0..(Depth + LiveMax + 1) /\ page[r].fetched \in 0..PageSize
      BY <1>1 DEF Pages
    <3>2. d.token = page[r].end /\ d.complete = (page[r].end = NoToken)
      BY <1>1, <3>1, SavedType
    <3>3. /\ cursor[r].token \in {snap[r].token, NoToken}
          /\ snap[r].token # NoToken => page[r].end <= snap[r].token
      BY <1>8, <2>2 DEF SaveCursor, SweepFollows
    <3> HIDE DEF d
    <3> QED
      BY <1>1, <2>2, <3>2, <3>3
  <2> QED
    BY <1>8, <2>1, <2>2 DEF SaveCursor, TypeOK
<1>9. ASSUME NEW s \in Rooms, PurgeEvents(s) \/ PurgeFinal(s) PROVE Step(cursor'[r])
  <2>1. cursor'[r] = cursor[r] \/ cursor'[r] = Blank
    BY <1>9 DEF PurgeEvents, PurgeFinal, TypeOK
  <2> QED
    BY <1>2, <1>4, <2>1
<1>10. ASSUME cursor' = cursor PROVE Step(cursor'[r])
  BY <1>2, <1>10
<1> QED
  BY <1>5, <1>6, <1>7, <1>8, <1>9, <1>10
     DEF Next, ListCursors, DiskLow, LiveEvent, Leave, Rejoin, PersistMember,
         Skip, SendPage, PageServed, PersistCheck, PersistWrite, PurgeStart, PurgeState,
         PurgeFails, Restart

\* A sweep's stale cursor moves no room back up, asks for no room before its backoff
\* is over, and sends no room to its live end twice without a delay.
THEOREM ProgressCorrect == Spec => ProgressKept
<1>1. TypeOK /\ SweepFollows /\ [Next]_vars =>
        \A r \in Rooms :
          cursor[r].token # NoToken /\ cursor'[r].token # NoToken
            => cursor'[r].token <= cursor[r].token /\ ~cursor[r].complete
  BY CursorStep
<1>2. TypeOK /\ SweepFollows => \A r \in Rooms : SendPage(r) => cursor[r].wait = 0
  <2> SUFFICES ASSUME TypeOK, SweepFollows, NEW r \in Rooms, SendPage(r)
               PROVE  cursor[r].wait = 0
    OBVIOUS
  <2>1. cursor[r].wait <= snap[r].wait /\ snap[r].wait = 0 /\ cursor[r].wait \in Nat
    BY BackfillAssumption DEF SendPage, Due, SweepFollows, TypeOK, Cursors
  <2> QED
    BY <2>1
<1>3. TypeOK /\ SweepFollows /\ [Next]_vars =>
        \A r \in Rooms :
          cursor[r].token # NoToken /\ cursor[r].rejected /\ cursor'[r].rejected
            => \/ cursor'[r].token # NoToken
               \/ cursor'[r].complete
               \/ cursor'[r].parked /\ cursor'[r].wait > 0
  BY CursorStep
<1> QED
  BY <1>1, <1>2, <1>3, TypeCorrect, FollowsAlways, PTL
  DEF Spec, ProgressKept, NeverShallower, BackoffKept, WalkBackDelayed

-----------------------------------------------------------------------------
(* A recorded leave is purged *)

\* Where the watermarks stand: rows covered by the worker's are in the room it is
\* deleting from, which has an intent; without an intent no row is covered; and rows
\* covered only by the intent's are those of a leave that has advanced it since.
WatermarksStand ==
  \A r \in Rooms :
    /\ worker[r] # "events" => \A e \in Positions : row[r][e] # "worker"
    /\ worker[r] # "none" => intent[r] # "none" /\ \A s \in Rooms \ {r} : worker[s] = "none"
    /\ intent[r] = "advanced" => worker[r] # "none"
    /\ intent[r] = "none" \/ (worker[r] # "none" /\ intent[r] = "same")
         => \A e \in Positions : row[r][e] # "intent"

\* After a leave is recorded, the one row that is not covered is of a write that had
\* passed its membership check: there is none while that write is still to come.
OneLateWrite ==
  PurgeOnLeave =>
    \A r \in Rooms :
      sdk[r] = "left" /\ handler[r] = "none" =>
        /\ page[r].checked => \A e \in Positions : row[r][e] # "new"
        /\ \A x, y \in Positions : row[r][x] = "new" /\ row[r][y] = "new" => x = y

LeftIsLeaving == \A r \in Rooms : sdk[r] = "left" => handler[r] # "join"

LEMMA InitMarks == ASSUME Init PROVE WatermarksStand /\ OneLateWrite /\ LeftIsLeaving
BY DEF Init, WatermarksStand, OneLateWrite, LeftIsLeaving

\* A batch that is short has every row it could have.
LEMMA ShortBatch ==
  ASSUME NEW r \in Rooms, NEW batch \in SUBSET {e \in Positions : row[r][e] = "worker"},
         Cardinality(batch) < PurgeBatch,
         LET old == {e \in Positions : row[r][e] = "worker"}
         IN Cardinality(batch) = IF Cardinality(old) < PurgeBatch THEN Cardinality(old)
                                                                 ELSE PurgeBatch
  PROVE  batch = {e \in Positions : row[r][e] = "worker"}
<1> DEFINE old == {e \in Positions : row[r][e] = "worker"}
<1>1. IsFiniteSet(Positions)
  BY FS_Interval, BackfillAssumption DEF Positions
<1>2. IsFiniteSet(old)
  <2>1. old \subseteq Positions
    OBVIOUS
  <2> QED
    BY <1>1, <2>1, FS_Subset
<1>3. Cardinality(old) \in Nat /\ PurgeBatch \in Nat
  BY <1>2, FS_CardinalityType, BackfillAssumption
<1>4. Cardinality(batch) = Cardinality(old)
  BY <1>3
<1> HIDE DEF old
<1>5. batch \subseteq old
  BY DEF old
<1>6. batch = old
  BY <1>2, <1>4, <1>5, FS_Subset
<1> QED
  BY <1>6 DEF old

\* Every step keeps the watermarks in order.
LEMMA NextMarks == ASSUME TypeOK, WatermarksStand, [Next]_vars PROVE WatermarksStand'
<1> USE DEF vars, live, sweep
<1>1. /\ row \in [Rooms -> [Positions -> Ages]]
      /\ worker \in [Rooms -> {"none", "events", "state", "final"}]
      /\ intent \in [Rooms -> {"none", "same", "advanced"}]
  BY DEF TypeOK
<1>2. ASSUME UNCHANGED <<worker, intent>>,
             \A s \in Rooms, e \in Positions : row'[s][e] \in {row[s][e], "new", "absent"}
      PROVE  WatermarksStand'
  BY <1>2 DEF WatermarksStand
<1>3. ASSUME NEW r \in Rooms, LiveEvent(r) PROVE WatermarksStand'
  <2>1. top[r] + 1 \in Positions
    BY <1>3, BackfillAssumption DEF LiveEvent, TypeOK, Positions
  <2>2. row' = row \/ upsert_event(r, top[r] + 1)
    BY <1>3 DEF LiveEvent
  <2>3. \A s \in Rooms, e \in Positions : row'[s][e] \in {row[s][e], "new"}
    BY <1>1, <2>1, <2>2, UpsertRow
  <2> QED
    BY <1>2, <1>3, <2>3 DEF LiveEvent
<1>4. ASSUME NEW r \in Rooms, PersistWrite(r) PROVE WatermarksStand'
  <2>1. PICK m \in page[r].left : row' = row \/ upsert_event(r, m)
    BY <1>4 DEF PersistWrite
  <2>2. m \in Positions
    BY DEF TypeOK, Pages
  <2>3. \A s \in Rooms, e \in Positions : row'[s][e] \in {row[s][e], "new"}
    BY <1>1, <2>1, <2>2, UpsertRow
  <2> QED
    BY <1>2, <1>4, <2>3 DEF PersistWrite
<1>5. ASSUME NEW r \in Rooms, PersistMember(r) PROVE WatermarksStand'
  <2>1. CASE Advance(r)
    <3>1. /\ \A x \in Positions : row'[r][x] = IF row[r][x] = "new" THEN "intent" ELSE row[r][x]
          /\ \A s \in Rooms : s # r => row'[s] = row[s]
      BY <1>1, <2>1, AdvanceRow
    <3>2. PICK moved \in BOOLEAN :
            /\ (\E e \in Positions : row[r][e] = "new") => moved
            /\ intent' = [intent EXCEPT ![r] =
                            IF worker[r] = "none" THEN "same"
                            ELSE IF moved THEN "advanced" ELSE @]
      BY <2>1 DEF Advance
    <3>3. worker' = worker /\ \A s \in Rooms : s # r => intent'[s] = intent[s]
      BY <1>1, <1>5, <3>2 DEF PersistMember
    <3>4. CASE worker[r] = "none"
      <4>1. intent'[r] = "same"
        BY <1>1, <3>2, <3>4
      <4> QED
        BY <3>1, <3>3, <3>4, <4>1 DEF WatermarksStand
    <3>5. CASE worker[r] # "none" /\ moved
      <4>1. intent'[r] = "advanced"
        BY <1>1, <3>2, <3>5
      <4> QED
        BY <3>1, <3>3, <3>5, <4>1 DEF WatermarksStand
    <3>6. CASE worker[r] # "none" /\ ~moved
      <4>1. intent'[r] = intent[r] /\ \A x \in Positions : row'[r][x] = row[r][x]
        BY <1>1, <3>1, <3>2, <3>6
      <4> QED
        BY <3>1, <3>3, <3>6, <4>1 DEF WatermarksStand
    <3> QED
      BY <3>4, <3>5, <3>6
  <2>2. CASE UNCHANGED <<row, intent>>
    BY <1>2, <1>5, <2>2 DEF PersistMember
  <2> QED
    BY <1>5, <2>1, <2>2 DEF PersistMember
<1>6. ASSUME NEW r \in Rooms, PurgeStart(r) PROVE WatermarksStand'
  <2>1. /\ \A e \in Positions : row'[r][e] = IF row[r][e] = "intent" THEN "worker" ELSE row[r][e]
        /\ \A s \in Rooms : s # r => row'[s] = row[s]
    BY <1>1, <1>6 DEF PurgeStart, Expire
  <2>2. /\ worker'[r] = "events" /\ \A s \in Rooms : s # r => worker'[s] = "none"
        /\ \A s \in Rooms : worker[s] = "none"
        /\ intent' = intent /\ intent[r] # "none"
    BY <1>1, <1>6 DEF PurgeStart
  <2> QED
    BY <2>1, <2>2 DEF WatermarksStand
<1>7. ASSUME NEW r \in Rooms, PurgeEvents(r) PROVE WatermarksStand'
  <2> DEFINE old == {e \in Positions : row[r][e] = "worker"}
  <2>1. PICK batch \in SUBSET old :
          /\ Cardinality(batch) = IF Cardinality(old) < PurgeBatch THEN Cardinality(old) ELSE PurgeBatch
          /\ row' = [row EXCEPT ![r] = [e \in Positions |-> IF e \in batch THEN "absent" ELSE row[r][e]]]
          /\ worker' = IF Cardinality(batch) < PurgeBatch
                       THEN [worker EXCEPT ![r] = "state"] ELSE worker
    BY <1>7 DEF PurgeEvents
  <2>2. worker[r] = "events" /\ intent' = intent
    BY <1>7 DEF PurgeEvents
  <2>3. /\ \A e \in Positions : row'[r][e] = IF e \in batch THEN "absent" ELSE row[r][e]
        /\ \A s \in Rooms : s # r => row'[s] = row[s]
    BY <1>1, <2>1
  <2>4. CASE Cardinality(batch) < PurgeBatch
    <3>1. batch = old
      BY <2>1, <2>4, ShortBatch
    <3>2. \A e \in Positions : row'[r][e] # "worker"
      BY <2>3, <3>1
    <3>3. worker'[r] = "state" /\ \A s \in Rooms : s # r => worker'[s] = worker[s]
      BY <1>1, <2>1, <2>4
    <3> HIDE DEF old
    <3> QED
      BY <2>2, <2>3, <3>2, <3>3 DEF WatermarksStand
  <2>5. CASE ~(Cardinality(batch) < PurgeBatch)
    <3>1. \A s \in Rooms, e \in Positions : row'[s][e] \in {row[s][e], "absent"}
      BY <2>3
    <3> QED
      BY <1>2, <2>1, <2>2, <2>5, <3>1
  <2> QED
    BY <2>4, <2>5
<1>8. ASSUME NEW r \in Rooms, PurgeState(r) PROVE WatermarksStand'
  <2>1. /\ worker[r] = "state" /\ worker'[r] = "final"
        /\ \A s \in Rooms : s # r => worker'[s] = worker[s]
        /\ UNCHANGED <<row, intent>>
    BY <1>1, <1>8 DEF PurgeState
  <2> QED
    BY <2>1 DEF WatermarksStand
<1>9. /\ \A s \in Rooms, e \in Positions :
           Restore(row)[s][e] = IF row[s][e] = "worker" THEN "intent" ELSE row[s][e]
      /\ \A s \in Rooms : /\ Pending[s] # "advanced"
                          /\ Pending[s] = "none" <=> intent[s] = "none"
  BY <1>1 DEF Restore, Pending
<1>10. ASSUME NEW r \in Rooms, PurgeFinal(r) PROVE WatermarksStand'
  <2>1. worker[r] = "final" /\ row' = Restore(row)
    BY <1>10 DEF PurgeFinal
  <2>2. \A s \in Rooms : worker'[s] = "none"
    BY <1>1, <1>10, <2>1 DEF PurgeFinal, WatermarksStand
  <2>3. \A s \in Rooms, e \in Positions : row'[s][e] = row[s][e] /\ row[s][e] # "worker"
    BY <1>9, <2>1 DEF WatermarksStand
  <2>4. CASE intent[r] = "same"
    <3>1. intent'[r] = "none" /\ \A s \in Rooms : s # r => intent'[s] = intent[s]
      BY <1>1, <1>10, <2>4 DEF PurgeFinal
    <3> QED
      BY <2>1, <2>2, <2>3, <2>4, <3>1 DEF WatermarksStand
  <2>5. CASE intent[r] # "same"
    <3>1. intent' = Pending
      BY <1>10, <2>5 DEF PurgeFinal
    <3> QED
      BY <1>9, <2>2, <2>3, <3>1 DEF WatermarksStand
  <2> QED
    BY <2>4, <2>5
<1>11. ASSUME row' = Restore(row), intent' = Pending, \A s \in Rooms : worker'[s] = "none"
       PROVE  WatermarksStand'
  BY <1>9, <1>11 DEF WatermarksStand
<1>12. ASSUME NEW r \in Rooms, PurgeFails(r) PROVE WatermarksStand'
  <2>1. \A s \in Rooms : worker'[s] = "none"
    BY <1>1, <1>12 DEF PurgeFails, WatermarksStand
  <2> QED
    BY <1>11, <1>12, <2>1 DEF PurgeFails
<1>13. ASSUME NEW d \in TargetDepths, Restart(d) PROVE WatermarksStand'
  BY <1>11, <1>13 DEF Restart
<1>14. ASSUME UNCHANGED <<row, worker, intent>> PROVE WatermarksStand'
  BY <1>14 DEF WatermarksStand
<1> QED
  BY <1>3, <1>4, <1>5, <1>6, <1>7, <1>8, <1>10, <1>12, <1>13, <1>14
     DEF Next, ListCursors, DiskLow, Tick, Leave, Rejoin, Skip, VisitCapped, SendPage,
         PageServed, PageFailed, PersistCheck, SaveCursor

\* No step leaves a second uncovered row in a room whose leave is recorded, when the
\* record of a leave is not lost.
LEMMA NextLate ==
  ASSUME "member" \notin StoreErrors, TypeOK, OneLateWrite, LeftIsLeaving, [Next]_vars
  PROVE  OneLateWrite' /\ LeftIsLeaving'
<1> USE DEF vars, live, sweep
<1>1. /\ row \in [Rooms -> [Positions -> Ages]] /\ page \in [Rooms -> Pages]
      /\ sdk \in [Rooms -> {"joined", "left"}] /\ handler \in [Rooms -> {"join", "leave", "none"}]
  BY DEF TypeOK
<1>2. ASSUME UNCHANGED <<sdk, handler>>,
             \A s \in Rooms, e \in Positions : row'[s][e] = "new" => row[s][e] = "new",
             \A s \in Rooms : page'[s].checked => page[s].checked
      PROVE  OneLateWrite' /\ LeftIsLeaving'
  BY <1>2 DEF OneLateWrite, LeftIsLeaving
<1>3. ASSUME NEW r \in Rooms, LiveEvent(r) PROVE OneLateWrite' /\ LeftIsLeaving'
  <2>1. top[r] + 1 \in Positions
    BY <1>3, BackfillAssumption DEF LiveEvent, TypeOK, Positions
  <2>2. row' = row \/ upsert_event(r, top[r] + 1)
    BY <1>3 DEF LiveEvent
  <2>3. \A s \in Rooms : s # r => row'[s] = row[s]
    BY <1>1, <2>1, <2>2, UpsertRow
  <2>4. UNCHANGED <<sdk, handler, page>> /\ sdk[r] # "left"
    BY <1>3 DEF LiveEvent
  <2> QED
    BY <2>3, <2>4 DEF OneLateWrite, LeftIsLeaving
<1>4. ASSUME NEW r \in Rooms, Leave(r) \/ Rejoin(r) PROVE OneLateWrite' /\ LeftIsLeaving'
  <2>1. /\ UNCHANGED <<row, page>>
        /\ handler'[r] # "none"
        /\ sdk'[r] = "left" => handler'[r] # "join"
        /\ \A s \in Rooms : s # r => sdk'[s] = sdk[s] /\ handler'[s] = handler[s]
    BY <1>1, <1>4 DEF Leave, Rejoin
  <2> QED
    BY <2>1 DEF OneLateWrite, LeftIsLeaving
<1>5. ASSUME NEW r \in Rooms, PersistMember(r) PROVE OneLateWrite' /\ LeftIsLeaving'
  <2>1. /\ UNCHANGED <<sdk, page>> /\ handler[r] # "none" /\ handler'[r] = "none"
        /\ \A s \in Rooms : s # r => handler'[s] = handler[s]
    BY <1>1, <1>5 DEF PersistMember
  <2>2. LeftIsLeaving'
    BY <2>1 DEF LeftIsLeaving
  <2>3. CASE sdk[r] = "left" /\ PurgeOnLeave
    <3>1. handler[r] = "leave"
      BY <1>1, <2>1, <2>3 DEF LeftIsLeaving
    <3>2. Advance(r)
      BY <1>5, <2>3, <3>1 DEF PersistMember
    <3>3. /\ \A x \in Positions : row'[r][x] # "new"
          /\ \A s \in Rooms : s # r => row'[s] = row[s]
      BY <1>1, <3>2, AdvanceRow
    <3> QED
      BY <2>1, <2>2, <3>3 DEF OneLateWrite
  <2>4. CASE sdk[r] # "left" /\ PurgeOnLeave
    <3>1. \A s \in Rooms : s # r => row'[s] = row[s]
      BY <1>1, <1>5, AdvanceRow DEF PersistMember
    <3> QED
      BY <2>1, <2>2, <2>4, <3>1 DEF OneLateWrite
  <2>5. CASE ~PurgeOnLeave
    BY <2>2, <2>5 DEF OneLateWrite
  <2> QED
    BY <2>3, <2>4, <2>5
<1>6. ASSUME NEW r \in Rooms, SendPage(r) PROVE OneLateWrite' /\ LeftIsLeaving'
  <2>1. \A s \in Rooms : page'[s].checked = page[s].checked
    BY <1>1, <1>6 DEF SendPage, Pages
  <2> QED
    BY <1>2, <1>6, <2>1 DEF SendPage
<1>7. ASSUME NEW r \in Rooms, NEW n \in 0..PageSize, PageServed(r, n)
      PROVE  OneLateWrite' /\ LeftIsLeaving'
  <2>1. \A s \in Rooms : page'[s].checked => page[s].checked
    BY <1>1, <1>7 DEF PageServed
  <2> QED
    BY <1>2, <1>7, <2>1 DEF PageServed
<1>8. ~NoPage.checked
  BY DEF NoPage
<1>9. ASSUME NEW r \in Rooms, NEW f \in {"Rejected", "Inaccessible", "Retryable"}, PageFailed(r, f)
      PROVE  OneLateWrite' /\ LeftIsLeaving'
  <2>1. \A s \in Rooms : page'[s].checked => page[s].checked
    BY <1>1, <1>8, <1>9 DEF PageFailed
  <2> QED
    BY <1>2, <1>9, <2>1 DEF PageFailed
<1>10. ASSUME NEW r \in Rooms, SaveCursor(r) PROVE OneLateWrite' /\ LeftIsLeaving'
  <2>1. \A s \in Rooms : page'[s].checked => page[s].checked
    BY <1>1, <1>8, <1>10 DEF SaveCursor
  <2> QED
    BY <1>2, <1>10, <2>1 DEF SaveCursor
<1>11. ASSUME NEW r \in Rooms, PersistCheck(r) PROVE OneLateWrite' /\ LeftIsLeaving'
  <2>1. UNCHANGED <<sdk, handler, row>> /\ \A s \in Rooms : s # r => page'[s] = page[s]
    BY <1>1, <1>11 DEF PersistCheck
  <2>2. CASE PurgeOnLeave /\ sdk[r] = "left"
    <3>1. PICK e : page' = [page EXCEPT ![r].left = @ \ {e}]
      BY <1>11, <2>2 DEF PersistCheck
    <3>2. page'[r].checked = page[r].checked
      BY <1>1, <3>1 DEF Pages
    <3> QED
      BY <1>2, <2>1, <3>2
  <2>3. CASE ~(PurgeOnLeave /\ sdk[r] = "left")
    BY <2>1, <2>3 DEF OneLateWrite, LeftIsLeaving
  <2> QED
    BY <2>2, <2>3
<1>12. ASSUME NEW r \in Rooms, PersistWrite(r) PROVE OneLateWrite' /\ LeftIsLeaving'
  <2>1. PICK m \in page[r].left : /\ row' = row \/ upsert_event(r, m)
                                  /\ page' = [page EXCEPT ![r].left = @ \ {m}, ![r].checked = FALSE]
    BY <1>12 DEF PersistWrite
  <2>2. m \in Positions
    BY <1>1 DEF Pages
  <2>3. /\ \A e \in Positions : e # m => row'[r][e] = row[r][e]
        /\ \A s \in Rooms : s # r => row'[s] = row[s]
    BY <1>1, <2>1, <2>2, UpsertRow
  <2>4. ~page'[r].checked /\ \A s \in Rooms : s # r => page'[s] = page[s]
    BY <1>1, <2>1 DEF Pages
  <2>5. page[r].checked /\ UNCHANGED <<sdk, handler>>
    BY <1>12 DEF PersistWrite
  <2> QED
    BY <2>3, <2>4, <2>5 DEF OneLateWrite, LeftIsLeaving
<1>13. ASSUME NEW r \in Rooms, PurgeStart(r) \/ PurgeEvents(r)
       PROVE  OneLateWrite' /\ LeftIsLeaving'
  <2>1. CASE PurgeStart(r)
    BY <1>1, <1>2, <2>1 DEF PurgeStart, Expire
  <2>2. CASE PurgeEvents(r)
    <3>1. PICK batch :
            row' = [row EXCEPT ![r] = [e \in Positions |-> IF e \in batch THEN "absent" ELSE row[r][e]]]
      BY <2>2 DEF PurgeEvents
    <3>2. \A s \in Rooms, e \in Positions : row'[s][e] = "new" => row[s][e] = "new"
      BY <1>1, <3>1
    <3> QED
      BY <1>2, <2>2, <3>2 DEF PurgeEvents
  <2> QED
    BY <1>13, <2>1, <2>2
<1>14. \A s \in Rooms, e \in Positions : Restore(row)[s][e] = "new" => row[s][e] = "new"
  BY DEF Restore
<1>15. ASSUME NEW r \in Rooms, PurgeFinal(r) \/ PurgeFails(r)
       PROVE  OneLateWrite' /\ LeftIsLeaving'
  BY <1>2, <1>14, <1>15 DEF PurgeFinal, PurgeFails
<1>16. ASSUME NEW d \in TargetDepths, Restart(d) PROVE OneLateWrite' /\ LeftIsLeaving'
  BY <1>2, <1>8, <1>14, <1>16 DEF Restart
<1>17. ASSUME UNCHANGED <<sdk, handler, row, page>> PROVE OneLateWrite' /\ LeftIsLeaving'
  BY <1>2, <1>17
<1> QED
  BY <1>3, <1>4, <1>5, <1>6, <1>7, <1>9, <1>10, <1>11, <1>12, <1>13, <1>15, <1>16, <1>17
     DEF Next, ListCursors, DiskLow, Tick, Skip, VisitCapped, PurgeState

\* When no record of a leave is lost, a room whose leave is recorded and whose purge is
\* over keeps at most one event: the write that was past its membership check. Retries,
\* crashes of the worker, rejoins and leaves during the purge do not leave a second.
THEOREM PurgeCorrect ==
  ASSUME "member" \notin StoreErrors
  PROVE  Spec => []PurgeComplete
<1>1. Init => WatermarksStand /\ OneLateWrite /\ LeftIsLeaving
  BY InitMarks
<1>2. TypeOK /\ WatermarksStand /\ [Next]_vars => WatermarksStand'
  BY NextMarks
<1>3. TypeOK /\ OneLateWrite /\ LeftIsLeaving /\ [Next]_vars => OneLateWrite' /\ LeftIsLeaving'
  BY NextLate
<1>4. TypeOK /\ WatermarksStand /\ OneLateWrite => PurgeComplete
  <2> SUFFICES ASSUME TypeOK, WatermarksStand, OneLateWrite, PurgeOnLeave, NEW r \in Rooms,
                      sdk[r] = "left", handler[r] = "none", intent[r] = "none"
               PROVE  Cardinality(Stored(r)) <= 1
    BY DEF PurgeComplete
  <2>1. \A e \in Positions : row[r][e] \in {"absent", "new"}
    BY DEF TypeOK, WatermarksStand, Ages
  <2>2. \A x, y \in Stored(r) : x = y
    BY <2>1 DEF OneLateWrite, Stored
  <2>3. CASE Stored(r) = {}
    BY <2>3, FS_EmptySet
  <2>4. CASE Stored(r) # {}
    <3>1. PICK x : x \in Stored(r)
      BY <2>4
    <3>2. Stored(r) = {x}
      BY <2>2, <3>1
    <3> QED
      BY <3>2, FS_Singleton
  <2> QED
    BY <2>3, <2>4
<1> QED
  BY <1>1, <1>2, <1>3, <1>4, TypeCorrect, PTL DEF Spec

=============================================================================
