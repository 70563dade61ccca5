------------------------ MODULE HomeserverGateProofs ------------------------
(* Theorems about HomeserverGate, for any sets of tasks and any constants. *)
EXTENDS HomeserverGate, FiniteSetTheorems, SequenceTheorems, TLAPS

-----------------------------------------------------------------------------
(* Sequences of held slots, and the queue *)

\* Releasing the expired holds leaves a sequence of holds.
LEMMA LiveType ==
  ASSUME NEW h \in Seq(0..TimeoutHold)
  PROVE  /\ Live(h) \in Seq(0..TimeoutHold)
         /\ Len(Live(h)) \in Nat
<1> DEFINE Z == {i \in DOMAIN h : h[i] = 0}
<1>1. /\ Len(h) \in Nat
      /\ DOMAIN h = 1..Len(h)
      /\ \A i \in 1..Len(h) : h[i] \in 0..TimeoutHold
  BY LenProperties
<1>2. IsFiniteSet(1..Len(h)) /\ Cardinality(1..Len(h)) = Len(h)
  BY <1>1, FS_Interval
<1>3. Z \in SUBSET (1..Len(h))
  BY <1>1
<1>4. Cardinality(Z) \in Nat
  BY <1>2, <1>3, FS_Subset, FS_CardinalityType
<1>5. \A i \in (Cardinality(Z) + 1)..Len(h) : h[i] \in 0..TimeoutHold
  BY <1>1, <1>4
<1>6. SubSeq(h, Cardinality(Z) + 1, Len(h)) \in Seq(0..TimeoutHold)
  BY <1>1, <1>4, <1>5, SubSeqProperties
<1> QED
  BY <1>6, LenProperties DEF Live

\* A tick leaves a sequence of holds.
LEMMA TickType ==
  ASSUME NEW h \in Seq(0..TimeoutHold)
  PROVE  [i \in DOMAIN h |-> Passed(h[i])] \in Seq(0..TimeoutHold)
<1>1. /\ Len(h) \in Nat
      /\ DOMAIN h = 1..Len(h)
      /\ \A i \in 1..Len(h) : h[i] \in 0..TimeoutHold
  BY LenProperties
<1>2. \A i \in 1..Len(h) : Passed(h[i]) \in 0..TimeoutHold
  BY <1>1, ConstantsAssumption DEF Passed
<1>3. [i \in DOMAIN h |-> Passed(h[i])] \in [1..Len(h) -> 0..TimeoutHold]
  BY <1>1, <1>2
<1> QED
  BY <1>1, <1>3, SeqDef

\* A waiter that leaves the queue leaves everyone else in it.
LEMMA WithoutProperties ==
  ASSUME NEW q \in Seq(Background), NEW b, InQueue(q, b), Distinct(q)
  PROVE  /\ Without(q, b) \in Seq(Background)
         /\ \A c : InQueue(Without(q, b), c) <=> InQueue(q, c) /\ c # b
         /\ Distinct(Without(q, b))
<1> DEFINE k == CHOOSE i \in 1..Len(q) : q[i] = b
           front == SubSeq(q, 1, k - 1)
           back == SubSeq(q, k + 1, Len(q))
           w == front \o back
<1>1. Len(q) \in Nat /\ \A i \in 1..Len(q) : q[i] \in Background
  BY LenProperties
<1>2. k \in 1..Len(q) /\ q[k] = b
  BY DEF InQueue
<1> HIDE DEF k
<1>3. /\ front \in Seq(Background)
      /\ Len(front) = k - 1
      /\ \A i \in 1..(k - 1) : front[i] = q[i]
  <2>1. \A i \in 1..(k - 1) : q[i] \in Background
    BY <1>1, <1>2
  <2> QED
    BY <1>1, <1>2, <2>1, SubSeqProperties
<1>4. /\ back \in Seq(Background)
      /\ Len(back) = Len(q) - k
      /\ \A i \in 1..(Len(q) - k) : back[i] = q[k + i]
  <2>1. \A i \in (k + 1)..Len(q) : q[i] \in Background
    BY <1>1, <1>2
  <2>2. k + 1 \in Int /\ Len(q) \in Int
    BY <1>1, <1>2
  <2>3. /\ back \in Seq(Background)
        /\ Len(back) = IF k + 1 <= Len(q) THEN Len(q) - (k + 1) + 1 ELSE 0
        /\ \A i \in 1..(Len(q) - (k + 1) + 1) : back[i] = q[(k + 1) + i - 1]
    BY <2>1, <2>2, SubSeqProperties
  <2> QED
    BY <1>1, <1>2, <2>3
<1> HIDE DEF front, back
<1>5. /\ w \in Seq(Background)
      /\ Len(w) = Len(q) - 1
      /\ \A i \in 1..Len(w) : w[i] = IF i < k THEN q[i] ELSE q[i + 1]
  BY <1>1, <1>2, <1>3, <1>4, ConcatProperties
<1>6. w = Without(q, b)
  BY DEF Without, k, front, back
<1> HIDE DEF w
<1>7. \A c : InQueue(w, c) <=> InQueue(q, c) /\ c # b
  <2> SUFFICES ASSUME NEW c
               PROVE  InQueue(w, c) <=> InQueue(q, c) /\ c # b
    OBVIOUS
  <2>1. ASSUME InQueue(w, c) PROVE InQueue(q, c) /\ c # b
    <3>1. PICK i \in 1..Len(w) : w[i] = c
      BY <2>1 DEF InQueue
    <3>2. PICK j \in 1..Len(q) : q[j] = c /\ j # k
      BY <1>1, <1>2, <1>5, <3>1
    <3> QED
      BY <1>2, <3>2 DEF InQueue, Distinct
  <2>2. ASSUME InQueue(q, c), c # b PROVE InQueue(w, c)
    <3>1. PICK j \in 1..Len(q) : q[j] = c
      BY <2>2 DEF InQueue
    <3>2. j # k
      BY <1>2, <2>2, <3>1
    <3>3. CASE j < k
      <4>1. j \in 1..Len(w) /\ w[j] = c
        BY <1>1, <1>2, <1>5, <3>1, <3>3
      <4> QED
        BY <4>1 DEF InQueue
    <3>4. CASE j > k
      <4>1. j - 1 \in 1..Len(w) /\ w[j - 1] = c
        BY <1>1, <1>2, <1>5, <3>1, <3>4
      <4> QED
        BY <4>1 DEF InQueue
    <3> QED
      BY <1>1, <1>2, <3>1, <3>2, <3>3, <3>4
  <2> QED
    BY <2>1, <2>2
<1>8. Distinct(w)
  BY <1>1, <1>2, <1>5 DEF Distinct
<1> QED
  BY <1>5, <1>6, <1>7, <1>8

\* A waiter that joins the queue, and the head that leaves it.
LEMMA AppendWaiter ==
  ASSUME NEW q \in Seq(Background), NEW b \in Background, ~InQueue(q, b), Distinct(q)
  PROVE  /\ Append(q, b) \in Seq(Background)
         /\ \A c : InQueue(Append(q, b), c) <=> InQueue(q, c) \/ c = b
         /\ Distinct(Append(q, b))
<1>1. /\ Len(q) \in Nat
      /\ Append(q, b) \in Seq(Background)
      /\ Len(Append(q, b)) = Len(q) + 1
      /\ \A i \in 1..Len(q) : Append(q, b)[i] = q[i]
      /\ Append(q, b)[Len(q) + 1] = b
  BY LenProperties, AppendProperties
<1>2. \A i \in 1..Len(q) : q[i] # b
  BY DEF InQueue
<1>3. \A c : InQueue(Append(q, b), c) <=> InQueue(q, c) \/ c = b
  BY <1>1 DEF InQueue
<1>4. Distinct(Append(q, b))
  BY <1>1, <1>2 DEF Distinct
<1> QED
  BY <1>1, <1>3, <1>4

LEMMA TailWaiters ==
  ASSUME NEW q \in Seq(Background), q # <<>>, Distinct(q)
  PROVE  /\ Tail(q) \in Seq(Background)
         /\ Head(q) \in Background
         /\ \A c : InQueue(Tail(q), c) <=> InQueue(q, c) /\ c # Head(q)
         /\ Distinct(Tail(q))
<1>1. /\ Len(q) \in Nat \ {0}
      /\ Head(q) \in Background
      /\ Head(q) = q[1]
      /\ Tail(q) \in Seq(Background)
      /\ Len(Tail(q)) = Len(q) - 1
      /\ \A i \in 1..Len(Tail(q)) : Tail(q)[i] = q[i + 1]
  BY LenProperties, EmptySeq, HeadTailProperties
<1>2. \A c : InQueue(Tail(q), c) <=> InQueue(q, c) /\ c # Head(q)
  <2> SUFFICES ASSUME NEW c
               PROVE  InQueue(Tail(q), c) <=> InQueue(q, c) /\ c # Head(q)
    OBVIOUS
  <2>1. ASSUME InQueue(Tail(q), c) PROVE InQueue(q, c) /\ c # Head(q)
    <3>1. PICK i \in 1..Len(Tail(q)) : Tail(q)[i] = c
      BY <2>1 DEF InQueue
    <3>2. i + 1 \in 1..Len(q) /\ q[i + 1] = c /\ i + 1 # 1 /\ 1 \in 1..Len(q)
      BY <1>1, <3>1
    <3> QED
      BY <1>1, <3>2 DEF InQueue, Distinct
  <2>2. ASSUME InQueue(q, c), c # Head(q) PROVE InQueue(Tail(q), c)
    <3>1. PICK j \in 1..Len(q) : q[j] = c
      BY <2>2 DEF InQueue
    <3>2. j - 1 \in 1..Len(Tail(q)) /\ Tail(q)[j - 1] = c
      BY <1>1, <2>2, <3>1
    <3> QED
      BY <3>2 DEF InQueue
  <2> QED
    BY <2>1, <2>2
<1>3. Distinct(Tail(q))
  BY <1>1 DEF Distinct
<1> QED
  BY <1>1, <1>2, <1>3

-----------------------------------------------------------------------------
(* Type correctness *)

\* The types need the queue invariant (leaving the queue means being in it) and
\* the count of permits (a slot that is freed was taken).
Inv1 == TypeOK /\ QueueHoldsWaiters /\ ActiveCountsPermits

\* Taking, freeing and keeping a permit.
LEMMA PermitsFinite == IsFiniteSet(Permits) /\ Cardinality(Permits) \in Nat
  BY TasksAssumption, FS_Subset, FS_CardinalityType DEF Permits

LEMMA PermitTaken ==
  ASSUME TypeOK, ActiveCountsPermits, NEW b \in Background, pc[b] # "sending",
         Goto(b, "sending"), active' = active + 1
  PROVE  ActiveCountsPermits' /\ active' \in Nat
<1>1. Permits' = Permits \cup {b} /\ b \notin Permits
  BY DEF Permits, Goto, TypeOK, Requests, Waiters
<1>2. Cardinality(Permits \cup {b}) = Cardinality(Permits) + 1
  BY <1>1, PermitsFinite, FS_AddElement
<1> QED
  BY <1>1, <1>2 DEF ActiveCountsPermits, TypeOK

LEMMA PermitFreed ==
  ASSUME TypeOK, ActiveCountsPermits, NEW b \in Background, pc[b] = "sending",
         Goto(b, "idle"), active' = active - 1
  PROVE  ActiveCountsPermits' /\ active' \in Nat
<1>1. Permits' = Permits \ {b} /\ b \in Permits
  BY DEF Permits, Goto, TypeOK, Requests, Waiters
<1>2. /\ IsFiniteSet(Permits \ {b})
      /\ Cardinality(Permits \ {b}) = Cardinality(Permits) - 1
  BY <1>1, PermitsFinite, FS_RemoveElement
<1>3. Cardinality(Permits \ {b}) \in Nat
  BY <1>2, FS_CardinalityType
<1> QED
  BY <1>1, <1>2, <1>3 DEF ActiveCountsPermits

LEMMA PermitsKept ==
  ASSUME ActiveCountsPermits, UNCHANGED active,
         \A b \in Background : pc'[b] = "sending" <=> pc[b] = "sending"
  PROVE  ActiveCountsPermits'
  BY DEF ActiveCountsPermits, Permits

\* A timed-out request's slot joins the held ones.
LEMMA HoldType ==
  ASSUME TypeOK, NEW outcome, Hold(outcome)
  PROVE  held' \in Seq(0..TimeoutHold)
<1>1. TimeoutHold \in 0..TimeoutHold
  BY ConstantsAssumption
<1>2. Append(held, TimeoutHold) \in Seq(0..TimeoutHold)
  BY <1>1, AppendProperties DEF TypeOK
<1> QED
  BY <1>2 DEF Hold, TypeOK

LEMMA LearnedTypes ==
  ASSUME TypeOK, NEW r, NEW outcome, NEW floor \in {0, 1},
         Halve(r, floor) \/ Grow(r) \/ FinishProbe(r, outcome)
           \/ (UNCHANGED learned /\ Forget(r)) \/ (DropProbe /\ Forget(r))
  PROVE  /\ limit' \in 0..MaxLimit
         /\ fast' \in 0..(GrowAfter - 1)
         /\ breaker' \in {"Closed", "Open", "Probing"}
         /\ until' \in Nat
         /\ reopenings' \in 0..ReopenCap
         /\ fresh' \subseteq Requests
<1> USE ConstantsAssumption, ReopenCapAssumption DEF TypeOK
<1>1. CASE Halve(r, floor)
  <2> DEFINE half == IF limit \div 2 < floor THEN floor ELSE limit \div 2
  <2>1. CASE r \in fresh /\ breaker = "Closed" /\ half # limit
    <3>1. limit \in 1..MaxLimit \/ limit = 0
      OBVIOUS
    <3>2. half \in 0..MaxLimit
      BY <2>1, <3>1
    <3>3. /\ limit' = half /\ fresh' = {} /\ fast' = 0
          /\ \/ breaker' = "Open" /\ until' = cooldown(0) /\ reopenings' = 0
             \/ UNCHANGED <<breaker, until, reopenings>>
      BY <1>1, <2>1 DEF Halve
    <3> HIDE DEF half
    <3>4. cooldown(0) \in Nat /\ 0 \in 0..ReopenCap /\ 0 \in 0..(GrowAfter - 1)
      OBVIOUS
    <3> QED
      BY <3>2, <3>3, <3>4
  <2>2. CASE ~(r \in fresh /\ breaker = "Closed" /\ half # limit)
    BY <1>1, <2>2 DEF Halve, Forget, learned
  <2> QED
    BY <2>1, <2>2
<1>2. CASE Grow(r)
  BY <1>2 DEF Grow, Forget
<1>3. CASE FinishProbe(r, outcome)
  <2> DEFINE n == IF reopenings < ReopenCap THEN reopenings + 1 ELSE ReopenCap
  <2>1. n \in 0..ReopenCap
    OBVIOUS
  <2>2. cooldown(n) \in Nat
    BY <2>1
  <2>3. CASE outcome \in HardFailure
    <3>1. /\ breaker' = "Open" /\ reopenings' = n /\ until' = cooldown(n)
          /\ UNCHANGED <<limit, fast>> /\ fresh' = fresh \ {r}
      BY <1>3, <2>3 DEF FinishProbe, Forget
    <3> QED
      BY <2>1, <2>2, <3>1
  <2>4. CASE outcome \notin HardFailure
    BY <1>3, <2>4 DEF FinishProbe, Forget
  <2> QED
    BY <2>3, <2>4
<1>4. CASE UNCHANGED learned /\ Forget(r)
  BY <1>4 DEF Forget, learned
<1>5. CASE DropProbe /\ Forget(r)
  BY <1>5 DEF DropProbe, Forget
<1> QED
  BY <1>1, <1>2, <1>3, <1>4, <1>5

\* The deadlines a refused task can sleep to.
LEMMA WaitForType ==
  ASSUME TypeOK
  PROVE  WaitFor(Live(held)) \in Nat \cup {Never}
<1>1. Live(held) \in Seq(0..TimeoutHold)
  BY LiveType DEF TypeOK
<1>2. Live(held) # <<>> => Head(Live(held)) \in Nat
  BY <1>1, HeadTailProperties, ConstantsAssumption
<1> QED
  BY <1>2 DEF WaitFor, earliest_hold, TypeOK

LEMMA Inv1Init == Init => Inv1
<1> SUFFICES ASSUME Init PROVE Inv1
  OBVIOUS
<1> USE ConstantsAssumption, ReopenCapAssumption
<1>1. /\ Len(<<>>) = 0
      /\ <<>> \in Seq(Background)
      /\ <<>> \in Seq(0..TimeoutHold)
  BY EmptySeq
<1>2. TypeOK
  BY <1>1 DEF Init, TypeOK
<1>3. QueueHoldsWaiters
  BY <1>1 DEF Init, QueueHoldsWaiters, InQueue, Distinct, Requests, Waiters
<1>4. Permits = {}
  BY DEF Init, Permits, Requests, Waiters
<1>5. ActiveCountsPermits
  BY <1>4, FS_EmptySet DEF Init, ActiveCountsPermits
<1> QED
  BY <1>2, <1>3, <1>5 DEF Inv1

LEMMA Inv1Background ==
  ASSUME Inv1, NEW b \in Background,
         \/ Acquire(b) \/ Admit(b) \/ Defer(b) \/ CancelAcquire(b)
         \/ AcquireBriefly(b) \/ TryAcquire(b)
         \/ \E outcome \in Outcome : Finish(b, outcome)
         \/ Release(b)
  PROVE  Inv1'
<1>0. /\ TypeOK /\ QueueHoldsWaiters /\ ActiveCountsPermits
      /\ b \in Requests /\ b \in Waiters
  BY DEF Inv1, Requests, Waiters
<1>l. Live(held) \in Seq(0..TimeoutHold) /\ WaitFor(Live(held)) \in Nat \cup {Never}
  BY <1>0, LiveType, WaitForType DEF TypeOK
<1>1. CASE Acquire(b)
  <2>1. ~InQueue(queue, b) /\ Distinct(queue)
    BY <1>0, <1>1 DEF Acquire, QueueHoldsWaiters, TypeOK
  <2>2. /\ queue' \in Seq(Background)
        /\ \A c : InQueue(queue', c) <=> InQueue(queue, c) \/ c = b
        /\ Distinct(queue')
    BY <1>0, <1>1, <2>1, AppendWaiter DEF Acquire, TypeOK
  <2>3. TypeOK'
    BY <1>0, <1>1, <2>2 DEF Acquire, TypeOK, Goto, Sleep, learned
  <2>4. QueueHoldsWaiters'
    BY <1>0, <1>1, <2>2 DEF Acquire, TypeOK, QueueHoldsWaiters, Goto, Requests, Waiters
  <2>5. ActiveCountsPermits'
    BY <1>0, <1>1, PermitsKept DEF Acquire, TypeOK, Goto, Requests, Waiters
  <2> QED
    BY <2>3, <2>4, <2>5 DEF Inv1
<1>2. CASE Admit(b)
  <2>1. /\ queue' \in Seq(Background)
        /\ \A c : InQueue(queue', c) <=> InQueue(queue, c) /\ c # b
        /\ Distinct(queue')
    BY <1>0, <1>2, TailWaiters DEF Admit, TypeOK, QueueHoldsWaiters
  <2>2. ActiveCountsPermits' /\ active' \in Nat
    BY <1>0, <1>2, PermitTaken DEF Admit
  <2>3. TypeOK'
    BY <1>0, <1>l, <1>2, <2>1, <2>2 DEF Admit, TypeOK, Goto, Wake, Clear
  <2>4. QueueHoldsWaiters'
    BY <1>0, <1>2, <2>1 DEF Admit, TypeOK, QueueHoldsWaiters, Goto, Requests, Waiters
  <2> QED
    BY <2>2, <2>3, <2>4 DEF Inv1
<1>3. CASE Defer(b)
  <2>1. TypeOK'
    BY <1>0, <1>l, <1>3 DEF Defer, TypeOK, Sleep, learned
  <2>2. QueueHoldsWaiters'
    BY <1>0, <1>3 DEF Defer, QueueHoldsWaiters
  <2>3. ActiveCountsPermits'
    BY <1>0, <1>3, PermitsKept DEF Defer
  <2> QED
    BY <2>1, <2>2, <2>3 DEF Inv1
<1>4. CASE CancelAcquire(b)
  <2>1. InQueue(queue, b) /\ Distinct(queue)
    BY <1>0, <1>4 DEF CancelAcquire, QueueHoldsWaiters
  <2>2. /\ queue' \in Seq(Background)
        /\ \A c : InQueue(queue', c) <=> InQueue(queue, c) /\ c # b
        /\ Distinct(queue')
    BY <1>0, <1>4, <2>1, WithoutProperties DEF CancelAcquire, TypeOK
  <2>3. TypeOK'
    BY <1>0, <1>4, <2>2 DEF CancelAcquire, TypeOK, Goto, Wake, learned
  <2>4. QueueHoldsWaiters'
    BY <1>0, <1>4, <2>2 DEF CancelAcquire, TypeOK, QueueHoldsWaiters, Goto, Requests, Waiters
  <2>5. ActiveCountsPermits'
    BY <1>0, <1>4, PermitsKept DEF CancelAcquire, TypeOK, Goto, Requests, Waiters
  <2> QED
    BY <2>3, <2>4, <2>5 DEF Inv1
<1>5. CASE AcquireBriefly(b)
  <2>1. TypeOK' /\ QueueHoldsWaiters'
    BY <1>0, <1>5
    DEF AcquireBriefly, TypeOK, QueueHoldsWaiters, Goto, Requests, Waiters, learned
  <2>2. ActiveCountsPermits'
    BY <1>0, <1>5, PermitsKept DEF AcquireBriefly, TypeOK, Goto, Requests, Waiters
  <2> QED
    BY <2>1, <2>2 DEF Inv1
<1>6. CASE TryAcquire(b)
  <2>1. QueueHoldsWaiters'
    BY <1>0, <1>6 DEF TryAcquire, TypeOK, QueueHoldsWaiters, Goto, Requests, Waiters
  <2>2. CASE Goto(b, "sending") /\ active' = active + 1
    <3>1. ActiveCountsPermits' /\ active' \in Nat
      BY <1>0, <1>6, <2>2, PermitTaken DEF TryAcquire
    <3>2. TypeOK'
      BY <1>0, <1>l, <1>6, <2>2, <3>1 DEF TryAcquire, TypeOK, Goto, Clear
    <3> QED
      BY <2>1, <3>1, <3>2 DEF Inv1
  <2>3. CASE Goto(b, "idle") /\ UNCHANGED active
    <3>1. ActiveCountsPermits'
      BY <1>0, <1>6, <2>3, PermitsKept DEF TryAcquire, TypeOK, Goto, Requests, Waiters
    <3>2. TypeOK'
      BY <1>0, <1>l, <1>6, <2>3 DEF TryAcquire, TypeOK, Goto, Clear
    <3> QED
      BY <2>1, <3>1, <3>2 DEF Inv1
  <2> QED
    BY <1>6, <2>2, <2>3 DEF TryAcquire
<1>7. ASSUME NEW outcome \in Outcome, Finish(b, outcome) PROVE Inv1'
  <2>1. \/ FinishProbe(b, outcome) \/ Grow(b) \/ Halve(b, 0)
        \/ (UNCHANGED learned /\ Forget(b))
    BY <1>7 DEF Finish
  <2>2. /\ limit' \in 0..MaxLimit
        /\ fast' \in 0..(GrowAfter - 1)
        /\ breaker' \in {"Closed", "Open", "Probing"}
        /\ until' \in Nat
        /\ reopenings' \in 0..ReopenCap
        /\ fresh' \subseteq Requests
    BY <1>0, <2>1, LearnedTypes
  <2>3. held' \in Seq(0..TimeoutHold)
    BY <1>0, <1>7, HoldType DEF Finish
  <2>4. ActiveCountsPermits' /\ active' \in Nat
    BY <1>0, <1>7, PermitFreed DEF Finish
  <2>5. TypeOK'
    BY <1>0, <1>7, <2>2, <2>3, <2>4 DEF Finish, TypeOK, Goto, Wake
  <2>6. QueueHoldsWaiters'
    BY <1>0, <1>7 DEF Finish, TypeOK, QueueHoldsWaiters, Goto, Requests, Waiters
  <2> QED
    BY <2>4, <2>5, <2>6 DEF Inv1
<1>8. CASE Release(b)
  <2>1. (DropProbe /\ Forget(b)) \/ (UNCHANGED learned /\ Forget(b))
    BY <1>8 DEF Release
  <2>2. /\ limit' \in 0..MaxLimit
        /\ fast' \in 0..(GrowAfter - 1)
        /\ breaker' \in {"Closed", "Open", "Probing"}
        /\ until' \in Nat
        /\ reopenings' \in 0..ReopenCap
        /\ fresh' \subseteq Requests
    BY <1>0, <2>1, LearnedTypes
  <2>3. ActiveCountsPermits' /\ active' \in Nat
    BY <1>0, <1>8, PermitFreed DEF Release
  <2>4. TypeOK'
    BY <1>0, <1>8, <2>2, <2>3 DEF Release, TypeOK, Goto, Wake
  <2>5. QueueHoldsWaiters'
    BY <1>0, <1>8 DEF Release, TypeOK, QueueHoldsWaiters, Goto, Requests, Waiters
  <2> QED
    BY <2>3, <2>4, <2>5 DEF Inv1
<1> QED
  BY <1>1, <1>2, <1>3, <1>4, <1>5, <1>6, <1>7, <1>8

\* A long-poll has no place in the queue and takes no slot.
LEMMA Inv1Polls ==
  ASSUME Inv1, NEW p \in Polls,
         \/ PollStart(p) \/ PollAdmit(p) \/ PollDefer(p) \/ PollCancel(p)
         \/ \E outcome \in Outcome : PollFinish(p, outcome)
         \/ PollRelease(p)
  PROVE  Inv1'
<1>0. /\ TypeOK /\ QueueHoldsWaiters /\ ActiveCountsPermits
      /\ p \in Requests /\ p \in Waiters
      /\ \A b \in Background : b \in Requests /\ b # p
  BY TasksAssumption DEF Inv1, Requests, Waiters
<1>l. Live(held) \in Seq(0..TimeoutHold) /\ WaitFor(Live(held)) \in Nat \cup {Never}
  BY <1>0, LiveType, WaitForType DEF TypeOK
<1>a. UNCHANGED <<queue, active>> /\ \A b \in Background : pc'[b] = pc[b]
  BY <1>0 DEF PollStart, PollAdmit, PollDefer, PollCancel, PollFinish, PollRelease,
              Goto, TypeOK
<1>b. QueueHoldsWaiters' /\ ActiveCountsPermits'
  BY <1>0, <1>a, PermitsKept DEF QueueHoldsWaiters
<1> SUFFICES TypeOK'
  BY <1>b DEF Inv1
<1>1. CASE PollStart(p)
  BY <1>0, <1>1 DEF PollStart, TypeOK, Goto, Sleep, learned
<1>6. CASE PollCancel(p)
  BY <1>0, <1>6 DEF PollCancel, TypeOK, Goto, Sleep, learned
<1>2. CASE PollAdmit(p)
  BY <1>0, <1>l, <1>2, <1>a DEF PollAdmit, TypeOK, Goto, Clear
<1>3. CASE PollDefer(p)
  BY <1>0, <1>l, <1>3, <1>a DEF PollDefer, TypeOK, Sleep, learned
<1>4. ASSUME NEW outcome \in Outcome, PollFinish(p, outcome) PROVE TypeOK'
  <2>1. \/ FinishProbe(p, outcome) \/ Halve(p, 0) \/ (UNCHANGED learned /\ Forget(p))
    BY <1>4 DEF PollFinish
  <2>2. /\ limit' \in 0..MaxLimit
        /\ fast' \in 0..(GrowAfter - 1)
        /\ breaker' \in {"Closed", "Open", "Probing"}
        /\ until' \in Nat
        /\ reopenings' \in 0..ReopenCap
        /\ fresh' \subseteq Requests
    BY <1>0, <2>1, LearnedTypes
  <2>3. held' \in Seq(0..TimeoutHold)
    BY <1>0, <1>4, HoldType DEF PollFinish
  <2> QED
    BY <1>0, <1>4, <2>2, <2>3 DEF PollFinish, TypeOK, Goto, Wake
<1>5. CASE PollRelease(p)
  <2>1. (DropProbe /\ Forget(p)) \/ (UNCHANGED learned /\ Forget(p))
    BY <1>5 DEF PollRelease
  <2>2. /\ limit' \in 0..MaxLimit
        /\ fast' \in 0..(GrowAfter - 1)
        /\ breaker' \in {"Closed", "Open", "Probing"}
        /\ until' \in Nat
        /\ reopenings' \in 0..ReopenCap
        /\ fresh' \subseteq Requests
    BY <1>0, <2>1, LearnedTypes
  <2> QED
    BY <1>0, <1>5, <2>2 DEF PollRelease, TypeOK, Goto, Wake
<1> QED
  BY <1>1, <1>2, <1>3, <1>4, <1>5, <1>6

\* Neither an interactive call, nor a status read, nor time moves a background task.
LEMMA Inv1Others ==
  ASSUME Inv1,
         \/ \E i \in Interactive :
              InteractiveStart(i) \/ \E outcome \in Outcome : InteractiveFinish(i, outcome)
         \/ Snapshot \/ Tick \/ UNCHANGED vars
  PROVE  Inv1'
<1>0. TypeOK /\ QueueHoldsWaiters /\ ActiveCountsPermits
  BY DEF Inv1
<1>1. ASSUME NEW i \in Interactive, InteractiveStart(i) PROVE Inv1'
  <2>1. TypeOK'
    BY <1>0, <1>1 DEF InteractiveStart, TypeOK, Goto, Requests, learned
  <2>2. UNCHANGED <<queue, active>> /\ \A b \in Background : pc'[b] = pc[b]
    BY <1>0, <1>1, TasksAssumption DEF InteractiveStart, TypeOK, Goto, Requests, Waiters
  <2> QED
    BY <1>0, <2>1, <2>2, PermitsKept DEF Inv1, QueueHoldsWaiters
<1>2. ASSUME NEW i \in Interactive, NEW outcome \in Outcome, InteractiveFinish(i, outcome)
      PROVE Inv1'
  <2>1. Halve(i, 1) \/ (UNCHANGED learned /\ Forget(i))
    BY <1>2 DEF InteractiveFinish
  <2>2. /\ limit' \in 0..MaxLimit
        /\ fast' \in 0..(GrowAfter - 1)
        /\ breaker' \in {"Closed", "Open", "Probing"}
        /\ until' \in Nat
        /\ reopenings' \in 0..ReopenCap
        /\ fresh' \subseteq Requests
    BY <1>0, <2>1, LearnedTypes
  <2>3. TypeOK'
    BY <1>0, <1>2, <2>2 DEF InteractiveFinish, TypeOK, Goto
  <2>4. UNCHANGED <<queue, active>> /\ \A b \in Background : pc'[b] = pc[b]
    BY <1>0, <1>2, TasksAssumption DEF InteractiveFinish, TypeOK, Goto, Requests, Waiters
  <2> QED
    BY <1>0, <2>3, <2>4, PermitsKept DEF Inv1, QueueHoldsWaiters
<1>3. CASE Snapshot
  <2>1. TypeOK'
    BY <1>0, <1>3, LiveType DEF Snapshot, TypeOK, learned
  <2> QED
    BY <1>0, <1>3, <2>1, PermitsKept DEF Inv1, Snapshot, QueueHoldsWaiters
<1>4. CASE Tick
  <2>1. held' \in Seq(0..TimeoutHold)
    BY <1>0, <1>4, TickType DEF Tick, TypeOK
  <2>2. TypeOK'
    BY <1>0, <1>4, <2>1 DEF Tick, TypeOK, Passed, Never
  <2> QED
    BY <1>0, <1>4, <2>2, PermitsKept DEF Inv1, Tick, QueueHoldsWaiters
<1>5. CASE UNCHANGED vars
  BY <1>0, <1>5, PermitsKept DEF Inv1, vars, TypeOK, QueueHoldsWaiters
<1> QED
  BY <1>1, <1>2, <1>3, <1>4, <1>5

LEMMA Inv1Next == Inv1 /\ [Next]_vars => Inv1'
  BY Inv1Background, Inv1Polls, Inv1Others DEF Next

LEMMA Inv1Always == Spec => []Inv1
  BY Inv1Init, Inv1Next, PTL DEF Spec

\* Every variable keeps the shape of the gate's State, and the limit its cap.
THEOREM TypeCorrect == Spec => []TypeOK
<1>1. Inv1 => TypeOK
  BY DEF Inv1
<1> QED
  BY <1>1, Inv1Always, PTL

\* No interleaving of acquire, cancel, finish and drop loses or doubles a waiter.
THEOREM QueueCorrect == Spec => []QueueHoldsWaiters
<1>1. Inv1 => QueueHoldsWaiters
  BY DEF Inv1
<1> QED
  BY <1>1, Inv1Always, PTL

\* Slots are neither leaked nor freed twice.
THEOREM SlotsCorrect == Spec => []ActiveCountsPermits
<1>1. Inv1 => ActiveCountsPermits
  BY DEF Inv1
<1> QED
  BY <1>1, Inv1Always, PTL

-----------------------------------------------------------------------------
(* The breaker and its probe *)

Inv2 == ProbeInFlight /\ BreakerAtZero

LEMMA Inv2Init == Init => Inv2
  BY ConstantsAssumption DEF Init, Inv2, ProbeInFlight, BreakerAtZero

\* Admitting a request that was not in flight.
LEMMA ClearProbe ==
  ASSUME TypeOK, Inv2, NEW r \in Requests, pc[r] # "sending",
         breaker # "Probing", Clear(r), Goto(r, "sending"), UNCHANGED limit
  PROVE  Inv2'
<1>1. prober = {}
  BY DEF Inv2, ProbeInFlight
<1>2. BreakerAtZero'
  BY DEF Inv2, BreakerAtZero, Clear, TypeOK
<1>3. CASE breaker = "Open"
  <2>1. breaker' = "Probing" /\ prober' = {r} /\ pc'[r] = "sending"
    BY <1>1, <1>3 DEF Clear, Goto, TypeOK
  <2> QED
    BY <1>2, <2>1 DEF Inv2, ProbeInFlight
<1>4. CASE breaker = "Closed"
  <2>1. breaker' = "Closed" /\ prober' = {}
    BY <1>1, <1>4 DEF Clear
  <2> QED
    BY <1>2, <2>1 DEF Inv2, ProbeInFlight
<1> QED
  BY <1>3, <1>4 DEF TypeOK

\* A request that ends as the probe takes the breaker out of Probing.
LEMMA EndProbe ==
  ASSUME TypeOK, Inv2, NEW r \in prober, NEW outcome,
         FinishProbe(r, outcome) \/ DropProbe, prober' = prober \ {r}
  PROVE  Inv2'
<1>1. prober' = {} /\ breaker = "Probing" /\ limit = 0
  BY DEF Inv2, ProbeInFlight, BreakerAtZero, TypeOK
<1>2. breaker' # "Probing" /\ BreakerAtZero'
  BY <1>1 DEF FinishProbe, DropProbe, BreakerAtZero
<1> QED
  BY <1>1, <1>2 DEF Inv2, ProbeInFlight

\* Any other request that ends, whatever it teaches, leaves the probe alone.
LEMMA EndOther ==
  ASSUME TypeOK, Inv2, NEW r \in Requests, r \notin prober, NEW floor \in {0, 1},
         Halve(r, floor) \/ (breaker = "Closed" /\ Grow(r)) \/ UNCHANGED learned,
         prober' = prober \ {r}, Goto(r, "idle")
  PROVE  Inv2'
<1>1. prober' = prober /\ \A s \in prober : s # r /\ s \in Requests
  BY DEF TypeOK, Requests
<1>2. \A s \in prober' : pc'[s] = "sending"
  BY <1>1 DEF Goto, TypeOK, Inv2, ProbeInFlight
<1>3. CASE Halve(r, floor)
  BY <1>1, <1>2, <1>3, ConstantsAssumption
  DEF Halve, TypeOK, Inv2, ProbeInFlight, BreakerAtZero, learned
<1>4. CASE breaker = "Closed" /\ Grow(r)
  BY <1>1, <1>2, <1>4 DEF Grow, TypeOK, Inv2, ProbeInFlight, BreakerAtZero
<1>5. CASE UNCHANGED learned
  BY <1>1, <1>2, <1>5 DEF Inv2, ProbeInFlight, BreakerAtZero, learned
<1> QED
  BY <1>3, <1>4, <1>5

\* A step that neither moves the breaker nor touches a request in flight.
LEMMA ProbeKept ==
  ASSUME Inv2, UNCHANGED <<limit, breaker, prober>>,
         \A r \in prober : pc'[r] = pc[r]
  PROVE  Inv2'
  BY DEF Inv2, ProbeInFlight, BreakerAtZero

LEMMA Inv2Background ==
  ASSUME TypeOK, Inv2, NEW b \in Background,
         \/ Acquire(b) \/ Admit(b) \/ Defer(b) \/ CancelAcquire(b)
         \/ AcquireBriefly(b) \/ TryAcquire(b)
         \/ \E outcome \in Outcome : Finish(b, outcome)
         \/ Release(b)
  PROVE  Inv2'
<1>0. b \in Requests /\ \A r \in prober : r \in Requests /\ pc[r] = "sending"
  BY DEF Requests, Waiters, TypeOK, Inv2, ProbeInFlight
<1>1. CASE Acquire(b)
  BY <1>0, <1>1, ProbeKept DEF Acquire, Goto, TypeOK, learned
<1>2. CASE Admit(b)
  BY <1>0, <1>2, ClearProbe DEF Admit, Admits
<1>3. CASE Defer(b)
  BY <1>3, ProbeKept DEF Defer, learned
<1>4. CASE CancelAcquire(b)
  BY <1>0, <1>4, ProbeKept DEF CancelAcquire, Goto, TypeOK, learned
<1>5. CASE AcquireBriefly(b)
  BY <1>0, <1>5, ProbeKept DEF AcquireBriefly, Goto, TypeOK, learned
<1>6. CASE TryAcquire(b)
  <2>1. CASE Admits(Live(held)) /\ Clear(b) /\ Goto(b, "sending")
    BY <1>0, <1>6, <2>1, ClearProbe DEF TryAcquire, Admits
  <2>2. CASE Goto(b, "idle") /\ UNCHANGED <<breaker, prober>>
    BY <1>0, <1>6, <2>2, ProbeKept DEF TryAcquire, Goto, TypeOK
  <2> QED
    BY <1>6, <2>1, <2>2 DEF TryAcquire
<1>7. ASSUME NEW outcome \in Outcome, Finish(b, outcome) PROVE Inv2'
  <2>1. CASE b \in prober
    BY <1>7, <2>1, EndProbe DEF Finish
  <2>2. CASE b \notin prober
    BY <1>0, <1>7, <2>2, EndOther DEF Finish
  <2> QED
    BY <2>1, <2>2
<1>8. CASE Release(b)
  <2>1. CASE b \in prober
    BY <1>8, <2>1, EndProbe DEF Release
  <2>2. CASE b \notin prober
    BY <1>0, <1>8, <2>2, EndOther DEF Release
  <2> QED
    BY <2>1, <2>2
<1> QED
  BY <1>1, <1>2, <1>3, <1>4, <1>5, <1>6, <1>7, <1>8

LEMMA Inv2Polls ==
  ASSUME TypeOK, Inv2, NEW p \in Polls,
         \/ PollStart(p) \/ PollAdmit(p) \/ PollDefer(p) \/ PollCancel(p)
         \/ \E outcome \in Outcome : PollFinish(p, outcome)
         \/ PollRelease(p)
  PROVE  Inv2'
<1>0. p \in Requests /\ \A r \in prober : r \in Requests /\ pc[r] = "sending"
  BY DEF Requests, Waiters, TypeOK, Inv2, ProbeInFlight
<1>1. CASE PollStart(p)
  BY <1>0, <1>1, ProbeKept DEF PollStart, Goto, TypeOK, learned
<1>2. CASE PollAdmit(p)
  BY <1>0, <1>2, ClearProbe DEF PollAdmit, PollClears
<1>3. CASE PollDefer(p)
  BY <1>3, ProbeKept DEF PollDefer, learned
<1>4. CASE PollCancel(p)
  BY <1>0, <1>4, ProbeKept DEF PollCancel, Goto, TypeOK, learned
<1>5. ASSUME NEW outcome \in Outcome, PollFinish(p, outcome) PROVE Inv2'
  <2>1. CASE p \in prober
    BY <1>5, <2>1, EndProbe DEF PollFinish
  <2>2. CASE p \notin prober
    BY <1>0, <1>5, <2>2, EndOther DEF PollFinish
  <2> QED
    BY <2>1, <2>2
<1>6. CASE PollRelease(p)
  <2>1. CASE p \in prober
    BY <1>6, <2>1, EndProbe DEF PollRelease
  <2>2. CASE p \notin prober
    BY <1>0, <1>6, <2>2, EndOther DEF PollRelease
  <2> QED
    BY <2>1, <2>2
<1> QED
  BY <1>1, <1>2, <1>3, <1>4, <1>5, <1>6

LEMMA Inv2Others ==
  ASSUME TypeOK, Inv2,
         \/ \E i \in Interactive :
              InteractiveStart(i) \/ \E outcome \in Outcome : InteractiveFinish(i, outcome)
         \/ Snapshot \/ Tick \/ UNCHANGED vars
  PROVE  Inv2'
<1>0. \A r \in prober : r \in Requests /\ pc[r] = "sending" /\ r \notin Interactive
  BY TasksAssumption DEF Requests, Waiters, TypeOK, Inv2, ProbeInFlight
<1>1. ASSUME NEW i \in Interactive, InteractiveStart(i) PROVE Inv2'
  BY <1>0, <1>1, ProbeKept DEF InteractiveStart, Goto, TypeOK, learned
<1>2. ASSUME NEW i \in Interactive, NEW outcome \in Outcome, InteractiveFinish(i, outcome)
      PROVE Inv2'
  <2>1. i \in Requests /\ i \notin prober /\ prober' = prober \ {i}
    BY <1>0, <1>2 DEF Requests, InteractiveFinish
  <2> QED
    BY <1>2, <2>1, EndOther DEF InteractiveFinish
<1>3. CASE Snapshot \/ Tick \/ UNCHANGED vars
  BY <1>3, ProbeKept DEF Snapshot, Tick, vars, learned
<1> QED
  BY <1>1, <1>2, <1>3

LEMMA Inv2Next == Inv1 /\ Inv2 /\ [Next]_vars => Inv2'
  BY Inv2Background, Inv2Polls, Inv2Others DEF Next, Inv1

LEMMA Inv2Always == Spec => []Inv2
  BY Inv1Always, Inv2Init, Inv2Next, PTL DEF Spec

\* The breaker never has two probes at the homeserver, and never waits for a
\* probe that is no longer in flight.
THEOREM ProbeCorrect == Spec => []ProbeInFlight
<1>1. Inv2 => ProbeInFlight
  BY DEF Inv2
<1> QED
  BY <1>1, Inv2Always, PTL

\* The limit reaches zero only together with the breaker opening.
THEOREM BreakerCorrect == Spec => []BreakerAtZero
<1>1. Inv2 => BreakerAtZero
  BY DEF Inv2
<1> QED
  BY <1>1, Inv2Always, PTL

-----------------------------------------------------------------------------
(* Load at the homeserver *)

\* While the breaker is not closed, only the probe is of the current epoch: the
\* decrease that opened it made every other request one of an older epoch.
FreshIsProbe == breaker # "Closed" => Permits \cap fresh \subseteq prober

Inv3 == LoadBound /\ FreshWithinLimit /\ FreshIsProbe

LEMMA Inv3Init == Init => Inv3
<1> SUFFICES ASSUME Init PROVE Inv3
  OBVIOUS
<1>1. Permits \cap fresh = {} /\ Cardinality({}) = 0
  BY FS_EmptySet DEF Init
<1> QED
  BY <1>1, ConstantsAssumption DEF Init, Inv3, LoadBound, FreshWithinLimit, FreshIsProbe

\* A background request is admitted: within the limit, or as the only probe.
LEMMA LoadAdmit ==
  ASSUME Inv1, Inv2, Inv3, NEW b \in Background, pc[b] # "sending",
         Admits(Live(held)), Clear(b), Goto(b, "sending"), active' = active + 1,
         UNCHANGED limit
  PROVE  Inv3'
<1>0. /\ TypeOK /\ ActiveCountsPermits /\ Len(Live(held)) \in Nat
      /\ prober = {} /\ BreakerAtZero
  BY LiveType DEF Inv1, TypeOK, Inv2, ProbeInFlight, Admits
<1>1. Permits' = Permits \cup {b} /\ b \notin Permits /\ fresh' = fresh \cup {b}
  BY <1>0 DEF Permits, Goto, TypeOK, Requests, Waiters, Clear
<1>2. /\ IsFiniteSet(Permits \cap fresh)
      /\ Cardinality(Permits \cap fresh) \in Nat
      /\ Cardinality(Permits \cap fresh) <= active
  BY <1>0, PermitsFinite, FS_Subset, FS_CardinalityType DEF ActiveCountsPermits
<1>3. /\ (Permits \cap fresh)' = (Permits \cap fresh) \cup {b}
      /\ b \notin Permits \cap fresh
  BY <1>1
<1>4. Cardinality((Permits \cap fresh)') = Cardinality(Permits \cap fresh) + 1
  BY <1>2, <1>3, FS_AddElement
<1>5. CASE breaker = "Closed"
  <2>1. active + 1 <= limit /\ breaker' = "Closed" /\ prober' = {}
    BY <1>0, <1>5 DEF Admits, in_use, TypeOK, Clear
  <2>2. LoadBound'
    BY <1>0, <2>1, ConstantsAssumption DEF LoadBound, TypeOK
  <2>3. FreshWithinLimit'
    BY <1>0, <1>2, <1>4, <2>1 DEF FreshWithinLimit, TypeOK
  <2> QED
    BY <2>1, <2>2, <2>3 DEF Inv3, FreshIsProbe
<1>6. CASE breaker = "Open"
  <2>1. prober' = {b} /\ breaker' = "Probing" /\ Permits \cap fresh = {}
    BY <1>0, <1>6 DEF Clear, Inv3, FreshIsProbe
  <2>2. active <= MaxLimit /\ prober' \cap Background # {}
    BY <1>0, <2>1, ConstantsAssumption DEF Inv3, LoadBound, TypeOK
  <2>3. LoadBound'
    BY <1>0, <2>2, ConstantsAssumption DEF LoadBound, TypeOK
  <2> QED
    BY <1>3, <2>1, <2>3 DEF Inv3, FreshWithinLimit, FreshIsProbe
<1> QED
  BY <1>5, <1>6 DEF Admits

\* A step that hands out no permit and leaves the breaker and the probe alone.
LEMMA LoadKept ==
  ASSUME TypeOK, Inv3, UNCHANGED <<active, prober, breaker, limit>>,
         Permits' \cap fresh' = Permits \cap fresh
  PROVE  Inv3'
  BY DEF Inv3, LoadBound, FreshWithinLimit, FreshIsProbe

\* A request of any kind ends.
LEMMA LoadEnd ==
  ASSUME TypeOK, Inv2, Inv3, NEW r, NEW outcome, NEW floor \in {0, 1},
         active' \in Nat, active' <= active,
         r \in prober \cap Background => active' = active - 1,
         Permits' \subseteq Permits, r \notin Permits',
         prober' = prober \ {r},
         \/ r \in prober /\ (FinishProbe(r, outcome) \/ (DropProbe /\ Forget(r)))
         \/ /\ r \notin prober
            /\ \/ Halve(r, floor)
               \/ breaker = "Closed" /\ Grow(r)
               \/ UNCHANGED learned /\ Forget(r)
  PROVE  Inv3'
<1> DEFINE F == Permits \cap fresh
<1>0. /\ IsFiniteSet(F) /\ Cardinality(F) \in Nat /\ Cardinality({}) = 0
      /\ \A G : G \subseteq F => Cardinality(G) \in Nat /\ Cardinality(G) <= Cardinality(F)
  BY PermitsFinite, FS_Subset, FS_CardinalityType, FS_EmptySet
<1>1. LoadBound'
  <2>1. CASE r \in prober \cap Background
    BY <2>1, ConstantsAssumption DEF LoadBound, Inv3, TypeOK
  <2>2. CASE r \notin prober \cap Background
    <3>1. prober' \cap Background = prober \cap Background
      BY <2>2
    <3> QED
      BY <3>1, ConstantsAssumption DEF LoadBound, Inv3, TypeOK
  <2> QED
    BY <2>1, <2>2
<1>2. CASE r \in prober
  <2>1. prober = {r} /\ breaker = "Probing"
    BY <1>2 DEF Inv2, ProbeInFlight
  <2>2. F \subseteq {r} /\ fresh' = fresh \ {r}
    BY <1>2, <2>1 DEF Inv3, FreshIsProbe, FinishProbe, Forget
  <2>3. Permits' \cap fresh' = {}
    BY <2>2
  <2>4. breaker' = "Closed" => limit' = 1
    BY <1>2 DEF FinishProbe, DropProbe
  <2> QED
    BY <1>0, <1>1, <2>3, <2>4 DEF Inv3, FreshWithinLimit, FreshIsProbe
<1>3. CASE r \notin prober /\ breaker = "Closed" /\ Grow(r)
  <2>1. Permits' \cap fresh' \subseteq F /\ breaker' = "Closed" /\ limit' \in Nat /\ limit <= limit'
    BY <1>3 DEF Grow, Forget, TypeOK
  <2>2. Cardinality(F) <= limit
    BY <1>3 DEF Inv3, FreshWithinLimit
  <2>3. Cardinality(Permits' \cap fresh') \in Nat /\ Cardinality(Permits' \cap fresh') <= Cardinality(F)
    BY <1>0, <2>1, Zenon
  <2>4. Cardinality(Permits' \cap fresh') <= limit'
    BY <1>0, <2>1, <2>2, <2>3 DEF TypeOK
  <2> QED
    BY <1>1, <2>1, <2>4 DEF Inv3, FreshWithinLimit, FreshIsProbe
<1>4. CASE r \notin prober /\ UNCHANGED learned /\ Forget(r)
  <2>1. Permits' \cap fresh' \subseteq F /\ prober' = prober
    BY <1>4 DEF Forget
  <2>2. UNCHANGED <<breaker, limit>>
    BY <1>4 DEF learned
  <2>a. Cardinality(Permits' \cap fresh') \in Nat /\ Cardinality(Permits' \cap fresh') <= Cardinality(F)
    BY <1>0, <2>1, Zenon
  <2>b. breaker = "Closed" => Cardinality(F) <= limit
    BY DEF Inv3, FreshWithinLimit
  <2>c. limit \in Nat /\ Cardinality(F) \in Nat
    BY <1>0 DEF TypeOK
  <2> HIDE DEF F
  <2>3. breaker = "Closed" => Cardinality(Permits' \cap fresh') <= limit
    BY <2>a, <2>b, <2>c
  <2> USE DEF F
  <2>4. FreshIsProbe'
    BY <2>1, <2>2 DEF Inv3, FreshIsProbe
  <2> QED
    BY <1>1, <2>1, <2>2, <2>3, <2>4 DEF Inv3, FreshWithinLimit
<1>5. CASE r \notin prober /\ Halve(r, floor)
  <2>1. CASE UNCHANGED learned /\ Forget(r)
    BY <1>4, <1>5, <2>1
  <2>2. CASE fresh' = {} /\ limit' \in Nat
    BY <1>0, <1>1, <2>2 DEF Inv3, FreshWithinLimit, FreshIsProbe
  <2> QED
    BY <1>5, <2>1, <2>2 DEF Halve, TypeOK
<1> QED
  BY <1>2, <1>3, <1>4, <1>5

LEMMA Inv3Background ==
  ASSUME Inv1, Inv2, Inv3, NEW b \in Background,
         \/ Acquire(b) \/ Admit(b) \/ Defer(b) \/ CancelAcquire(b)
         \/ AcquireBriefly(b) \/ TryAcquire(b)
         \/ \E outcome \in Outcome : Finish(b, outcome)
         \/ Release(b)
  PROVE  Inv3'
<1>0. /\ TypeOK /\ ActiveCountsPermits
      /\ \A c \in Background : c \in Requests
  BY DEF Inv1, Requests, Waiters
<1>1. CASE Acquire(b)
  <2>1. Permits' = Permits
    BY <1>0, <1>1 DEF Acquire, Permits, Goto, TypeOK
  <2> QED
    BY <1>0, <1>1, <2>1, LoadKept DEF Acquire, learned
<1>2. CASE Admit(b)
  BY <1>2, LoadAdmit DEF Admit
<1>3. CASE Defer(b)
  BY <1>0, <1>3, LoadKept DEF Defer, learned, Permits
<1>4. CASE CancelAcquire(b)
  <2>1. Permits' = Permits
    BY <1>0, <1>4 DEF CancelAcquire, Permits, Goto, TypeOK
  <2> QED
    BY <1>0, <1>4, <2>1, LoadKept DEF CancelAcquire, learned
<1>5. CASE AcquireBriefly(b)
  <2>1. Permits' = Permits
    BY <1>0, <1>5 DEF AcquireBriefly, Permits, Goto, TypeOK
  <2> QED
    BY <1>0, <1>5, <2>1, LoadKept DEF AcquireBriefly, learned
<1>6. CASE TryAcquire(b)
  <2>1. CASE Admits(Live(held)) /\ Clear(b) /\ Goto(b, "sending") /\ active' = active + 1
    BY <1>6, <2>1, LoadAdmit DEF TryAcquire
  <2>2. CASE Goto(b, "idle") /\ UNCHANGED <<breaker, prober, fresh, active>>
    <3>1. Permits' = Permits
      BY <1>0, <1>6, <2>2 DEF TryAcquire, Permits, Goto, TypeOK
    <3> QED
      BY <1>0, <1>6, <2>2, <3>1, LoadKept DEF TryAcquire
  <2> QED
    BY <1>6, <2>1, <2>2 DEF TryAcquire
<1>7. ASSUME pc[b] = "sending", Goto(b, "idle"), active' = active - 1
      PROVE  /\ active' \in Nat /\ active' <= active
             /\ Permits' \subseteq Permits /\ b \notin Permits'
  <2>1. active' \in Nat
    BY <1>0, <1>7, PermitFreed
  <2> QED
    BY <1>0, <1>7, <2>1 DEF Permits, Goto, TypeOK
<1>8. ASSUME NEW outcome \in Outcome, Finish(b, outcome) PROVE Inv3'
  <2>1. \/ b \in prober /\ FinishProbe(b, outcome)
        \/ /\ b \notin prober
           /\ \/ Halve(b, 0)
              \/ breaker = "Closed" /\ Grow(b)
              \/ UNCHANGED learned /\ Forget(b)
    BY <1>8 DEF Finish
  <2> QED
    BY <1>0, <1>7, <1>8, <2>1, LoadEnd DEF Finish
<1>9. CASE Release(b)
  BY <1>0, <1>7, <1>9, LoadEnd DEF Release
<1> QED
  BY <1>1, <1>2, <1>3, <1>4, <1>5, <1>6, <1>8, <1>9

LEMMA Inv3Polls ==
  ASSUME Inv1, Inv2, Inv3, NEW p \in Polls,
         \/ PollStart(p) \/ PollAdmit(p) \/ PollDefer(p) \/ PollCancel(p)
         \/ \E outcome \in Outcome : PollFinish(p, outcome)
         \/ PollRelease(p)
  PROVE  Inv3'
<1>0. /\ TypeOK /\ p \notin Background
      /\ \A c \in Background : c \in Requests
  BY TasksAssumption DEF Inv1, Requests, Waiters
<1>1. Permits' = Permits /\ p \notin Permits /\ UNCHANGED active
  BY <1>0 DEF PollStart, PollAdmit, PollDefer, PollCancel, PollFinish, PollRelease,
              Goto, TypeOK, Permits
<1>2. CASE PollStart(p)
  BY <1>0, <1>1, <1>2, LoadKept DEF PollStart, learned
<1>3. CASE PollDefer(p)
  BY <1>0, <1>1, <1>3, LoadKept DEF PollDefer, learned
<1>4. CASE PollCancel(p)
  BY <1>0, <1>1, <1>4, LoadKept DEF PollCancel, learned
<1>5. CASE PollAdmit(p)
  <2>1. /\ Permits' \cap fresh' = Permits \cap fresh
        /\ prober' \cap Background = prober \cap Background
        /\ prober \subseteq prober' /\ breaker # "Probing" /\ UNCHANGED limit
        /\ breaker = "Closed" <=> breaker' = "Closed"
    BY <1>0, <1>1, <1>5 DEF PollAdmit, Clear, PollClears, TypeOK
  <2> QED
    BY <1>1, <2>1 DEF Inv3, LoadBound, FreshWithinLimit, FreshIsProbe
<1>6. active' \in Nat /\ active' <= active
  BY <1>0, <1>1 DEF TypeOK
<1>7. ASSUME NEW outcome \in Outcome, PollFinish(p, outcome) PROVE Inv3'
  <2>1. \/ p \in prober /\ FinishProbe(p, outcome)
        \/ /\ p \notin prober
           /\ Halve(p, 0) \/ (UNCHANGED learned /\ Forget(p))
    BY <1>7 DEF PollFinish
  <2> QED
    BY <1>0, <1>1, <1>6, <1>7, <2>1, LoadEnd DEF PollFinish
<1>8. CASE PollRelease(p)
  BY <1>0, <1>1, <1>6, <1>8, LoadEnd DEF PollRelease
<1> QED
  BY <1>2, <1>3, <1>4, <1>5, <1>7, <1>8

LEMMA Inv3Others ==
  ASSUME Inv1, Inv2, Inv3,
         \/ \E i \in Interactive :
              InteractiveStart(i) \/ \E outcome \in Outcome : InteractiveFinish(i, outcome)
         \/ Snapshot \/ Tick \/ UNCHANGED vars
  PROVE  Inv3'
<1>0. /\ TypeOK
      /\ \A c \in Background : c \in Requests /\ c \notin Interactive
      /\ \A i \in Interactive : i \notin prober
  BY TasksAssumption DEF Inv1, Requests, Waiters, TypeOK
<1>1. ASSUME NEW i \in Interactive, InteractiveStart(i) PROVE Inv3'
  <2>1. Permits' = Permits /\ i \notin Permits
    BY <1>0, <1>1 DEF InteractiveStart, Goto, TypeOK, Permits
  <2> QED
    BY <1>0, <1>1, <2>1, LoadKept DEF InteractiveStart, learned
<1>2. ASSUME NEW i \in Interactive, NEW outcome \in Outcome, InteractiveFinish(i, outcome)
      PROVE Inv3'
  <2>1. Permits' = Permits /\ i \notin Permits
    BY <1>0, <1>2 DEF InteractiveFinish, Goto, TypeOK, Permits
  <2>2. active' \in Nat /\ active' <= active
    BY <1>0, <1>2 DEF InteractiveFinish, TypeOK
  <2>3. i \notin prober /\ prober' = prober \ {i}
    BY <1>0, <1>2 DEF InteractiveFinish
  <2>4. Halve(i, 1) \/ (UNCHANGED learned /\ Forget(i))
    BY <1>2 DEF InteractiveFinish
  <2> QED
    BY <1>0, <2>1, <2>2, <2>3, <2>4, LoadEnd
<1>3. CASE Snapshot
  BY <1>0, <1>3, LoadKept DEF Snapshot, learned, Permits
<1>4. CASE Tick
  BY <1>0, <1>4, LoadKept DEF Tick, Permits
<1>5. CASE UNCHANGED vars
  BY <1>0, <1>5, LoadKept DEF vars, Permits
<1> QED
  BY <1>1, <1>2, <1>3, <1>4, <1>5

LEMMA Inv3Next == Inv1 /\ Inv2 /\ Inv3 /\ [Next]_vars => Inv3'
  BY Inv3Background, Inv3Polls, Inv3Others DEF Next

LEMMA Inv3Always == Spec => []Inv3
  BY Inv1Always, Inv2Always, Inv3Init, Inv3Next, PTL DEF Spec

\* However the limit moved while requests were out, at most MAX_LIMIT background
\* requests and the probe are at the homeserver.
THEOREM LoadCorrect == Spec => []LoadBound
<1>1. Inv3 => LoadBound
  BY DEF Inv3
<1> QED
  BY <1>1, Inv3Always, PTL

\* After every decrease, the requests admitted since fit in the new limit.
THEOREM FreshCorrect == Spec => []FreshWithinLimit
<1>1. Inv3 => FreshWithinLimit
  BY DEF Inv3
<1> QED
  BY <1>1, Inv3Always, PTL

-----------------------------------------------------------------------------
(* Wake-ups *)

InOrder(h) == \A i, j \in 1..Len(h) : i <= j => h[i] <= h[j]
Expired(h) == Cardinality({i \in DOMAIN h : h[i] = 0})

\* When holds expire in the order they were pushed, the expired ones are a prefix,
\* and releasing them leaves the others.
LEMMA LiveIsRest ==
  ASSUME NEW h \in Seq(0..TimeoutHold), InOrder(h)
  PROVE  /\ Expired(h) \in 0..Len(h)
         /\ \A i \in 1..Len(h) : h[i] = 0 <=> i <= Expired(h)
         /\ Live(h) \in Seq(0..TimeoutHold)
         /\ Len(Live(h)) = Len(h) - Expired(h)
         /\ \A i \in 1..(Len(h) - Expired(h)) : Live(h)[i] = h[Expired(h) + i]
         /\ Live(h) = <<>> <=> Expired(h) = Len(h)
         /\ Live(h) # <<>> => Head(Live(h)) = h[Expired(h) + 1]
<1> DEFINE Z == {i \in DOMAIN h : h[i] = 0}
           c == Expired(h)
           n == Len(h)
<1>1. /\ n \in Nat
      /\ DOMAIN h = 1..n
      /\ \A i \in 1..n : h[i] \in 0..TimeoutHold
  BY LenProperties
<1>2. IsFiniteSet(1..n) /\ Cardinality(1..n) = n
  BY <1>1, FS_Interval
<1>3. Z \in SUBSET (1..n)
  BY <1>1
<1>4. IsFiniteSet(Z) /\ c \in Nat /\ c <= n /\ c = Cardinality(Z)
  BY <1>2, <1>3, FS_Subset, FS_CardinalityType DEF Expired
<1>5. c + 1 \notin Z
  <2> SUFFICES ASSUME c + 1 \in Z PROVE FALSE
    OBVIOUS
  <2>1. 1..(c + 1) \in SUBSET Z
    <3> SUFFICES ASSUME NEW i \in 1..(c + 1) PROVE i \in Z
      OBVIOUS
    <3>1. i \in 1..n /\ c + 1 \in 1..n /\ i <= c + 1 /\ h[c + 1] = 0
      BY <1>1, <1>3, <1>4
    <3>2. h[i] <= 0 /\ h[i] \in 0..TimeoutHold
      BY <1>1, <3>1 DEF InOrder
    <3> QED
      BY <1>1, <3>1, <3>2, ConstantsAssumption
  <2>2. Cardinality(1..(c + 1)) = c + 1
    BY <1>4, FS_Interval
  <2>3. Cardinality(1..(c + 1)) <= Cardinality(Z)
    BY <1>4, <2>1, FS_Subset
  <2> QED
    BY <1>4, <2>2, <2>3
<1>6. Z \in SUBSET (1..c)
  <2>1. ASSUME NEW i \in Z, i > c PROVE FALSE
    <3>1. i \in 1..n /\ c + 1 \in 1..n /\ c + 1 <= i /\ h[i] = 0
      BY <1>1, <1>3, <1>4, <2>1
    <3>2. h[c + 1] <= 0 /\ h[c + 1] \in 0..TimeoutHold
      BY <1>1, <3>1 DEF InOrder
    <3> QED
      BY <1>1, <1>5, <3>1, <3>2, ConstantsAssumption
  <2>2. \A i \in Z : i \in 1..n /\ ~(i > c)
    BY <1>3, <2>1
  <2> HIDE DEF Z, c, n
  <2>3. \A i \in Z : i \in 1..c
    BY <1>1, <1>4, <2>2
  <2> QED
    BY <2>3
<1>7. Z = 1..c
  <2>1. IsFiniteSet(1..c) /\ Cardinality(1..c) = Cardinality(Z)
    BY <1>4, FS_Interval
  <2> QED
    BY <1>6, <2>1, FS_Subset
<1>8. \A i \in 1..n : h[i] = 0 <=> i <= c
  BY <1>1, <1>4, <1>7
<1> HIDE DEF Z
<1>9. Live(h) = SubSeq(h, c + 1, n)
  BY <1>4 DEF Live, Z
<1> HIDE DEF c, n
<1>10. \A i \in (c + 1)..n : h[i] \in 0..TimeoutHold
  BY <1>1, <1>4
<1>11. /\ Live(h) \in Seq(0..TimeoutHold)
       /\ Len(Live(h)) = n - c
       /\ \A i \in 1..(n - c) : Live(h)[i] = h[c + i]
  <2>1. c + 1 \in Int /\ n \in Int
    BY <1>1, <1>4
  <2>2. /\ SubSeq(h, c + 1, n) \in Seq(0..TimeoutHold)
        /\ Len(SubSeq(h, c + 1, n)) = IF c + 1 <= n THEN n - (c + 1) + 1 ELSE 0
        /\ \A i \in 1..(n - (c + 1) + 1) : SubSeq(h, c + 1, n)[i] = h[(c + 1) + i - 1]
    BY <1>10, <2>1, SubSeqProperties
  <2>3. Len(Live(h)) = n - c
    BY <1>1, <1>4, <1>9, <2>2
  <2>4. ASSUME NEW i \in 1..(n - c) PROVE Live(h)[i] = h[c + i]
    <3>1. i \in 1..(n - (c + 1) + 1) /\ (c + 1) + i - 1 = c + i
      BY <1>1, <1>4
    <3> QED
      BY <1>9, <2>2, <3>1
  <2> QED
    BY <1>9, <2>2, <2>3, <2>4
<1>12. Live(h) = <<>> <=> c = n
  BY <1>1, <1>4, <1>11, EmptySeq
<1>13. Live(h) # <<>> => Head(Live(h)) = h[c + 1]
  <2> SUFFICES ASSUME Live(h) # <<>> PROVE Head(Live(h)) = h[c + 1]
    OBVIOUS
  <2>1. Head(Live(h)) = Live(h)[1]
    BY <1>11, EmptySeq
  <2> QED
    BY <1>1, <1>4, <1>11, <1>12, <2>1
<1> QED
  BY <1>4, <1>8, <1>11, <1>12, <1>13 DEF c, n

\* Releasing twice releases nothing more.
LEMMA LiveAgain ==
  ASSUME NEW h \in Seq(0..TimeoutHold), InOrder(h)
  PROVE  InOrder(Live(h)) /\ Live(Live(h)) = Live(h)
<1> DEFINE c == Expired(h)
           l == Live(h)
<1>0. Len(h) \in Nat /\ \A i \in 1..Len(h) : h[i] \in 0..TimeoutHold
  BY LenProperties
<1>1. /\ c \in 0..Len(h)
      /\ \A i \in 1..Len(h) : h[i] = 0 <=> i <= c
      /\ l \in Seq(0..TimeoutHold)
      /\ Len(l) = Len(h) - c
      /\ \A i \in 1..(Len(h) - c) : l[i] = h[c + i]
  BY LiveIsRest
<1> HIDE DEF c, l
<1>2. InOrder(l)
  <2> SUFFICES ASSUME NEW i \in 1..Len(l), NEW j \in 1..Len(l), i <= j
               PROVE  l[i] <= l[j]
    BY DEF InOrder
  <2>1. /\ c + i \in 1..Len(h) /\ c + j \in 1..Len(h) /\ c + i <= c + j
        /\ l[i] = h[c + i] /\ l[j] = h[c + j]
    BY <1>0, <1>1
  <2> QED
    BY <2>1 DEF InOrder
<1>3. \A i \in 1..Len(l) : l[i] # 0
  BY <1>0, <1>1
<1>4. Len(l) \in Nat /\ DOMAIN l = 1..Len(l)
  BY <1>1, LenProperties
<1> DEFINE Z == {i \in DOMAIN l : l[i] = 0}
<1>5. Z = {}
  BY <1>3, <1>4
<1>a. Live(l) = SubSeq(l, Cardinality(Z) + 1, Len(l))
  BY DEF Live
<1> HIDE DEF Z
<1>6. Live(l) = SubSeq(l, 1, Len(l))
  <2>1. Cardinality(Z) = 0
    BY <1>5, FS_EmptySet
  <2> QED
    BY <1>a, <2>1
<1>7. Live(l) = l
  BY <1>1, <1>6, SubSeqFull
<1> QED
  BY <1>2, <1>7 DEF l

\* A tick that releases no hold: there is none, or the earliest has longer to run.
LEMMA LiveTick ==
  ASSUME NEW h \in Seq(0..TimeoutHold), InOrder(h),
         NEW g, g = [i \in DOMAIN h |-> Passed(h[i])]
  PROVE  /\ g \in Seq(0..TimeoutHold) /\ InOrder(g)
         /\ Live(h) = <<>> => Live(g) = <<>>
         /\ Live(h) # <<>> /\ Head(Live(h)) > 1
              => /\ Live(g) # <<>>
                 /\ Len(Live(g)) = Len(Live(h))
                 /\ Head(Live(g)) = Head(Live(h)) - 1
<1> DEFINE c == Expired(h)
           d == Expired(g)
           n == Len(h)
<1>1. /\ n \in Nat
      /\ DOMAIN h = 1..n
      /\ \A i \in 1..n : h[i] \in 0..TimeoutHold /\ h[i] \in Nat
  BY LenProperties, ConstantsAssumption
<1>2. g \in Seq(0..TimeoutHold)
  BY TickType
<1>3. Len(g) = n /\ \A i \in 1..n : g[i] = Passed(h[i])
  BY <1>1, <1>2, LenProperties
<1>4. InOrder(g)
  <2> SUFFICES ASSUME NEW i \in 1..n, NEW j \in 1..n, i <= j
               PROVE  g[i] <= g[j]
    BY <1>3 DEF InOrder
  <2>1. h[i] <= h[j]
    BY DEF InOrder
  <2> QED
    BY <1>1, <1>3, <2>1 DEF Passed
<1>5. /\ c \in 0..n
      /\ \A i \in 1..n : h[i] = 0 <=> i <= c
      /\ Len(Live(h)) = n - c
      /\ Live(h) = <<>> <=> c = n
      /\ Live(h) # <<>> => Head(Live(h)) = h[c + 1]
  BY LiveIsRest
<1>6. /\ d \in 0..n
      /\ \A i \in 1..n : g[i] = 0 <=> i <= d
      /\ Len(Live(g)) = n - d
      /\ Live(g) = <<>> <=> d = n
      /\ Live(g) # <<>> => Head(Live(g)) = g[d + 1]
  BY <1>2, <1>3, <1>4, LiveIsRest
<1> HIDE DEF c, d, n
<1>7. ASSUME Live(h) = <<>> PROVE Live(g) = <<>>
  <2>1. \A i \in 1..n : g[i] = 0
    BY <1>1, <1>3, <1>5, <1>7 DEF Passed
  <2> QED
    BY <1>1, <1>6, <2>1
<1>8. ASSUME Live(h) # <<>>, Head(Live(h)) > 1
      PROVE  /\ Live(g) # <<>>
             /\ Len(Live(g)) = Len(Live(h))
             /\ Head(Live(g)) = Head(Live(h)) - 1
  <2>1. c + 1 \in 1..n /\ h[c + 1] > 1
    BY <1>1, <1>5, <1>8
  <2>2. \A i \in 1..n : i > c => h[i] > 1
    <3> SUFFICES ASSUME NEW i \in 1..n, i > c PROVE h[i] > 1
      OBVIOUS
    <3>1. c + 1 <= i
      BY <1>1, <1>5
    <3>2. h[c + 1] <= h[i]
      BY <2>1, <3>1 DEF InOrder, n
    <3> QED
      BY <1>1, <2>1, <3>2
  <2>3. \A i \in 1..n : g[i] = 0 <=> i <= c
    BY <1>1, <1>3, <1>5, <2>2 DEF Passed
  <2>4. d = c
    BY <1>1, <1>5, <1>6, <2>1, <2>3
  <2> QED
    BY <1>1, <1>3, <1>5, <1>6, <2>1, <2>4 DEF Passed
<1> QED
  BY <1>2, <1>4, <1>7, <1>8

\* Holds expire in the order they were pushed.
HoldsInOrder == InOrder(held)

\* Sleeping for t does not outlast the earliest hold; with no hold only a wake ends it.
HoldsLast(t) == IF Live(held) = <<>> THEN t = Never ELSE t \in 1..Head(Live(held))

\* A background request asleep for t before a closed breaker: the gate is full, and
\* no hold ends before t.
FullFor(t) == breaker = "Closed" => in_use(Live(held)) >= limit /\ HoldsLast(t)

\* A request asleep for t before an open breaker: no probe is due before t.
ShutFor(t) ==
  breaker = "Open" =>
    IF until > 0 THEN t \in 1..until ELSE Live(held) # <<>> /\ HoldsLast(t)

HeadSleeps ==
  queue # <<>> /\ timer[Head(queue)] # 0
    => FullFor(timer[Head(queue)]) /\ ShutFor(timer[Head(queue)])

\* A long poll sleeps only before a breaker that is not closed, and while a
\* background request is in line the probe is not the poll's to be.
PollsSleep ==
  \A p \in Polls : pc[p] = "waiting" /\ timer[p] # 0
    => breaker # "Closed" /\ (queue = <<>> => ShutFor(timer[p]))

\* A sleeper's timer is never later than the moment the gate could admit it.
Inv4 == HoldsInOrder /\ HeadSleeps /\ PollsSleep

LEMMA Inv4Init == Init => Inv4
<1> SUFFICES ASSUME Init PROVE Inv4
  OBVIOUS
<1>1. Len(held) = 0
  BY EmptySeq DEF Init
<1> QED
  BY <1>1 DEF Init, Inv4, HoldsInOrder, InOrder, HeadSleeps, PollsSleep, Requests, Waiters

\* The head of the queue has a timer.
LEMMA HeadWaits == TypeOK /\ queue # <<>> => Head(queue) \in Background
  BY HeadTailProperties DEF TypeOK

\* What the holds become in any step.
LEMMA HoldsStep ==
  ASSUME TypeOK, HoldsInOrder,
         \/ UNCHANGED held
         \/ held' = Live(held)
         \/ \E outcome \in Outcome : Hold(outcome)
         \/ Tick
  PROVE  HoldsInOrder'
<1>0. held \in Seq(0..TimeoutHold) /\ InOrder(held)
  BY DEF TypeOK, HoldsInOrder
<1>1. CASE UNCHANGED held
  BY <1>0, <1>1 DEF HoldsInOrder, InOrder
<1>2. CASE held' = Live(held)
  BY <1>0, <1>2, LiveAgain DEF HoldsInOrder
<1>3. CASE held' = Append(held, TimeoutHold)
  <2>1. /\ Len(held) \in Nat
        /\ \A i \in 1..Len(held) : held[i] \in 0..TimeoutHold
        /\ TimeoutHold \in 0..TimeoutHold
    BY <1>0, LenProperties, ConstantsAssumption
  <2>2. /\ Len(held') = Len(held) + 1
        /\ \A i \in 1..Len(held) : held'[i] = held[i]
        /\ held'[Len(held) + 1] = TimeoutHold
    BY <1>0, <1>3, <2>1, AppendProperties
  <2> SUFFICES ASSUME NEW i \in 1..Len(held'), NEW j \in 1..Len(held'), i <= j
               PROVE  held'[i] <= held'[j]
    BY DEF HoldsInOrder, InOrder
  <2>3. CASE j \in 1..Len(held)
    <3>1. i \in 1..Len(held)
      BY <2>1, <2>3
    <3> QED
      BY <1>0, <2>2, <2>3, <3>1 DEF InOrder
  <2>4. CASE j = Len(held) + 1
    <3>1. held'[i] \in 0..TimeoutHold
      BY <2>1, <2>2
    <3> QED
      BY <2>2, <2>4, <3>1, ConstantsAssumption
  <2> QED
    BY <2>1, <2>2, <2>3, <2>4
<1>4. CASE Tick
  BY <1>0, <1>4, LiveTick DEF HoldsInOrder, Tick
<1> QED
  BY <1>1, <1>2, <1>3, <1>4 DEF Hold

\* A step that wakes everyone leaves nobody asleep.
LEMMA AllAwake ==
  ASSUME TypeOK', Wake
  PROVE  HeadSleeps' /\ PollsSleep'
<1>1. queue' # <<>> => Head(queue') \in Background
  BY HeadTailProperties DEF TypeOK
<1> QED
  BY <1>1 DEF Wake, HeadSleeps, PollsSleep, Waiters

\* A step after which the breaker waits for its probe: no timer matters.
LEMMA ProbeAwaited ==
  ASSUME breaker' = "Probing"
  PROVE  HeadSleeps' /\ PollsSleep'
  BY DEF HeadSleeps, PollsSleep, FullFor, ShutFor

\* A step that makes nothing admissible, puts nobody to sleep and empties no queue.
LEMMA StillAsleep ==
  ASSUME TypeOK, TypeOK', HeadSleeps, PollsSleep,
         UNCHANGED <<active, until, breaker>>, limit' <= limit,
         Live(held') = Live(held), Len(Live(held)) \in Nat,
         queue' # <<>> => \/ timer'[Head(queue')] = 0
                          \/ /\ queue # <<>> /\ Head(queue') = Head(queue)
                             /\ timer'[Head(queue)] = timer[Head(queue)],
         queue' = <<>> => queue = <<>>,
         \A p \in Polls : pc'[p] = "waiting" /\ timer'[p] # 0
                            => pc[p] = "waiting" /\ timer'[p] = timer[p]
  PROVE  HeadSleeps' /\ PollsSleep'
<1>1. HeadSleeps'
  <2> SUFFICES ASSUME queue' # <<>>, timer'[Head(queue')] # 0
               PROVE  FullFor(timer[Head(queue)])' /\ ShutFor(timer[Head(queue)])'
    BY DEF HeadSleeps
  <2>1. /\ queue # <<>> /\ Head(queue') = Head(queue)
        /\ timer'[Head(queue')] = timer[Head(queue)]
    OBVIOUS
  <2>2. FullFor(timer[Head(queue)]) /\ ShutFor(timer[Head(queue)])
    BY <2>1 DEF HeadSleeps
  <2>3. breaker = "Closed" => active + Len(Live(held)) >= limit'
    BY <2>2 DEF FullFor, in_use, TypeOK
  <2> QED
    BY <2>1, <2>2, <2>3 DEF FullFor, ShutFor, HoldsLast, in_use
<1>2. PollsSleep'
  <2> SUFFICES ASSUME NEW p \in Polls, pc'[p] = "waiting", timer'[p] # 0
               PROVE  breaker' # "Closed" /\ (queue' = <<>> => ShutFor(timer[p])')
    BY DEF PollsSleep
  <2>1. pc[p] = "waiting" /\ timer[p] # 0 /\ timer'[p] = timer[p]
    OBVIOUS
  <2> QED
    BY <2>1 DEF PollsSleep, ShutFor, HoldsLast
<1> QED
  BY <1>1, <1>2

\* What a refused request's deadline guarantees.
LEMMA DeadlineSound ==
  ASSUME TypeOK, HoldsInOrder, ~Admits(Live(held)),
         NEW t, t = WaitFor(Live(held))
  PROVE  FullFor(t) /\ ShutFor(t)
<1> DEFINE l == Live(held)
<1>1. /\ l # <<>> => Head(l) \in Nat \ {0}
      /\ Len(l) \in Nat /\ limit \in Nat /\ active \in Nat /\ until \in Nat
  <2>1. /\ held \in Seq(0..TimeoutHold) /\ InOrder(held)
        /\ Len(held) \in Nat
        /\ \A i \in 1..Len(held) : held[i] \in Nat
    BY LenProperties, ConstantsAssumption DEF TypeOK, HoldsInOrder
  <2>2. /\ Expired(held) \in 0..Len(held)
        /\ \A i \in 1..Len(held) : held[i] = 0 <=> i <= Expired(held)
        /\ Len(l) = Len(held) - Expired(held)
        /\ l = <<>> <=> Expired(held) = Len(held)
        /\ l # <<>> => Head(l) = held[Expired(held) + 1]
    BY <2>1, LiveIsRest
  <2> HIDE DEF l
  <2>3. l # <<>> => Head(l) \in Nat \ {0}
    BY <2>1, <2>2
  <2> QED
    BY <2>1, <2>2, <2>3, ConstantsAssumption DEF TypeOK
<1>2. FullFor(t)
  <2> SUFFICES ASSUME breaker = "Closed" PROVE in_use(l) >= limit /\ HoldsLast(t)
    BY DEF FullFor
  <2>1. in_use(l) >= limit
    BY <1>1 DEF Admits, in_use
  <2>2. t = earliest_hold(l)
    BY DEF WaitFor
  <2> QED
    BY <1>1, <2>1, <2>2 DEF earliest_hold, HoldsLast
<1>3. ShutFor(t)
  <2> SUFFICES ASSUME breaker = "Open"
               PROVE  IF until > 0 THEN t \in 1..until ELSE l # <<>> /\ HoldsLast(t)
    BY DEF ShutFor
  <2>1. CASE until > 0
    BY <1>1, <2>1 DEF WaitFor
  <2>2. CASE until = 0
    BY <1>1, <2>2 DEF WaitFor, Admits, earliest_hold, HoldsLast
  <2> QED
    BY <1>1, <2>1, <2>2
<1> QED
  BY <1>2, <1>3

\* A tick that does not reach the sleeper's deadline releases nothing it waits for.
LEMMA TickSleeps ==
  ASSUME TypeOK, HoldsInOrder, Tick
  PROVE  \A t \in Nat \cup {Never} : Passed(t) # 0 =>
           /\ FullFor(t) => FullFor(Passed(t))'
           /\ ShutFor(t) => ShutFor(Passed(t))'
<1> SUFFICES ASSUME NEW t \in Nat \cup {Never}, Passed(t) # 0
             PROVE  /\ FullFor(t) => FullFor(Passed(t))'
                    /\ ShutFor(t) => ShutFor(Passed(t))'
  OBVIOUS
<1> DEFINE l == Live(held)
           m == Live(held')
<1>1. /\ l = <<>> => m = <<>>
      /\ l # <<>> /\ Head(l) > 1
           => m # <<>> /\ Len(m) = Len(l) /\ Head(m) = Head(l) - 1
  BY LiveTick DEF TypeOK, HoldsInOrder, Tick
<1>2. /\ Len(l) \in Nat /\ Len(<<>>) = 0
      /\ l # <<>> => Head(l) \in Nat
  <2>1. l \in Seq(0..TimeoutHold) /\ Len(l) \in Nat
    BY LiveType DEF TypeOK
  <2> HIDE DEF l
  <2>2. l # <<>> => Head(l) \in 0..TimeoutHold
    BY <2>1, HeadTailProperties
  <2> QED
    BY <2>1, <2>2, EmptySeq, ConstantsAssumption
<1>3. t = Never \/ (t \in Nat /\ t > 1)
  <2>1. ASSUME t \in Nat PROVE t > 1
    BY <2>1 DEF Passed
  <2> QED
    BY <2>1
<1>4. ASSUME HoldsLast(t)
      PROVE  HoldsLast(Passed(t))' /\ Len(m) = Len(l) /\ (l # <<>> => m # <<>>)
  <2>1. CASE l = <<>>
    BY <1>1, <1>4, <2>1 DEF HoldsLast, Passed, Never
  <2>2. CASE l # <<>>
    <3>1. t \in Nat /\ t > 1 /\ t <= Head(l)
      BY <1>2, <1>3, <1>4, <2>2 DEF HoldsLast, Never
    <3>2. m # <<>> /\ Len(m) = Len(l) /\ Head(m) = Head(l) - 1
      BY <1>1, <1>2, <2>2, <3>1
    <3> QED
      BY <1>2, <2>2, <3>1, <3>2 DEF HoldsLast, Passed
  <2> QED
    BY <2>1, <2>2
<1>5. ASSUME FullFor(t) PROVE FullFor(Passed(t))'
  <2> SUFFICES ASSUME breaker' = "Closed"
               PROVE  in_use(l)' >= limit' /\ HoldsLast(Passed(t))'
    BY DEF FullFor
  <2>1. in_use(l) >= limit /\ HoldsLast(t)
    BY <1>5 DEF FullFor, Tick
  <2>2. Len(m) = Len(l) /\ HoldsLast(Passed(t))'
    BY <1>4, <2>1
  <2> QED
    BY <2>1, <2>2 DEF in_use, Tick
<1>6. ASSUME ShutFor(t) PROVE ShutFor(Passed(t))'
  <2> SUFFICES ASSUME breaker' = "Open"
               PROVE  IF until' > 0 THEN Passed(t) \in 1..until'
                                    ELSE m # <<>> /\ HoldsLast(Passed(t))'
    BY DEF ShutFor
  <2>1. breaker = "Open" /\ until' = Passed(until) /\ until \in Nat
    BY DEF Tick, TypeOK
  <2>2. CASE until > 0
    <3>1. t \in 1..until
      BY <1>6, <2>1, <2>2 DEF ShutFor
    <3> QED
      BY <1>3, <2>1, <2>2, <3>1 DEF Passed, Never
  <2>3. CASE until = 0
    <3>1. l # <<>> /\ HoldsLast(t)
      BY <1>6, <2>1, <2>3 DEF ShutFor
    <3> QED
      BY <1>4, <2>1, <2>3, <3>1 DEF Passed
  <2> QED
    BY <2>1, <2>2, <2>3
<1> QED
  BY <1>5, <1>6

LEMMA Inv4Background ==
  ASSUME Inv1, Inv1', Inv2, Inv4, NEW b \in Background,
         \/ Acquire(b) \/ Admit(b) \/ Defer(b) \/ CancelAcquire(b)
         \/ AcquireBriefly(b) \/ TryAcquire(b)
         \/ \E outcome \in Outcome : Finish(b, outcome)
         \/ Release(b)
  PROVE  Inv4'
<1>0. /\ TypeOK /\ TypeOK' /\ HoldsInOrder /\ HeadSleeps /\ PollsSleep
      /\ b \in Waiters /\ b \in Requests
      /\ \A p \in Polls : p # b /\ p \in Waiters /\ p \in Requests
      /\ Live(Live(held)) = Live(held) /\ Len(Live(held)) \in Nat
      /\ limit <= limit
  BY TasksAssumption, LiveAgain, LiveType
  DEF Inv1, Inv4, Waiters, Requests, TypeOK, HoldsInOrder
<1>1. CASE Acquire(b)
  <2>1. /\ queue = <<>> => Head(queue') = b
        /\ queue # <<>> => Head(queue') = Head(queue) /\ Head(queue) # b
        /\ queue' # <<>>
    <3>1. queue \in Seq(Background) /\ queue' = Append(queue, b) /\ Len(queue) \in Nat
      BY <1>0, <1>1, LenProperties DEF TypeOK, Acquire
    <3>2. queue' # <<>> /\ queue' \in Seq(Background)
      BY <3>1, AppendProperties
    <3>3. queue = <<>> => Head(queue') = b
      BY <3>1
    <3>4. ASSUME queue # <<>> PROVE Head(queue') = Head(queue) /\ Head(queue) # b
      <4>1. Head(queue) = queue[1] /\ Head(queue') = queue'[1] /\ 1 \in 1..Len(queue)
        BY <3>1, <3>2, <3>4, EmptySeq
      <4>2. ~InQueue(queue, b)
        BY <1>0, <1>1 DEF Inv1, QueueHoldsWaiters, Acquire, TypeOK
      <4> QED
        BY <3>1, <4>1, <4>2, AppendProperties DEF InQueue
    <3> QED
      BY <3>2, <3>3, <3>4
  <2>2. timer'[b] = 0 /\ \A w \in Waiters \ {b} : timer'[w] = timer[w]
    BY <1>0, <1>1 DEF Acquire, Sleep, TypeOK
  <2>3. queue # <<>> => Head(queue) \in Waiters \ {b}
    BY <1>0, <2>1, HeadWaits DEF Waiters
  <2>4. \A p \in Polls : pc'[p] = pc[p] /\ timer'[p] = timer[p]
    BY <1>0, <1>1, <2>2 DEF Acquire, Goto, TypeOK
  <2>5. HeadSleeps' /\ PollsSleep'
    BY <1>0, <1>1, <2>1, <2>2, <2>3, <2>4, StillAsleep DEF Acquire, learned
  <2> QED
    BY <1>0, <1>1, <2>5, HoldsStep DEF Acquire, Inv4
<1>2. CASE Admit(b)
  BY <1>0, <1>2, AllAwake, HoldsStep DEF Admit, Inv4
<1>3. CASE Defer(b)
  <2>1. queue # <<>> /\ (Head(queue) = b \/ Head(queue) \in Waiters \ {b})
    <3>1. PICK i \in 1..Len(queue) : queue[i] = b
      BY <1>0, <1>3 DEF Defer, Inv1, QueueHoldsWaiters, InQueue
    <3>2. queue # <<>>
      BY <3>1, EmptySeq
    <3> QED
      BY <1>0, <3>2, HeadWaits DEF Waiters
  <2>2. \A w \in Waiters \ {b} : timer'[w] = timer[w]
    BY <1>0, <1>3 DEF Defer, Sleep, TypeOK
  <2>3. Live(held') = Live(held) /\ HoldsInOrder'
    BY <1>0, <1>3, HoldsStep DEF Defer
  <2>4. CASE Head(queue) = b
    <3>1. ~Admits(Live(held)) /\ timer'[b] = WaitFor(Live(held))
      BY <1>0, <1>3, <2>4 DEF Defer, Sleep, TypeOK
    <3>2. FullFor(WaitFor(Live(held))) /\ ShutFor(WaitFor(Live(held)))
      BY <1>0, <3>1, DeadlineSound
    <3>3. FullFor(timer[b])' /\ ShutFor(timer[b])'
      BY <1>3, <2>3, <3>1, <3>2 DEF Defer, FullFor, ShutFor, HoldsLast, in_use, learned
    <3>4. HeadSleeps'
      BY <1>3, <2>4, <3>3 DEF Defer, HeadSleeps
    <3>5. PollsSleep'
      BY <1>0, <1>3, <2>2, <2>3
      DEF Defer, PollsSleep, ShutFor, HoldsLast, learned
    <3> QED
      BY <2>3, <3>4, <3>5 DEF Inv4
  <2>5. CASE Head(queue) # b
    <3>1. HeadSleeps' /\ PollsSleep'
      BY <1>0, <1>3, <2>1, <2>2, <2>3, <2>5, StillAsleep DEF Defer, learned
    <3> QED
      BY <2>3, <3>1 DEF Inv4
  <2> QED
    BY <2>4, <2>5
<1>4. CASE CancelAcquire(b)
  BY <1>0, <1>4, AllAwake, HoldsStep DEF CancelAcquire, Inv4
<1>5. CASE AcquireBriefly(b)
  <2>1. \A p \in Polls : pc'[p] = pc[p]
    BY <1>0, <1>5 DEF AcquireBriefly, Goto, TypeOK
  <2>2. HeadSleeps' /\ PollsSleep'
    BY <1>0, <1>5, <2>1, StillAsleep DEF AcquireBriefly, learned
  <2> QED
    BY <1>0, <1>5, <2>2, HoldsStep DEF AcquireBriefly, Inv4
<1>6. CASE TryAcquire(b)
  <2>1. \A p \in Polls : pc'[p] = pc[p]
    BY <1>0, <1>6 DEF TryAcquire, Goto, TypeOK
  <2>2. HoldsInOrder' /\ Live(held') = Live(held)
    BY <1>0, <1>6, HoldsStep DEF TryAcquire
  <2>3. CASE queue = <<>> /\ Admits(Live(held)) /\ Clear(b)
    <3>1. CASE breaker = "Open"
      <4>1. breaker' = "Probing"
        BY <2>3, <3>1 DEF Clear
      <4> QED
        BY <2>2, <4>1, ProbeAwaited DEF Inv4
    <3>2. CASE breaker = "Closed"
      <4>1. HeadSleeps' /\ PollsSleep'
        BY <1>0, <1>6, <2>1, <2>3, <3>2 DEF TryAcquire, HeadSleeps, PollsSleep
      <4> QED
        BY <2>2, <4>1 DEF Inv4
    <3> QED
      BY <2>3, <3>1, <3>2 DEF Admits
  <2>4. CASE UNCHANGED <<breaker, prober, fresh, active>>
    <3>1. HeadSleeps' /\ PollsSleep'
      BY <1>0, <1>6, <2>1, <2>2, <2>4, StillAsleep DEF TryAcquire
    <3> QED
      BY <2>2, <3>1 DEF Inv4
  <2> QED
    BY <1>6, <2>3, <2>4 DEF TryAcquire
<1>7. ASSUME NEW outcome \in Outcome, Finish(b, outcome) PROVE Inv4'
  BY <1>0, <1>7, AllAwake, HoldsStep DEF Finish, Inv4
<1>8. CASE Release(b)
  BY <1>0, <1>8, AllAwake, HoldsStep DEF Release, Inv4
<1> QED
  BY <1>1, <1>2, <1>3, <1>4, <1>5, <1>6, <1>7, <1>8

LEMMA Inv4Polls ==
  ASSUME Inv1, Inv1', Inv2, Inv4, NEW p \in Polls,
         \/ PollStart(p) \/ PollAdmit(p) \/ PollDefer(p) \/ PollCancel(p)
         \/ \E outcome \in Outcome : PollFinish(p, outcome)
         \/ PollRelease(p)
  PROVE  Inv4'
<1>0. /\ TypeOK /\ TypeOK' /\ HoldsInOrder /\ HeadSleeps /\ PollsSleep
      /\ p \in Waiters /\ p \in Requests
      /\ \A q \in Polls : q \in Waiters /\ q \in Requests
      /\ Live(Live(held)) = Live(held) /\ Len(Live(held)) \in Nat
      /\ limit <= limit
  BY LiveAgain, LiveType DEF Inv1, Inv4, Waiters, Requests, TypeOK, HoldsInOrder
<1>h. queue # <<>> => Head(queue) \in Waiters \ {p}
  BY <1>0, HeadWaits, TasksAssumption DEF Waiters
<1>1. CASE PollStart(p) \/ PollCancel(p)
  <2>1. /\ timer'[p] = 0
        /\ \A w \in Waiters \ {p} : timer'[w] = timer[w]
        /\ \A q \in Polls \ {p} : pc'[q] = pc[q]
    BY <1>0, <1>1 DEF PollStart, PollCancel, Sleep, Goto, TypeOK
  <2>2. \A q \in Polls : pc'[q] = "waiting" /\ timer'[q] # 0
                           => pc[q] = "waiting" /\ timer'[q] = timer[q]
    BY <1>0, <2>1
  <2>3. HeadSleeps' /\ PollsSleep'
    BY <1>0, <1>h, <1>1, <2>1, <2>2, StillAsleep DEF PollStart, PollCancel, learned
  <2> QED
    BY <1>0, <1>1, <2>3, HoldsStep DEF PollStart, PollCancel, Inv4
<1>2. CASE PollAdmit(p)
  <2>1. HoldsInOrder' /\ Live(held') = Live(held)
    BY <1>0, <1>2, HoldsStep DEF PollAdmit
  <2>2. CASE breaker = "Open"
    <3>1. breaker' = "Probing"
      BY <1>2, <2>2 DEF PollAdmit, Clear
    <3> QED
      BY <2>1, <3>1, ProbeAwaited DEF Inv4
  <2>3. CASE breaker = "Closed"
    <3>1. \A q \in Polls : pc'[q] = "waiting" => pc[q] = "waiting"
      BY <1>0, <1>2 DEF PollAdmit, Goto, TypeOK
    <3>2. HeadSleeps' /\ PollsSleep'
      BY <1>0, <1>2, <2>1, <2>3, <3>1, StillAsleep DEF PollAdmit, Clear
    <3> QED
      BY <2>1, <3>2 DEF Inv4
  <2> QED
    BY <1>2, <2>2, <2>3 DEF PollAdmit, PollClears
<1>3. CASE PollDefer(p)
  <2>1. \A w \in Waiters \ {p} : timer'[w] = timer[w]
    BY <1>0, <1>3 DEF PollDefer, Sleep, TypeOK
  <2>2. timer'[p] = WaitFor(Live(held)) /\ ~PollClears(Live(held))
    BY <1>0, <1>3 DEF PollDefer, Sleep, TypeOK
  <2>3. HoldsInOrder' /\ Live(held') = Live(held)
    BY <1>0, <1>3, HoldsStep DEF PollDefer
  <2>4. HeadSleeps'
    BY <1>0, <1>h, <1>3, <2>1, <2>3
    DEF PollDefer, HeadSleeps, FullFor, ShutFor, HoldsLast, in_use, learned
  <2>5. PollsSleep'
    <3> SUFFICES ASSUME NEW q \in Polls, pc'[q] = "waiting", timer'[q] # 0
                 PROVE  breaker' # "Closed" /\ (queue' = <<>> => ShutFor(timer[q])')
      BY DEF PollsSleep
    <3>1. CASE q = p
      <4>1. breaker # "Closed" /\ (queue = <<>> => ~Admits(Live(held)) \/ breaker # "Open")
        BY <2>2 DEF PollClears
      <4>2. ~Admits(Live(held)) => ShutFor(WaitFor(Live(held)))
        BY <1>0, DeadlineSound
      <4> QED
        BY <1>3, <2>2, <2>3, <3>1, <4>1, <4>2 DEF PollDefer, ShutFor, HoldsLast, learned
    <3>2. CASE q # p
      <4>1. pc[q] = "waiting" /\ timer'[q] = timer[q]
        BY <1>0, <1>3, <2>1, <3>2 DEF PollDefer
      <4> QED
        BY <1>0, <1>3, <2>3, <4>1 DEF PollDefer, PollsSleep, ShutFor, HoldsLast, learned
    <3> QED
      BY <3>1, <3>2
  <2> QED
    BY <2>3, <2>4, <2>5 DEF Inv4
<1>4. ASSUME NEW outcome \in Outcome, PollFinish(p, outcome) PROVE Inv4'
  BY <1>0, <1>4, AllAwake, HoldsStep DEF PollFinish, Inv4
<1>5. CASE PollRelease(p)
  <2>1. CASE p \in prober
    BY <1>0, <1>5, <2>1, AllAwake, HoldsStep DEF PollRelease, Inv4
  <2>2. CASE p \notin prober
    <3>1. \A q \in Polls : pc'[q] = "waiting" => pc[q] = "waiting"
      BY <1>0, <1>5 DEF PollRelease, Goto, TypeOK
    <3>2. HeadSleeps' /\ PollsSleep'
      BY <1>0, <1>5, <2>2, <3>1, StillAsleep DEF PollRelease, learned
    <3> QED
      BY <1>0, <1>5, <3>2, HoldsStep DEF PollRelease, Inv4
  <2> QED
    BY <2>1, <2>2
<1> QED
  BY <1>1, <1>2, <1>3, <1>4, <1>5

LEMMA Inv4Others ==
  ASSUME Inv1, Inv1', Inv2, Inv4,
         \/ \E i \in Interactive :
              InteractiveStart(i) \/ \E outcome \in Outcome : InteractiveFinish(i, outcome)
         \/ Snapshot \/ Tick \/ UNCHANGED vars
  PROVE  Inv4'
<1>0. /\ TypeOK /\ TypeOK' /\ HoldsInOrder /\ HeadSleeps /\ PollsSleep
      /\ \A q \in Polls : q \in Waiters /\ q \in Requests /\ q \notin Interactive
      /\ Live(Live(held)) = Live(held) /\ Len(Live(held)) \in Nat
      /\ limit <= limit
  BY TasksAssumption, LiveAgain, LiveType
  DEF Inv1, Inv4, Waiters, Requests, TypeOK, HoldsInOrder
<1>1. ASSUME NEW i \in Interactive, InteractiveStart(i) PROVE Inv4'
  <2>1. \A q \in Polls : pc'[q] = pc[q]
    BY <1>0, <1>1 DEF InteractiveStart, Goto, TypeOK
  <2>2. HeadSleeps' /\ PollsSleep'
    BY <1>0, <1>1, <2>1, StillAsleep DEF InteractiveStart, learned
  <2> QED
    BY <1>0, <1>1, <2>2, HoldsStep DEF InteractiveStart, Inv4
<1>2. ASSUME NEW i \in Interactive, NEW outcome \in Outcome, InteractiveFinish(i, outcome)
      PROVE Inv4'
  <2>1. \A q \in Polls : pc'[q] = pc[q]
    BY <1>0, <1>2 DEF InteractiveFinish, Goto, TypeOK
  <2>2. UNCHANGED <<breaker, until>> /\ limit' <= limit
    <3>1. CASE UNCHANGED learned
      BY <1>0, <3>1 DEF learned
    <3>2. CASE Halve(i, 1) /\ breaker = "Closed" /\ limit' # limit
      <4>1. limit \in Nat /\ limit > 0
        BY <1>0, <3>2 DEF Inv2, BreakerAtZero, TypeOK
      <4> QED
        BY <3>2, <4>1 DEF Halve, learned
    <3> QED
      BY <1>2, <3>1, <3>2 DEF InteractiveFinish, Halve
  <2>3. HeadSleeps' /\ PollsSleep'
    BY <1>0, <1>2, <2>1, <2>2, StillAsleep DEF InteractiveFinish
  <2> QED
    BY <1>0, <1>2, <2>3, HoldsStep DEF InteractiveFinish, Inv4
<1>3. CASE Snapshot
  <2>1. HeadSleeps' /\ PollsSleep'
    BY <1>0, <1>3, StillAsleep DEF Snapshot, learned
  <2> QED
    BY <1>0, <1>3, <2>1, HoldsStep DEF Snapshot, Inv4
<1>4. CASE Tick
  <2>1. \A w \in Waiters : timer[w] \in Nat \cup {Never} /\ timer'[w] = Passed(timer[w])
    BY <1>0, <1>4 DEF Tick, TypeOK
  <2>2. \A t \in Nat \cup {Never} : Passed(t) # 0 => t # 0
    BY DEF Passed
  <2>3. \A t \in Nat \cup {Never} : Passed(t) # 0 =>
          /\ FullFor(t) => FullFor(Passed(t))'
          /\ ShutFor(t) => ShutFor(Passed(t))'
    BY <1>0, <1>4, TickSleeps
  <2>4. HeadSleeps'
    <3> SUFFICES ASSUME queue # <<>>, timer'[Head(queue)] # 0
                 PROVE  FullFor(timer[Head(queue)])' /\ ShutFor(timer[Head(queue)])'
      BY <1>4 DEF HeadSleeps, Tick
    <3> DEFINE t == timer[Head(queue)]
    <3>1. t \in Nat \cup {Never} /\ timer'[Head(queue)] = Passed(t) /\ queue' = queue
      BY <1>0, <1>4, <2>1, HeadWaits DEF Waiters, Tick
    <3>2. FullFor(t) /\ ShutFor(t) /\ Passed(t) # 0
      BY <1>0, <2>2, <3>1 DEF HeadSleeps
    <3> QED
      BY <2>3, <3>1, <3>2 DEF FullFor, ShutFor, HoldsLast
  <2>5. PollsSleep'
    <3> SUFFICES ASSUME NEW p \in Polls, pc'[p] = "waiting", timer'[p] # 0
                 PROVE  breaker' # "Closed" /\ (queue' = <<>> => ShutFor(timer[p])')
      BY DEF PollsSleep
    <3>1. /\ pc[p] = "waiting" /\ timer[p] # 0 /\ timer'[p] = Passed(timer[p])
          /\ timer[p] \in Nat \cup {Never} /\ UNCHANGED <<breaker, queue>>
      BY <1>0, <1>4, <2>1, <2>2 DEF Tick
    <3>2. breaker # "Closed" /\ (queue = <<>> => ShutFor(timer[p]))
      BY <1>0, <3>1 DEF PollsSleep
    <3> QED
      BY <2>3, <3>1, <3>2 DEF FullFor, ShutFor, HoldsLast
  <2> QED
    BY <1>0, <1>4, <2>4, <2>5, HoldsStep DEF Inv4
<1>5. CASE UNCHANGED vars
  BY <1>0, <1>5 DEF vars, Inv4, HoldsInOrder, InOrder, HeadSleeps, PollsSleep,
                    FullFor, ShutFor, HoldsLast, in_use
<1> QED
  BY <1>1, <1>2, <1>3, <1>4, <1>5

LEMMA Inv4Next == Inv1 /\ Inv1' /\ Inv2 /\ Inv4 /\ [Next]_vars => Inv4'
  BY Inv4Background, Inv4Polls, Inv4Others DEF Next

LEMMA Inv4Always == Spec => []Inv4
  BY Inv1Always, Inv2Always, Inv4Init, Inv4Next, PTL DEF Spec

\* Whatever wakes, deadlines and cancellations cross: the first in line is awake
\* when the gate would admit it, and so is every long poll the gate would clear.
THEOREM WakeupsCorrect == Spec => []NoLostWakeup
<1>1. Inv1 /\ Inv4 => NoLostWakeup
  <2> SUFFICES ASSUME Inv1, Inv4 PROVE NoLostWakeup
    OBVIOUS
  <2>0. Len(Live(held)) \in Nat /\ TypeOK /\ HeadSleeps /\ PollsSleep
    BY LiveType DEF Inv1, Inv4, TypeOK
  <2>1. HeadAwake
    BY <2>0 DEF HeadAwake, HeadSleeps, Admits, FullFor, ShutFor, in_use, TypeOK
  <2>2. PollsAwake
    BY <2>0 DEF PollsAwake, PollsSleep, PollClears, Admits, ShutFor, TypeOK
  <2> QED
    BY <2>1, <2>2 DEF NoLostWakeup
<1> QED
  BY <1>1, Inv1Always, Inv4Always, PTL

=============================================================================
