---------------------------- MODULE HomeserverGate ----------------------------
(***************************************************************************)
(* The load gate between axon's background work and one homeserver          *)
(* (crates/axon-sync/src/homeserver_gate.rs, ADR 0122).                     *)
(*                                                                         *)
(* Background requests queue for a permit; long-polls wait only while the   *)
(* circuit breaker is not closed and take no slot; interactive requests     *)
(* never wait.  The adaptive limit, the held slots of timed-out requests    *)
(* and the breaker are the gate's State, guarded by one mutex, so each      *)
(* critical section is one action.                                          *)
(*                                                                         *)
(* Instants are modelled by the ticks left until they are reached, so that  *)
(* time needs no bound: an Instant in the past is 0.                        *)
(*                                                                         *)
(* The code's `epoch` is bumped by every decrease and only ever compared    *)
(* for equality with the epoch a request started in.  `fresh` holds the     *)
(* requests for which that comparison succeeds; bumping the epoch empties   *)
(* it.                                                                      *)
(***************************************************************************)
EXTENDS Integers, Sequences, FiniteSets

CONSTANTS
  Background,    \* tasks that send gated requests: backfill, redecrypt, ...
  Polls,         \* long-poll tasks (the supplementary state transport)
  Interactive,   \* gateway calls a user is waiting on
  InitialLimit,  \* INITIAL_LIMIT
  MaxLimit,      \* MAX_LIMIT
  GrowAfter,     \* GROW_AFTER
  TimeoutHold,   \* TIMEOUT_HOLD, in ticks
  Cooldown,      \* COOLDOWN, in ticks
  CooldownMax,   \* COOLDOWN_MAX, in ticks
  ReopenCap      \* bound on `reopenings`: the cooldown is at its cap by then

Waiters  == Background \cup Polls
Requests == Waiters \cup Interactive

\* The open period after the breaker has reopened n times since it last closed.
cooldown(n) == LET c == Cooldown * 2^n IN IF c < CooldownMax THEN c ELSE CooldownMax

ASSUME TasksAssumption ==
  /\ IsFiniteSet(Background) /\ IsFiniteSet(Polls)
  /\ Background \cap Polls = {}
  /\ Background \cap Interactive = {}
  /\ Polls \cap Interactive = {}

ASSUME ConstantsAssumption ==
  /\ InitialLimit \in Nat \ {0} /\ MaxLimit \in Nat /\ InitialLimit <= MaxLimit
  /\ GrowAfter \in Nat \ {0}
  /\ TimeoutHold \in Nat \ {0}
  /\ Cooldown \in Nat \ {0} /\ CooldownMax \in Nat \ {0}

\* Saturating `reopenings` at the cap loses nothing: the open period no longer grows.
ASSUME ReopenCapAssumption ==
  /\ ReopenCap \in Nat
  /\ \A n \in 0..ReopenCap : cooldown(n) \in Nat \ {0}
  /\ cooldown(ReopenCap) = CooldownMax

VARIABLES
  limit, active, held, fast, breaker, until, reopenings, queue,  \* State
  fresh,    \* requests that started in the current decrease epoch
  prober,   \* requests whose permit or clearance has `probe: true`
  pc,       \* what each task is doing
  timer     \* ticks until a waiting task looks at the gate again; Never: only a wake

learned == <<limit, fast, breaker, until, reopenings>>
vars == <<limit, active, held, fast, breaker, until, reopenings, queue,
          fresh, prober, pc, timer>>

Never == -1

\* Refined outcomes: a success is fast or slow, as `is_fast` classifies it.
Outcome == {"FastSuccess", "SlowSuccess", "TimedOut", "Overloaded", "Refused"}
HardFailure == {"TimedOut", "Overloaded"}

Permits == {b \in Background : pc[b] = "sending"}

\* Holds all last TimeoutHold, so they expire in the order they were pushed.
TypeOK ==
  /\ limit \in 0..MaxLimit
  /\ active \in Nat
  /\ held \in Seq(0..TimeoutHold)
  /\ fast \in 0..(GrowAfter - 1)
  /\ breaker \in {"Closed", "Open", "Probing"}
  /\ until \in Nat
  /\ reopenings \in 0..ReopenCap
  /\ queue \in Seq(Background)
  /\ fresh \subseteq Requests
  /\ prober \subseteq Waiters
  /\ pc \in [Requests -> {"idle", "briefly", "waiting", "sending"}]
  /\ timer \in [Waiters -> Nat \cup {Never}]

Init ==
  /\ limit = InitialLimit
  /\ active = 0
  /\ held = <<>>
  /\ fast = 0
  /\ breaker = "Closed"
  /\ until = 0
  /\ reopenings = 0
  /\ queue = <<>>
  /\ fresh = {}
  /\ prober = {}
  /\ pc = [r \in Requests |-> "idle"]
  /\ timer = [w \in Waiters |-> 0]

-----------------------------------------------------------------------------
(* Reading the gate *)

\* release_expired_holds: expired holds are a prefix of `held`.
Live(h) == SubSeq(h, Cardinality({i \in DOMAIN h : h[i] = 0}) + 1, Len(h))

\* Mutant: a permit in flight is not counted, only the held slots.
in_use_HoldsOnly(h) == Len(h)

in_use(h) == active + Len(h)

earliest_hold(h) == IF h = <<>> THEN Never ELSE Head(h)

\* Admission::Admit, with h the holds that have not expired.
Admits(h) ==
  \/ breaker = "Closed" /\ in_use(h) < limit
  \/ breaker = "Open" /\ until = 0 /\ h = <<>>

\* Admission::Wait: the deadline a refused request sleeps to.
WaitFor(h) ==
  CASE breaker = "Probing"             -> Never
    [] breaker = "Open" /\ until > 0   -> until
    [] OTHER                           -> earliest_hold(h)

\* Admitting r: as the breaker's probe when it is open.
Clear(r) ==
  /\ breaker' = IF breaker = "Open" THEN "Probing" ELSE breaker
  /\ prober' = IF breaker = "Open" THEN prober \cup {r} ELSE prober
  /\ fresh' = fresh \cup {r}

Sleep(w, ticks) == timer' = [timer EXCEPT ![w] = ticks]

Wake == timer' = [w \in Waiters |-> 0]

Goto(r, where) == pc' = [pc EXCEPT ![r] = where]

Without(q, b) == LET i == CHOOSE i \in 1..Len(q) : q[i] = b
                 IN SubSeq(q, 1, i - 1) \o SubSeq(q, i + 1, Len(q))

-----------------------------------------------------------------------------
(* What an outcome teaches the gate *)

Forget(r) == fresh' = fresh \ {r}

\* A decrease bumps the epoch: every request in flight is now of an older one.
Halve(r, floor) ==
  LET half == IF limit \div 2 < floor THEN floor ELSE limit \div 2
  IN IF r \in fresh /\ breaker = "Closed" /\ half # limit
     THEN /\ limit' = half
          /\ fresh' = {}
          /\ fast' = 0
          /\ IF half = 0
             THEN breaker' = "Open" /\ until' = cooldown(0) /\ reopenings' = 0
             ELSE UNCHANGED <<breaker, until, reopenings>>
     ELSE UNCHANGED learned /\ Forget(r)

\* Mutant: the limit grows past its ceiling.
Grow_Uncapped(r) ==
  /\ fast' = IF fast + 1 >= GrowAfter THEN 0 ELSE fast + 1
  /\ limit' = IF fast + 1 >= GrowAfter THEN limit + 1 ELSE limit
  /\ UNCHANGED <<breaker, until, reopenings>>
  /\ Forget(r)

Grow(r) ==
  /\ fast' = IF fast + 1 >= GrowAfter THEN 0 ELSE fast + 1
  /\ limit' = IF fast + 1 >= GrowAfter /\ limit < MaxLimit THEN limit + 1 ELSE limit
  /\ UNCHANGED <<breaker, until, reopenings>>
  /\ Forget(r)

\* finish_probe, for an outcome that reached the homeserver.
FinishProbe(r, outcome) ==
  /\ IF outcome \in HardFailure
     THEN LET n == IF reopenings < ReopenCap THEN reopenings + 1 ELSE ReopenCap
          IN /\ breaker' = "Open"
             /\ reopenings' = n
             /\ until' = cooldown(n)
             /\ UNCHANGED <<limit, fast>>
     ELSE /\ breaker' = "Closed"
          /\ limit' = 1
          /\ fast' = 0
          /\ reopenings' = 0
          /\ UNCHANGED until
  /\ Forget(r)

\* Mutant: a probe that ends without an answer is forgotten.
DropProbe_Forgotten == UNCHANGED learned

\* drop_probe: a probe that told the gate nothing; the next waiter probes.
DropProbe ==
  /\ breaker' = "Open"
  /\ until' = 0
  /\ UNCHANGED <<limit, fast, reopenings>>

\* A timed-out request's slot stays occupied.
Hold(outcome) ==
  held' = IF outcome = "TimedOut" THEN Append(held, TimeoutHold) ELSE held

-----------------------------------------------------------------------------
(* Background requests *)

\* acquire: join the queue.
Acquire(b) ==
  /\ pc[b] = "idle"
  /\ Goto(b, "waiting")
  /\ queue' = Append(queue, b)
  /\ Sleep(b, 0)
  /\ UNCHANGED <<learned, active, held, fresh, prober>>

\* One turn of acquire's loop, as the first in line, that gets a permit.
Admit(b) ==
  /\ pc[b] = "waiting" /\ timer[b] = 0
  /\ queue # <<>> /\ Head(queue) = b
  /\ Admits(Live(held))
  /\ held' = Live(held)
  /\ Clear(b)
  /\ active' = active + 1
  /\ queue' = Tail(queue)
  /\ Goto(b, "sending")
  /\ Wake
  /\ UNCHANGED <<limit, fast, until, reopenings>>

\* One turn of acquire's loop that has to wait.
Defer(b) ==
  /\ pc[b] = "waiting" /\ timer[b] = 0
  /\ \/ /\ Head(queue) = b
        /\ ~Admits(Live(held))
        /\ held' = Live(held)
        /\ Sleep(b, WaitFor(Live(held)))
     \/ /\ Head(queue) # b
        /\ Sleep(b, Never)
        /\ UNCHANGED held
  /\ UNCHANGED <<learned, active, queue, fresh, prober, pc>>

\* Mutant: the queue's drop guard wakes nobody.
CancelAcquire_Silent(b) ==
  /\ pc[b] = "waiting"
  /\ Goto(b, "idle")
  /\ queue' = Without(queue, b)
  /\ UNCHANGED <<learned, active, held, fresh, prober, timer>>

\* Dropping a waiting acquire (cancellation, or acquire_briefly's own timeout).
CancelAcquire(b) ==
  /\ pc[b] = "waiting"
  /\ Goto(b, "idle")
  /\ queue' = Without(queue, b)
  /\ Wake
  /\ UNCHANGED <<learned, active, held, fresh, prober>>

\* acquire_briefly, when it reads a breaker that is not closed.  With a closed
\* breaker it is an Acquire that may be cancelled.
AcquireBriefly(b) ==
  /\ pc[b] = "idle"
  /\ breaker # "Closed"
  /\ Goto(b, "briefly")
  /\ UNCHANGED <<learned, active, held, queue, fresh, prober, timer>>

\* try_acquire, under a later lock: a permit without waiting, or none.
TryAcquire(b) ==
  /\ pc[b] = "briefly"
  /\ \/ /\ queue = <<>> /\ Admits(Live(held))
        /\ held' = Live(held)
        /\ Clear(b)
        /\ active' = active + 1
        /\ Goto(b, "sending")
     \/ /\ queue = <<>> /\ ~Admits(Live(held))
        /\ held' = Live(held)
        /\ Goto(b, "idle")
        /\ UNCHANGED <<breaker, prober, fresh, active>>
     \/ /\ queue # <<>>
        /\ Goto(b, "idle")
        /\ UNCHANGED <<held, breaker, prober, fresh, active>>
  /\ UNCHANGED <<limit, fast, until, reopenings, queue, timer>>

\* Permit::finish with an outcome that reached the homeserver.
Finish(b, outcome) ==
  /\ pc[b] = "sending"
  /\ Goto(b, "idle")
  /\ active' = active - 1
  /\ Hold(outcome)
  /\ CASE b \in prober -> FinishProbe(b, outcome)
       [] b \notin prober /\ breaker = "Closed" /\ outcome = "FastSuccess" -> Grow(b)
       [] b \notin prober /\ outcome \in HardFailure -> Halve(b, 0)
       [] OTHER -> UNCHANGED learned /\ Forget(b)
  /\ prober' = prober \ {b}
  /\ Wake
  /\ UNCHANGED queue

\* Mutant: a dropped probe does not give its slot back.
Release_LeaksProbe(b) ==
  /\ pc[b] = "sending"
  /\ Goto(b, "idle")
  /\ active' = IF b \in prober THEN active ELSE active - 1
  /\ IF b \in prober THEN DropProbe ELSE UNCHANGED learned
  /\ prober' = prober \ {b}
  /\ Forget(b)
  /\ Wake
  /\ UNCHANGED <<held, queue>>

\* A permit dropped without an outcome, or finished with Outcome::Local.
Release(b) ==
  /\ pc[b] = "sending"
  /\ Goto(b, "idle")
  /\ active' = active - 1
  /\ IF b \in prober THEN DropProbe ELSE UNCHANGED learned
  /\ prober' = prober \ {b}
  /\ Forget(b)
  /\ Wake
  /\ UNCHANGED <<held, queue>>

-----------------------------------------------------------------------------
(* Long-polls *)

PollStart(p) ==
  /\ pc[p] = "idle"
  /\ Goto(p, "waiting")
  /\ Sleep(p, 0)
  /\ UNCHANGED <<learned, active, held, queue, fresh, prober>>

\* A closed breaker admits a long-poll whatever is in use; an open one admits it
\* as the probe, when no background request is waiting.
PollClears(h) ==
  \/ breaker = "Closed"
  \/ breaker = "Open" /\ queue = <<>> /\ Admits(h)

PollAdmit(p) ==
  /\ pc[p] = "waiting" /\ timer[p] = 0
  /\ PollClears(Live(held))
  /\ held' = Live(held)
  /\ Clear(p)
  /\ Goto(p, "sending")
  /\ UNCHANGED <<limit, fast, until, reopenings, active, queue, timer>>

PollDefer(p) ==
  /\ pc[p] = "waiting" /\ timer[p] = 0
  /\ ~PollClears(Live(held))
  /\ held' = Live(held)
  /\ Sleep(p, WaitFor(Live(held)))
  /\ UNCHANGED <<learned, active, queue, fresh, prober, pc>>

PollCancel(p) ==
  /\ pc[p] = "waiting"
  /\ Goto(p, "idle")
  /\ Sleep(p, 0)
  /\ UNCHANGED <<learned, active, held, queue, fresh, prober>>

\* finish_long_poll: only a hard failure, or the probe's outcome, teaches anything.
PollFinish(p, outcome) ==
  /\ pc[p] = "sending"
  /\ Goto(p, "idle")
  /\ Hold(outcome)
  /\ CASE p \in prober -> FinishProbe(p, outcome)
       [] p \notin prober /\ outcome \in HardFailure -> Halve(p, 0)
       [] OTHER -> UNCHANGED learned /\ Forget(p)
  /\ prober' = prober \ {p}
  /\ Wake
  /\ UNCHANGED <<active, queue>>

\* A clearance dropped, or finished with Outcome::Local: only a probe is noticed.
PollRelease(p) ==
  /\ pc[p] = "sending"
  /\ Goto(p, "idle")
  /\ IF p \in prober THEN DropProbe /\ Wake ELSE UNCHANGED <<learned, timer>>
  /\ prober' = prober \ {p}
  /\ Forget(p)
  /\ UNCHANGED <<active, held, queue>>

-----------------------------------------------------------------------------
(* Interactive calls, status reads and time *)

InteractiveStart(i) ==
  /\ pc[i] = "idle"
  /\ Goto(i, "sending")
  /\ fresh' = fresh \cup {i}
  /\ UNCHANGED <<learned, active, held, queue, prober, timer>>

\* report_interactive: a hard failure halves the limit, no lower than 1.
InteractiveFinish(i, outcome) ==
  /\ pc[i] = "sending"
  /\ Goto(i, "idle")
  /\ IF outcome \in HardFailure THEN Halve(i, 1) ELSE UNCHANGED learned /\ Forget(i)
  /\ UNCHANGED <<active, held, queue, prober, timer>>

\* GET /v1/status: releases expired holds without waking anyone.
Snapshot ==
  /\ held' = Live(held)
  /\ UNCHANGED <<learned, active, queue, fresh, prober, pc, timer>>

Passed(t) == IF t > 0 THEN t - 1 ELSE t

\* One tick of the clock; a deadline that is reached makes its task runnable.
Tick ==
  /\ held' = [i \in DOMAIN held |-> Passed(held[i])]
  /\ until' = Passed(until)
  /\ timer' = [w \in Waiters |-> Passed(timer[w])]
  /\ UNCHANGED <<limit, active, fast, breaker, reopenings, queue, fresh, prober, pc>>

Next ==
  \/ \E b \in Background :
       \/ Acquire(b) \/ Admit(b) \/ Defer(b) \/ CancelAcquire(b)
       \/ AcquireBriefly(b) \/ TryAcquire(b)
       \/ \E outcome \in Outcome : Finish(b, outcome)
       \/ Release(b)
  \/ \E p \in Polls :
       \/ PollStart(p) \/ PollAdmit(p) \/ PollDefer(p) \/ PollCancel(p)
       \/ \E outcome \in Outcome : PollFinish(p, outcome)
       \/ PollRelease(p)
  \/ \E i \in Interactive :
       \/ InteractiveStart(i)
       \/ \E outcome \in Outcome : InteractiveFinish(i, outcome)
  \/ Snapshot
  \/ Tick

Spec == Init /\ [][Next]_vars

\* Requests are bounded by timeouts, so each one ends; woken tasks are scheduled;
\* time passes; the supplementary transport polls again after every poll.
Fairness ==
  /\ WF_vars(Tick)
  /\ \A b \in Background :
       /\ WF_vars(Admit(b) \/ Defer(b))
       /\ WF_vars(Release(b) \/ \E outcome \in Outcome : Finish(b, outcome))
  /\ \A p \in Polls :
       /\ WF_vars(PollStart(p))
       /\ WF_vars(PollAdmit(p) \/ PollDefer(p))
       /\ WF_vars(PollRelease(p) \/ \E outcome \in Outcome : PollFinish(p, outcome))

FairSpec == Spec /\ Fairness

-----------------------------------------------------------------------------
(* Properties *)

InQueue(q, b) == \E i \in 1..Len(q) : q[i] = b
Distinct(q) == \A i, j \in 1..Len(q) : q[i] = q[j] => i = j

\* `active` counts the permits handed out and not yet finished or dropped: no
\* path through finish, release and drop leaks a slot or frees one twice.
ActiveCountsPermits == active = Cardinality(Permits)

\* The queue holds exactly the background tasks waiting in acquire, each once.
QueueHoldsWaiters ==
  /\ \A b \in Background : pc[b] = "waiting" <=> InQueue(queue, b)
  /\ Distinct(queue)

\* The breaker is probing exactly while one request carries `probe: true`, and
\* that request is in flight: a lost probe would shut the gate for good, a second
\* one would hit a struggling homeserver twice.
ProbeInFlight ==
  /\ breaker = "Probing" <=> prober # {}
  /\ \A r, s \in prober : r = s
  /\ \A r \in prober : pc[r] = "sending"

\* The limit is zero exactly while the breaker is not closed.
BreakerAtZero == breaker = "Closed" <=> limit > 0

\* However the limit moved while permits were out, at most MAX_LIMIT ordinary
\* background requests and the probe are at the homeserver at once.
LoadBound == active <= MaxLimit + (IF prober \cap Background = {} THEN 0 ELSE 1)

\* Background requests started since the last decrease fit in the current limit.
FreshWithinLimit ==
  breaker = "Closed" => Cardinality(Permits \cap fresh) <= limit

\* A first-in-line request that the gate would admit now is not asleep,
HeadAwake ==
  queue # <<>> /\ Admits(Live(held)) => timer[Head(queue)] = 0

\* nor is a long poll that the gate would clear now.
PollsAwake ==
  \A p \in Polls : pc[p] = "waiting" /\ PollClears(Live(held)) => timer[p] = 0

\* No wake-up is lost, whoever was cancelled between being woken and looking at the gate.
NoLostWakeup == HeadAwake /\ PollsAwake

\* A background request in the queue is eventually sent or cancelled, even if
\* every request fails: it becomes the probe in its turn.
QueuedIsServed ==
  \A b \in Background : []<>(pc[b] # "waiting")

\* A request that is cancelled, or that ends without an answer; not a step that an
\* answer explains as well.
Setback ==
  /\ \/ \E b \in Background :
          CancelAcquire(b) \/ Release(b) \/ \E o \in HardFailure : Finish(b, o)
     \/ \E p \in Polls :
          PollCancel(p) \/ PollRelease(p) \/ \E o \in HardFailure : PollFinish(p, o)
  /\ ~ \E o \in Outcome \ HardFailure :
          (\E b \in Background : Finish(b, o)) \/ (\E p \in Polls : PollFinish(p, o))

\* Once every request gets an answer, the breaker closes and stays closed: some
\* waiter always becomes the probe.
Recovers == <>[][~Setback]_vars => <>[](breaker = "Closed")

=============================================================================
