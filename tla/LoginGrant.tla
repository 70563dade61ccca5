----------------------------- MODULE LoginGrant -----------------------------
(***************************************************************************)
(* QR login grants (axon-sync/src/matrix_oauth_grant.rs): an active account *)
(* signs another device in and sends it the account's secrets. A grant      *)
(* holds the identity's lock while the SDK's protocol runs; logout,         *)
(* deletion and the supervisor that replaces a failed client cancel it      *)
(* before they wait for that lock (cancel_before_identity_lock).            *)
(*                                                                          *)
(* The identity's lock is a fair mutex: a sequence whose head holds it. The *)
(* request that creates a flow is identified with the flow. The SDK's       *)
(* protocol is a phase: 0 started, 1 channel up, 2 waiting for the user's   *)
(* approval, 3 secrets sent.                                                *)
(***************************************************************************)
EXTENDS Naturals, Sequences, FiniteSets

CONSTANTS
  Flows, Accounts, Verbs,
  None,
  AccountOf,      \* the account of a flow, and of a verb's call
  ScanFlows,      \* flows that read a code; the others show one
  KindOf,         \* what a verb's call does
  MaxConcurrent,  \* MAX_CONCURRENT_FLOWS
  MaxRetained,    \* MAX_RETAINED_FLOWS
  MaxRuns,        \* sessions of an account
  MaxFails,       \* failed runs of a supervised task
  MaxDrops        \* creating requests dropped by their connection

GrantAssumption ==
  /\ AccountOf \in [Flows \cup Verbs -> Accounts]
  /\ ScanFlows \subseteq Flows
  /\ KindOf \in [Verbs -> {"logout", "delete", "login", "recover"}]
  /\ {MaxConcurrent, MaxRetained, MaxRuns} \subseteq Nat \ {0}
  /\ {MaxFails, MaxDrops} \subseteq Nat
  /\ None \notin Flows \cup Verbs
  /\ Flows \cap Verbs = {}

VARIABLES
  flow,      \* the flows: request, view and lease, driver
  registry,  \* RegistryInner.flows
  owner,     \* RegistryInner.account_owners
  acct,      \* the accounts: row, session, lock
  verb,      \* the calls of the other verbs
  super,     \* the supervised task of an account
  count      \* failed runs and dropped requests so far

vars == <<flow, registry, owner, acct, verb, super, count>>

NewFlow ==
  [call   |-> "idle",     \* where the creating request is
   stage  |-> "starting", \* what a client reads
   permit |-> FALSE,      \* FlowLease.permit
   stop   |-> FALSE,      \* its cancellation token
   tx     |-> "open",     \* the one-shot channel of the scan or check code
   undo   |-> "none",     \* where a client's DELETE is
   pc     |-> "none",     \* where its driver is
   out    |-> "none",     \* the outcome the driver will publish
   client |-> 0,          \* the session it speaks for
   phase  |-> 0]          \* the SDK's protocol

Ended == {"done", "failed", "cancelled"}

\* A canceller: the flow it took out of the owners, and how far it is.
Idle == [pc |-> "idle", flow |-> None]

Init ==
  /\ flow = [f \in Flows |-> NewFlow]
  /\ registry = {}
  /\ owner = [a \in Accounts |-> None]
  /\ acct = [a \in Accounts |->
               [state |-> "active", run |-> 1, slot |-> TRUE, queue |-> <<>>]]
  /\ verb = [v \in Verbs |-> Idle]
  /\ super = [a \in Accounts |->
                [pc |-> "run", flow |-> None, stop |-> FALSE]]
  /\ count = [fails |-> 0, drops |-> 0]

-----------------------------------------------------------------------------
(* The identity's lock.                                                    *)

Holds(a, who) == acct[a].queue # <<>> /\ Head(acct[a].queue) = who
Queued(a, who) == [acct EXCEPT ![a].queue = Append(@, who)]
Without(a, who) ==
  [acct EXCEPT ![a].queue = SelectSeq(@, LAMBDA x : x # who)]

Creating(f) == <<"create", f>>
Driving(f) == <<"drive", f>>
Calling(v) == <<"verb", v>>
Supervising(a) == <<"super", a>>

-----------------------------------------------------------------------------
(* Creating a flow.                                                        *)

Expirable == {g \in registry : ~flow[g].permit}
Permits == Cardinality({g \in Flows : flow[g].permit})

\* reserve: a permit, room, and no other owner of the account.
reserve(f) ==
  /\ flow[f].call = "idle"
  /\ \E old \in SUBSET Expirable : registry' = registry \ old
  /\ IF \/ Permits >= MaxConcurrent
        \/ Cardinality(registry') >= MaxRetained
        \/ owner[AccountOf[f]] # None
       THEN /\ flow' = [flow EXCEPT ![f].call = "refused"]
            /\ UNCHANGED owner
       ELSE /\ flow' = [flow EXCEPT ![f].call = "lookup", ![f].permit = TRUE]
            /\ owner' = [owner EXCEPT ![AccountOf[f]] = f]
  /\ UNCHANGED <<acct, verb, super, count>>

\* create_under_reservation failed: its permit and the lock are dropped, then
\* the reservation is given up.
Fail(f) ==
  /\ flow' = [flow EXCEPT ![f].call = "abandon", ![f].permit = FALSE]
  /\ acct' = Without(AccountOf[f], Creating(f))

\* The account is read to find its lock.
Lookup(f) ==
  /\ flow[f].call = "lookup"
  /\ \/ /\ acct[AccountOf[f]].state # "gone"
        /\ flow' = [flow EXCEPT ![f].call = "lock"]
        /\ acct' = Queued(AccountOf[f], Creating(f))
     \/ Fail(f)
  /\ UNCHANGED <<registry, owner, verb, super, count>>

\* validate_authority and validate_exportable, under the lock.
Validate(f) ==
  /\ flow[f].call = "lock" /\ Holds(AccountOf[f], Creating(f))
  /\ \/ /\ acct[AccountOf[f]].state = "active"
        /\ flow' = [flow EXCEPT ![f].call = "commit"]
        /\ acct' = [acct EXCEPT ![AccountOf[f]].slot = TRUE]
     \/ Fail(f)
  /\ UNCHANGED <<registry, owner, verb, super, count>>

\* commit_reservation, unless a canceller took the reservation meanwhile or
\* the registry filled up. The driver starts and the request's lock is dropped.
StillOwned(f) == owner[AccountOf[f]] = f
StillRoom == Cardinality(registry) < MaxRetained
commit_reservation(f) ==
  /\ flow[f].call = "commit"
  /\ IF StillOwned(f) /\ StillRoom
       THEN /\ registry' = registry \cup {f}
            /\ flow' = [flow EXCEPT ![f].call = "created", ![f].pc = "spawned"]
            /\ acct' = Without(AccountOf[f], Creating(f))
       ELSE Fail(f) /\ UNCHANGED registry
  /\ UNCHANGED <<owner, verb, super, count>>

Released(f) ==
  [owner EXCEPT ![AccountOf[f]] = IF @ = f THEN None ELSE @]
\* Mutant: a failed request keeps its reservation.
abandon_nothing(f) ==
  /\ flow[f].call = "abandon"
  /\ flow' = [flow EXCEPT ![f].call = "refused"]
  /\ UNCHANGED <<registry, owner, acct, verb, super, count>>
abandon_reservation(f) ==
  /\ flow[f].call = "abandon"
  /\ flow' = [flow EXCEPT ![f].call = "refused"]
  /\ owner' = Released(f)
  /\ UNCHANGED <<registry, acct, verb, super, count>>

\* The connection of the creating request ends while it awaits the store, the
\* lock or the SDK: its permit and its lock are dropped with it.
DropRequest(f) ==
  /\ count.drops < MaxDrops
  /\ flow[f].call \in {"lookup", "lock"}
  /\ count' = [count EXCEPT !.drops = @ + 1]
  /\ flow' = [flow EXCEPT ![f].call = "dropped", ![f].permit = FALSE]
  /\ acct' = Without(AccountOf[f], Creating(f))
  /\ UNCHANGED <<registry, owner, verb, super>>

reap_expired ==
  /\ \E old \in SUBSET Expirable \ {{}} : registry' = registry \ old
  /\ UNCHANGED <<flow, owner, acct, verb, super, count>>

Create(f) ==
  \/ reserve(f) \/ Lookup(f) \/ Validate(f)
  \/ commit_reservation(f) \/ abandon_reservation(f)

-----------------------------------------------------------------------------
(* What clients do to a flow.                                              *)

\* accept_scan and accept_check_code: once, at their stage.
accept(f) ==
  /\ f \in registry /\ flow[f].permit /\ flow[f].tx = "open"
  /\ flow[f].stage = IF f \in ScanFlows THEN "starting" ELSE "code"
  /\ flow' = [flow EXCEPT ![f].tx = "sent"]
  /\ UNCHANGED <<registry, owner, acct, verb, super, count>>

\* Flow::terminal, the only way to end a flow: it consumes the permit.
Terminal(f, stage) ==
  [flow EXCEPT ![f] =
     IF @.permit
       THEN [@ EXCEPT !.permit = FALSE, !.stage = stage,
                      !.tx = IF @ = "open" THEN "dropped" ELSE @]
       ELSE @]

\* DELETE: the stage, then the cancellation token, then the owner.
Cancel(f) ==
  /\ f \in registry /\ flow[f].permit
  /\ flow' = [Terminal(f, "cancelled") EXCEPT ![f].undo = "token"]
  /\ UNCHANGED <<registry, owner, acct, verb, super, count>>
CancelToken(f) ==
  /\ flow[f].undo = "token"
  /\ flow' = [flow EXCEPT ![f].stop = TRUE, ![f].undo = "owner"]
  /\ UNCHANGED <<registry, owner, acct, verb, super, count>>
release_account_owner(f) ==
  /\ flow[f].undo = "owner"
  /\ flow' = [flow EXCEPT ![f].undo = "none"]
  /\ owner' = Released(f)
  /\ UNCHANGED <<registry, acct, verb, super, count>>

Delete(f) == CancelToken(f) \/ release_account_owner(f)

-----------------------------------------------------------------------------
(* The driver.                                                             *)

\* It leaves drive_under_identity_lock, which drops the lock.
\* Mutant: the guard outlives the driver.
LeaveLocked(f, out) ==
  /\ flow' = [flow EXCEPT ![f].pc = "end", ![f].out = out]
  /\ UNCHANGED <<registry, owner, acct, verb, super, count>>
Leave(f, out) ==
  /\ flow' = [flow EXCEPT ![f].pc = "end", ![f].out = out]
  /\ acct' = Without(AccountOf[f], Driving(f))
  /\ UNCHANGED <<registry, owner, verb, super, count>>

Start(f) ==
  /\ flow[f].pc = "spawned"
  /\ flow' = [flow EXCEPT ![f].pc = "lock"]
  /\ acct' = Queued(AccountOf[f], Driving(f))
  /\ UNCHANGED <<registry, owner, verb, super, count>>

\* Mutant: the protocol runs without the lock.
TurnAnyway(f) == TRUE
Turn(f) == Holds(AccountOf[f], Driving(f))

\* validate_authority: the client of an active account, connected if need be.
Authority(f) ==
  /\ flow[f].pc = "lock" /\ Turn(f)
  /\ \/ /\ acct[AccountOf[f]].state = "active"
        /\ flow' = [flow EXCEPT
             ![f].client = acct[AccountOf[f]].run,
             ![f].pc = IF f \in ScanFlows THEN "scan" ELSE "check"]
        /\ acct' = [acct EXCEPT ![AccountOf[f]].slot = TRUE]
        /\ UNCHANGED <<registry, owner, verb, super, count>>
     \/ /\ acct[AccountOf[f]].state # "active"
        /\ Leave(f, "cancelled")
     \/ Leave(f, "failed")

\* The scanned code arrives.
Scanned(f) ==
  /\ flow[f].pc = "scan" /\ flow[f].tx = "sent"
  /\ flow' = [flow EXCEPT ![f].pc = "check"]
  /\ UNCHANGED <<registry, owner, acct, verb, super, count>>

\* validate_poll_authority before every poll of the SDK's future: the row, at
\* most five seconds old, and the client's session and trust.
validate_poll_authority(f) ==
  LET a == AccountOf[f] IN
  /\ flow[f].pc = "check"
  /\ \/ /\ acct[a].slot \/ acct[a].state = "active"
        /\ acct[a].run = flow[f].client
        /\ flow' = [flow EXCEPT ![f].pc = "poll"]
        /\ acct' = [acct EXCEPT ![a].slot = TRUE]
        /\ UNCHANGED <<registry, owner, verb, super, count>>
     \/ /\ acct[a].state # "active" \/ acct[a].run # flow[f].client
        /\ Leave(f, "cancelled")
     \/ Leave(f, "failed")

\* poll_sdk_once: the SDK's future waits, advances, fails or returns. A shown
\* code needs its check code; the last phase before the end sends the secrets.
Advance(f) ==
  /\ flow[f].phase < 3
  /\ flow[f].phase = 1 /\ f \notin ScanFlows => flow[f].tx = "sent"
  /\ flow' = [flow EXCEPT ![f].pc = "parked", ![f].phase = @ + 1,
       ![f].stage = IF ~flow[f].permit THEN @
                    ELSE <<"code", "auth", "secrets">>[flow[f].phase + 1]]
  /\ UNCHANGED <<registry, owner, acct, verb, super, count>>
poll_sdk_once(f) ==
  /\ flow[f].pc = "poll" /\ ~flow[f].stop
  /\ \/ Advance(f)
     \/ /\ flow' = [flow EXCEPT ![f].pc = "parked"]
        /\ UNCHANGED <<registry, owner, acct, verb, super, count>>
     \/ flow[f].phase = 3 /\ Leave(f, "done")
     \/ Leave(f, "failed")

\* The future was woken, or the check code is there to be sent.
Notified(f) ==
  /\ flow[f].pc = "parked"
  /\ flow' = [flow EXCEPT ![f].pc = "check"]
  /\ UNCHANGED <<registry, owner, acct, verb, super, count>>

\* The selects of the driver, and the look before a poll.
Waiting == {"lock", "scan", "poll", "parked"}
InputDropped(f) ==
  /\ flow[f].tx = "dropped"
  /\ flow[f].pc = IF f \in ScanFlows THEN "scan" ELSE "parked"
  /\ f \in ScanFlows \/ flow[f].phase >= 1
Cancelled(f) ==
  /\ flow[f].pc \in Waiting
  /\ flow[f].stop \/ InputDropped(f)
  /\ Leave(f, "cancelled")
Deadline(f) ==
  /\ flow[f].pc \in Waiting
  /\ Leave(f, "failed")

\* The outcome is published unless the flow was cancelled; then the owner.
Publish(f) ==
  /\ flow[f].pc = "end"
  /\ flow' = [Terminal(f, flow[f].out) EXCEPT ![f].pc =
                IF flow[f].permit THEN "release" ELSE "finished"]
  /\ UNCHANGED <<registry, owner, acct, verb, super, count>>
Release(f) ==
  /\ flow[f].pc = "release"
  /\ flow' = [flow EXCEPT ![f].pc = "finished"]
  /\ owner' = Released(f)
  /\ UNCHANGED <<registry, acct, verb, super, count>>

Drive(f) ==
  \/ Start(f) \/ Authority(f) \/ Scanned(f)
  \/ validate_poll_authority(f) \/ poll_sdk_once(f) \/ Notified(f)
  \/ Cancelled(f) \/ Publish(f) \/ Release(f)

-----------------------------------------------------------------------------
(* cancel_before_identity_lock, a step for each lock it takes.             *)

\* cancel_account takes the owner out, with the flow if there is one yet.
Taken(a, c) ==
  IF owner[a] \in registry THEN [c EXCEPT !.pc = "flow", !.flow = owner[a]]
  ELSE [c EXCEPT !.pc = "queue"]
FlowEnded(c) == Terminal(c.flow, "cancelled")
AfterTerminal(c) ==
  IF flow[c.flow].permit THEN [c EXCEPT !.pc = "token"]
  ELSE [c EXCEPT !.pc = "queue", !.flow = None]
AfterToken(c) == [c EXCEPT !.pc = "queue", !.flow = None]
TokenFired(c) == [flow EXCEPT ![c.flow].stop = TRUE]

-----------------------------------------------------------------------------
(* The other verbs.                                                        *)

Cancels(v) == KindOf[v] \in {"logout", "delete"}

Call(v) ==
  LET a == AccountOf[v] IN
  /\ verb[v].pc = "idle" /\ acct[a].state # "gone"
  /\ verb' = [verb EXCEPT ![v] =
                IF Cancels(v) THEN Taken(a, @) ELSE [@ EXCEPT !.pc = "queue"]]
  /\ owner' = IF Cancels(v) THEN [owner EXCEPT ![a] = None] ELSE owner
  /\ UNCHANGED <<flow, registry, acct, super, count>>
CallFlow(v) ==
  /\ verb[v].pc = "flow"
  /\ flow' = FlowEnded(verb[v])
  /\ verb' = [verb EXCEPT ![v] = AfterTerminal(@)]
  /\ UNCHANGED <<registry, owner, acct, super, count>>
CallToken(v) ==
  /\ verb[v].pc = "token"
  /\ flow' = TokenFired(verb[v])
  /\ verb' = [verb EXCEPT ![v] = AfterToken(@)]
  /\ UNCHANGED <<registry, owner, acct, super, count>>
CallQueue(v) ==
  /\ verb[v].pc = "queue"
  /\ verb' = [verb EXCEPT ![v].pc = "wait"]
  /\ acct' = Queued(AccountOf[v], Calling(v))
  /\ UNCHANGED <<flow, registry, owner, super, count>>

\* Under the lock. logout and delete leave `active` first and then stop the
\* supervised task and wait for it; login starts a new session and its task.
CallLocked(v) ==
  LET a == AccountOf[v] IN
  /\ verb[v].pc = "wait" /\ Holds(a, Calling(v))
  /\ \/ /\ Cancels(v) /\ acct[a].state # "gone"
        /\ acct' = [acct EXCEPT ![a].state = "deactivated"]
        /\ super' = [super EXCEPT ![a].stop = TRUE]
        /\ verb' = [verb EXCEPT ![v].pc = "reap"]
     \/ /\ ~Cancels(v) \/ acct[a].state = "gone"
        /\ IF /\ KindOf[v] = "login" /\ acct[a].run < MaxRuns
              /\ acct[a].state = "deactivated"
             THEN /\ acct' = [Without(a, Calling(v)) EXCEPT
                       ![a].state = "active", ![a].run = @ + 1,
                       ![a].slot = TRUE]
                  /\ super' = [super EXCEPT ![a].pc = "run", ![a].stop = FALSE]
             ELSE acct' = Without(a, Calling(v)) /\ UNCHANGED super
        /\ verb' = [verb EXCEPT ![v].pc = "done"]
  /\ UNCHANGED <<flow, registry, owner, count>>
CallReap(v) ==
  LET a == AccountOf[v] IN
  /\ verb[v].pc = "reap" /\ super[a].pc = "stopped"
  /\ acct' = [Without(a, Calling(v)) EXCEPT ![a].slot = FALSE,
                ![a].state = IF KindOf[v] = "delete" THEN "gone" ELSE @]
  /\ verb' = [verb EXCEPT ![v].pc = "done"]
  /\ UNCHANGED <<flow, registry, owner, super, count>>

Step(v) ==
  CallFlow(v) \/ CallToken(v) \/ CallQueue(v) \/ CallLocked(v) \/ CallReap(v)

-----------------------------------------------------------------------------
(* The supervisor of a task that failed.                                   *)

RunFails(a) ==
  /\ super[a].pc = "run" /\ count.fails < MaxFails
  /\ count' = [count EXCEPT !.fails = @ + 1]
  /\ super' = [super EXCEPT ![a] = Taken(a, @)]
  /\ owner' = [owner EXCEPT ![a] = None]
  /\ UNCHANGED <<flow, registry, acct, verb>>
SuperFlow(a) ==
  /\ super[a].pc = "flow"
  /\ flow' = FlowEnded(super[a])
  /\ super' = [super EXCEPT ![a] = AfterTerminal(@)]
  /\ UNCHANGED <<registry, owner, acct, verb, count>>
SuperToken(a) ==
  /\ super[a].pc = "token"
  /\ flow' = TokenFired(super[a])
  /\ super' = [super EXCEPT ![a] = AfterToken(@)]
  /\ UNCHANGED <<registry, owner, acct, verb, count>>
SuperQueue(a) ==
  /\ super[a].pc = "queue"
  /\ super' = [super EXCEPT ![a].pc = "wait"]
  /\ acct' = Queued(a, Supervising(a))
  /\ UNCHANGED <<flow, registry, owner, verb, count>>
\* The client is evicted and the task runs again.
Evict(a) ==
  /\ super[a].pc = "wait" /\ Holds(a, Supervising(a))
  /\ acct' = [Without(a, Supervising(a)) EXCEPT ![a].slot = FALSE]
  /\ super' = [super EXCEPT ![a].pc = "run"]
  /\ UNCHANGED <<flow, registry, owner, verb, count>>
\* cancel_before_identity_lock_or_cancel gives the wait up when the task is
\* told to stop.
\* Mutant: it waits for the lock that its canceller holds.
SuperStopsLate(a) ==
  /\ super[a].stop /\ super[a].pc \in {"run", "queue"}
  /\ super' = [super EXCEPT ![a].pc = "stopped"]
  /\ UNCHANGED <<flow, registry, owner, acct, verb, count>>
SuperStops(a) ==
  /\ super[a].stop /\ super[a].pc \in {"run", "queue", "wait"}
  /\ super' = [super EXCEPT ![a].pc = "stopped"]
  /\ acct' = Without(a, Supervising(a))
  /\ UNCHANGED <<flow, registry, owner, verb, count>>

Supervise(a) ==
  SuperFlow(a) \/ SuperToken(a) \/ SuperQueue(a) \/ Evict(a) \/ SuperStops(a)

-----------------------------------------------------------------------------

Next ==
  \/ \E f \in Flows :
       \/ Create(f) \/ DropRequest(f)
       \/ accept(f) \/ Cancel(f) \/ Delete(f)
       \/ Drive(f) \/ Deadline(f)
  \/ \E v \in Verbs : Call(v) \/ Step(v)
  \/ \E a \in Accounts : RunFails(a) \/ Supervise(a)
  \/ reap_expired

Spec == Init /\ [][Next]_vars

\* Requests, drivers, verbs and supervisors run on; nothing is assumed of the
\* users who scan, type and approve.
Fairness ==
  /\ \A f \in Flows : WF_vars(Create(f)) /\ WF_vars(Delete(f))
                      /\ WF_vars(Drive(f)) /\ SF_vars(Cancelled(f))
  /\ \A v \in Verbs : WF_vars(Step(v))
  /\ \A a \in Accounts : WF_vars(Supervise(a))
FairSpec == Spec /\ Fairness

\* The deadline of a flow passes, however often its future is woken.
PatientSpec == FairSpec /\ \A f \in Flows : SF_vars(Deadline(f))
-----------------------------------------------------------------------------
(* Properties.                                                             *)

Waiters(a) ==
  {Creating(f) : f \in {f \in Flows :
     AccountOf[f] = a /\ flow[f].call \in {"lock", "commit"}}}
  \cup {Driving(f) : f \in {f \in Flows :
     AccountOf[f] = a /\ flow[f].pc \in Waiting \cup {"check"}}}
  \cup {Calling(v) : v \in {v \in Verbs :
     AccountOf[v] = a /\ verb[v].pc \in {"wait", "reap"}}}
  \cup (IF super[a].pc = "wait" THEN {Supervising(a)} ELSE {})

\* The types of the records; the queue of a lock names those who hold it or
\* wait for it, each once, and nobody who has gone.
TypeOK ==
  /\ registry \subseteq Flows
  /\ owner \in [Accounts -> Flows \cup {None}]
  /\ \A f \in Flows :
       /\ flow[f].tx \in {"open", "sent", "dropped"}
       /\ flow[f].stage \in {"starting", "code", "auth", "secrets"} \cup Ended
       /\ flow[f].phase \in 0..3 /\ flow[f].client \in 0..MaxRuns
  /\ \A a \in Accounts :
       /\ acct[a].state \in {"active", "deactivated", "gone"}
       /\ Len(acct[a].queue) = Cardinality(Waiters(a))
       /\ {acct[a].queue[i] : i \in DOMAIN acct[a].queue} = Waiters(a)

\* Secrets leave only for an active account, with the session that is its
\* current one: a logout, a deletion or a new login never overlaps the poll
\* that sends them, whenever the row was last read.
SecretsAreGuardedStep ==
  \A f \in Flows :
       flow'[f].phase = 3 /\ flow[f].phase # 3 =>
         /\ acct[AccountOf[f]].state = "active"
         /\ acct[AccountOf[f]].run = flow[f].client

\* SecretsAreGuardedStep, of every step.
SecretsAreGuarded == [][SecretsAreGuardedStep]_vars

\* A live flow is the owner of its account unless a canceller has taken it to
\* end it: cancel_account always finds the flow that holds the lock.
LiveIsOwner ==
  \A f \in registry :
    flow[f].permit =>
      \/ owner[AccountOf[f]] = f
      \/ \E v \in Verbs : verb[v].flow = f
      \/ \E a \in Accounts : super[a].flow = f

\* An owner is a request that is being served or a flow that is live or about
\* to release it: the account is not locked out of grants.
OwnerIsServed ==
  \A a \in Accounts :
    LET f == owner[a] IN
    f # None =>
      \/ flow[f].call \in {"lookup", "lock", "commit", "abandon"}
      \/ flow[f].permit \/ flow[f].undo # "none" \/ flow[f].pc = "release"

\* The registry stays within its cap although its size is read before the
\* reservation and requests overtake each other until the commit.
RegistryIsBounded == Cardinality(registry) <= MaxRetained

\* A logout or a deletion waits for the lock behind no grant that it has not
\* cancelled.
WaitsForCancelled ==
  \A f \in Flows, v \in Verbs :
    LET q == acct[AccountOf[v]].queue IN
    Cancels(v) /\ (\E i, j \in DOMAIN q :
      i < j /\ q[i] = Driving(f) /\ q[j] = Calling(v)) => flow[f].stop

\* Every verb ends: the grant that holds the lock, the supervisor that waits
\* for it and the verb that waits for the supervisor do not block each other.
VerbEnds ==
  \A v \in Verbs : []<>(verb[v].pc \in {"idle", "done"})

=============================================================================
