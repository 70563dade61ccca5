---------------------------- MODULE OAuthAcquire ----------------------------
(***************************************************************************)
(* Matrix OAuth sign-in (axon-sync/src/matrix_oauth_acquire.rs): browser   *)
(* and QR flows, their capacity lease, the durable reservation of a Matrix *)
(* user (the breadcrumb), the replacement of an open browser flow, the     *)
(* commit of the session and the adoption of the staged SDK store, the     *)
(* cleanup before the commit point and the reconciliation at boot.         *)
(*                                                                         *)
(* The request that creates a flow is identified with the flow. A session  *)
(* and an SDK store are named by the flow that made them; Old stands for   *)
(* those of a password login. The account verbs are single steps here:     *)
(* AccountLifecycle has their interleavings.                               *)
(***************************************************************************)
EXTENDS Naturals, FiniteSets

CONSTANTS
  Flows, Users,
  None, Old,
  UserOf,          \* the expected Matrix user of a flow
  MethodOf,        \* its method: browser, or a QR code shown or scanned
  Verbs,           \* the account verbs that other requests run
  MaxConcurrent,   \* MAX_CONCURRENT_FLOWS
  MaxRetained,     \* MAX_RETAINED_FLOWS
  MaxVerbs,        \* verbs run
  MaxFaults,       \* store and file system errors
  MaxDrops,        \* requests dropped by their connection
  MaxCrashes       \* process crashes

AcquireAssumption ==
  /\ UserOf \in [Flows -> Users]
  /\ MethodOf \in [Flows -> {"browser", "display", "scan"}]
  /\ Verbs \subseteq {"login", "logout", "delete"}
  /\ {MaxConcurrent, MaxRetained} \subseteq Nat \ {0}
  /\ {MaxVerbs, MaxFaults, MaxDrops, MaxCrashes} \subseteq Nat
  /\ None \notin Flows \cup {Old}
  /\ Old \notin Flows

VARIABLES
  flow,      \* the flows: their request, their view and lease, their driver
  registry,  \* the flows a client can name
  acct,      \* the users: account row, breadcrumb, stores, slot and lock
  up,        \* the API serves
  count      \* verbs, faults, drops and crashes so far

vars == <<flow, registry, acct, up, count>>

Browser(f) == MethodOf[f] = "browser"
Ended == {"done", "failed", "cancelled"}

NewFlow ==
  [call    |-> "idle",   \* where the creating request is
   target  |-> None,     \* the open flow it replaces or waits for
   view    |-> "none",   \* the stage a client reads
   reason  |-> None,     \* the request that replaced it
   permit  |-> FALSE,    \* FlowLease.permit
   claimed |-> FALSE,    \* FlowLease.finalizing
   poll    |-> FALSE,    \* token_poll_in_flight
   stop    |-> FALSE,    \* its cancellation token
   tx      |-> TRUE,     \* the one-shot sender of a scan or a check code
   pc      |-> "none",   \* where its driver is
   out     |-> "none",   \* the terminal stage the driver will publish
   client  |-> FALSE,    \* cleanup still has the client to revoke with
   dir     |-> FALSE,    \* its staging directory is on disk
   session |-> "none",   \* its session: minted, held, lost, or "revoked": its one
                         \* revocation, which may fail, has been sent
   signed  |-> FALSE,    \* its device was found cross-signed
   bound   |-> FALSE]    \* its session was committed to the account

\* A user without an account, or with one that was logged out.
NewAcct(state) ==
  [state    |-> state,
   session  |-> IF state = "none" THEN None ELSE Old,
   verified |-> FALSE,
   crumb    |-> None,    \* the flow that holds the reservation
   at       |-> "none",  \* its finalization_state
   perm     |-> IF state = "none" THEN None ELSE Old,
   prev     |-> None,    \* the displaced store
   slot     |-> None,    \* the cached client
   lock     |-> None,    \* the flow that finalizes under the identity's lock
   boot     |-> "up"]    \* where the boot's reconciliation is

Init ==
  /\ flow = [f \in Flows |-> NewFlow]
  /\ registry = {}
  /\ acct \in [Users -> {NewAcct("none"), NewAcct("deactivated")}]
  /\ up = TRUE
  /\ count = [verbs |-> 0, faults |-> 0, drops |-> 0, crashes |-> 0]

Fault ==
  /\ count.faults < MaxFaults
  /\ count' = [count EXCEPT !.faults = @ + 1]
Healthy == UNCHANGED count

Free(u) == up /\ acct[u].lock = None

\* resolve_login_target: an active or a deleting account refuses a sign-in.
Open(u) == acct[u].state \in {"none", "deactivated"}

-----------------------------------------------------------------------------
(* Creating a flow.                                                        *)

\* The answers without a flow: a conflict or an error, and no capacity.
Answer(f, a) == flow' = [flow EXCEPT ![f].call = a, ![f].permit = FALSE]
Refuse(f) == Answer(f, "refused")
Full(f) == Answer(f, "full")

\* reap_expired: forgets flows that ended long enough ago.
Expirable == {g \in registry : ~flow[g].permit}
reap_expired ==
  /\ up
  /\ \E old \in SUBSET Expirable \ {{}} : registry' = registry \ old
  /\ UNCHANGED <<flow, acct, up, count>>

\* create_flow up to its first await.
Begin(f) ==
  /\ up
  /\ flow[f].call = "idle"
  /\ \E old \in SUBSET Expirable : registry' = registry \ old
  /\ flow' = [flow EXCEPT ![f].call =
       CASE ~Browser(f) -> "admit"
         [] Cardinality(registry') >= MaxRetained -> "full"
         [] OTHER -> "check"]
  /\ UNCHANGED <<acct, up, count>>

\* The advisory look at the account, before any open flow is touched.
check_matrix_oauth_acquire_target(f) ==
  /\ flow[f].call = "check"
  /\ \/ /\ Open(UserOf[f])
        /\ flow' = [flow EXCEPT ![f].call = "find"]
        /\ Healthy
     \/ /\ ~Open(UserOf[f])
        /\ Refuse(f)
        /\ Healthy
     \/ Fault /\ Refuse(f)
  /\ UNCHANGED <<registry, acct, up>>

\* The user's browser flow whose driver still runs; a young one is left.
FindOpen(f) ==
  /\ flow[f].call = "find"
  /\ \/ flow' = [flow EXCEPT ![f].call = "admit"]
     \/ \E g \in registry :
          /\ Browser(g) /\ UserOf[g] = UserOf[f] /\ flow[g].pc # "finished"
          /\ flow' = [flow EXCEPT ![f].call = "replace", ![f].target = g]
  /\ UNCHANGED <<registry, acct, up, count>>

\* Flow::replace_if_unapproved, under the flow's mutex: an approved flow is
\* refused, and one whose token request is out is waited for.
Unapproved(g) == flow[g].view \in {"starting", "waiting"}
Replaceable(g) == Unapproved(g) /\ ~flow[g].poll
replace_if_unapproved(f) ==
  LET g == flow[f].target IN
  /\ flow[f].call = "replace"
  /\ \/ /\ Replaceable(g)
        /\ flow' = [flow EXCEPT
             ![g].view = "cancelled", ![g].reason = f, ![g].permit = FALSE,
             ![g].stop = TRUE, ![g].tx = FALSE, ![f].call = "wait"]
     \/ /\ ~Unapproved(g)
        /\ flow' = [flow EXCEPT ![f].call =
             IF flow[g].view \in Ended THEN "wait" ELSE "admit"]
  /\ UNCHANGED <<registry, acct, up, count>>

\* The wait for a token answer, and the one for the driver, are bounded.
ReplaceTimeout(f) ==
  /\ \/ flow[f].call = "replace" /\ flow[flow[f].target].poll
     \/ flow[f].call = "wait"
  /\ flow' = [flow EXCEPT ![f].call = "admit"]
  /\ UNCHANGED <<registry, acct, up, count>>

DriverFinished(f) ==
  /\ flow[f].call = "wait"
  /\ flow[flow[f].target].pc = "finished"
  /\ flow' = [flow EXCEPT ![f].call = "admit"]
  /\ UNCHANGED <<registry, acct, up, count>>

\* A capacity permit and room in the registry.
Admit(f) ==
  /\ flow[f].call = "admit"
  /\ IF \/ Cardinality({g \in Flows : flow[g].permit}) >= MaxConcurrent
        \/ Cardinality(registry) >= MaxRetained
       THEN Full(f)
       ELSE flow' = [flow EXCEPT ![f].call = "reserve", ![f].permit = TRUE,
                                 ![f].view = "starting"]
  /\ UNCHANGED <<registry, acct, up, count>>

\* create_matrix_oauth_acquire_breadcrumb: one breadcrumb for each user.
Conflict(f) == acct[UserOf[f]].crumb # None
reserve_matrix_oauth_acquire(f) ==
  LET u == UserOf[f] IN
  /\ flow[f].call = "reserve" /\ Free(u)
  /\ \/ /\ Open(u) /\ ~Conflict(f)
        /\ acct' = [acct EXCEPT ![u].crumb = f, ![u].at = "staging"]
        /\ flow' = [flow EXCEPT ![f].call = "insert"]
        /\ Healthy
     \/ /\ ~Open(u) \/ Conflict(f)
        /\ Refuse(f)
        /\ UNCHANGED acct /\ Healthy
     \/ /\ Fault /\ Refuse(f)
        /\ UNCHANGED acct
  /\ UNCHANGED <<registry, up>>

\* The flow enters the registry and its driver starts; when the registry
\* filled up meanwhile the reservation is given back.
Insert(f) ==
  /\ flow[f].call = "insert"
  /\ IF Cardinality(registry) >= MaxRetained
       THEN /\ flow' = [flow EXCEPT ![f].call = "release"]
            /\ UNCHANGED registry
       ELSE /\ flow' = [flow EXCEPT ![f].call = "created", ![f].pc = "setup"]
            /\ registry' = registry \cup {f}
  /\ UNCHANGED <<acct, up, count>>

\* abandon_matrix_oauth_acquire deletes a breadcrumb before its commit point.
Abandoned(f) ==
  [acct EXCEPT ![UserOf[f]] =
     IF @.crumb = f /\ @.at = "staging"
       THEN [@ EXCEPT !.crumb = None, !.at = "none"] ELSE @]
ReleaseRefused(f) ==
  /\ flow[f].call = "release"
  /\ \/ acct' = Abandoned(f) /\ Full(f) /\ Healthy
     \/ UNCHANGED acct /\ Refuse(f) /\ Fault
  /\ UNCHANGED <<registry, up>>

\* The connection of the creating request ends while it waits.
DropRequest(f) ==
  /\ count.drops < MaxDrops
  /\ flow[f].call \in {"check", "replace", "wait", "reserve", "insert",
                       "release"}
  /\ flow' = [flow EXCEPT ![f].call = "dropped", ![f].permit = FALSE]
  /\ count' = [count EXCEPT !.drops = @ + 1]
  /\ UNCHANGED <<registry, acct, up>>

Create(f) ==
  \/ Begin(f)
  \/ check_matrix_oauth_acquire_target(f)
  \/ FindOpen(f)
  \/ replace_if_unapproved(f)
  \/ ReplaceTimeout(f)
  \/ DriverFinished(f)
  \/ Admit(f)
  \/ reserve_matrix_oauth_acquire(f)
  \/ Insert(f)
  \/ ReleaseRefused(f)

-----------------------------------------------------------------------------
(* What clients do to a flow.                                              *)

\* Flow::cancel: until the driver claims the finalization. It consumes the
\* permit, publishes the terminal stage and fires the cancellation token.
Cancellable(f) == flow[f].permit /\ ~flow[f].claimed
cancel(f) ==
  /\ up /\ f \in registry
  /\ Cancellable(f)
  /\ flow' = [flow EXCEPT ![f].view = "cancelled", ![f].permit = FALSE,
                          ![f].stop = TRUE, ![f].tx = FALSE]
  /\ UNCHANGED <<registry, acct, up, count>>

\* submit_scan and submit_check_code: once, at their stage.
Submit(f) ==
  /\ up /\ f \in registry
  /\ <<MethodOf[f], flow[f].view>>
       \in {<<"scan", "starting">>, <<"display", "check">>}
  /\ flow[f].tx /\ ~flow[f].claimed
  /\ flow' = [flow EXCEPT ![f].tx = FALSE]
  /\ UNCHANGED <<registry, acct, up, count>>

-----------------------------------------------------------------------------
(* The driver, up to a session.                                            *)

\* update, update_browser: an ended flow keeps its stage.
Stage(f, v) == IF flow[f].view \in Ended THEN flow[f].view ELSE v

\* The staging client is built, for a scan flow once it has the code.
Setup(f) ==
  /\ flow[f].pc = "setup"
  /\ MethodOf[f] = "scan" => ~flow[f].tx
  /\ flow' = [flow EXCEPT ![f].dir = TRUE, ![f].pc =
                IF Browser(f) THEN "authorize" ELSE "exchange"]
  /\ UNCHANGED <<registry, acct, up, count>>

\* The device authorization is out: a link and a user code to show.
Authorize(f) ==
  /\ flow[f].pc = "authorize"
  /\ flow' = [flow EXCEPT ![f].pc = "wait", ![f].view = Stage(f, "waiting")]
  /\ UNCHANGED <<registry, acct, up, count>>

\* begin_token_poll: an ended flow sends nothing.
begin_token_poll(f) ==
  /\ flow[f].pc = "wait" /\ flow[f].permit
  /\ flow' = [flow EXCEPT ![f].pc = "asking", ![f].poll = TRUE]
  /\ UNCHANGED <<registry, acct, up, count>>

\* The authorization server, once the user approved.
Mint(f) ==
  /\ flow[f].pc \in {"asking", "exchange"} /\ flow[f].session = "none"
  /\ MethodOf[f] = "display" => ~flow[f].tx
  /\ flow' = [flow EXCEPT ![f].session = "minted"]
  /\ UNCHANGED <<registry, acct, up, count>>

\* settle_token_poll with tokens: the stage leaves `waiting` under the mutex
\* that a replacement takes.
Approved(f) ==
  /\ flow[f].pc = "asking" /\ flow[f].session = "minted"
  /\ flow' = [flow EXCEPT ![f].session = "held", ![f].poll = FALSE,
                ![f].view = Stage(f, "finalizing"), ![f].pc = "validate"]
  /\ UNCHANGED <<registry, acct, up, count>>

\* settle_token_poll without: pending, slow down, or an answer that is lost.
Unanswered(f) ==
  /\ flow[f].pc = "asking"
  /\ \/ flow[f].session = "none" /\ Healthy
     \/ flow[f].session = "minted" /\ Fault
  /\ flow' = [flow EXCEPT ![f].poll = FALSE, ![f].pc = "wait",
                ![f].session = IF @ = "minted" THEN "lost" ELSE @]
  /\ UNCHANGED <<registry, acct, up>>

\* The SDK's QR login: a shown code is scanned, the session arrives, and the
\* secrets follow.
QrScanned(f) ==
  /\ flow[f].pc = "exchange" /\ MethodOf[f] = "display"
  /\ flow[f].view = "starting"
  /\ flow' = [flow EXCEPT ![f].view = "check"]
  /\ UNCHANGED <<registry, acct, up, count>>
Exchanged(f) ==
  /\ flow[f].pc = "exchange" /\ flow[f].session = "minted"
  /\ flow' = [flow EXCEPT ![f].session = "held", ![f].pc = "secrets",
                          ![f].view = Stage(f, "secrets")]
  /\ UNCHANGED <<registry, acct, up, count>>
SecretsDone(f) ==
  /\ flow[f].pc = "secrets"
  /\ flow' = [flow EXCEPT ![f].pc = "validate"]
  /\ UNCHANGED <<registry, acct, up, count>>

\* The session is installed and belongs to the expected user and device.
validate_completed_client(f) ==
  /\ flow[f].pc = "validate"
  /\ flow' = [flow EXCEPT ![f].pc = "claim"]
  /\ UNCHANGED <<registry, acct, up, count>>

\* The driver gives up: a session it has is sent its revocation, one that the
\* abandoned exchange of the SDK was about to receive is lost.
GiveUp(f, out) ==
  /\ flow' = [flow EXCEPT ![f].pc = "cleanup", ![f].out = out,
                ![f].poll = FALSE, ![f].session =
                  CASE @ = "held" -> "revoked" [] @ = "minted" -> "lost"
                    [] OTHER -> @]
  /\ UNCHANGED <<registry, acct, up, count>>

Cancelled(f) ==
  /\ flow[f].pc \in {"setup", "authorize", "wait", "exchange", "secrets"}
  /\ flow[f].stop
  /\ GiveUp(f, "cancelled")

Deadline(f) ==
  /\ \/ flow[f].pc \in {"wait", "exchange", "secrets"}
     \/ flow[f].pc = "setup" /\ MethodOf[f] = "scan" /\ flow[f].tx
  /\ GiveUp(f, "failed")

\* Discovery, registration, the authorization request, a denial, the exchange
\* of secrets, or the validation of the session failed.
Upstream(f) ==
  /\ \/ flow[f].pc \in {"setup", "authorize", "secrets", "validate"}
     \/ flow[f].pc \in {"asking", "exchange"} /\ flow[f].session = "none"
  /\ GiveUp(f, "failed")

-----------------------------------------------------------------------------
(* Finalization.                                                           *)

\* A cancellation that came first wins, and the session is revoked.
claim_finalization(f) ==
  /\ flow[f].pc = "claim"
  /\ flow' = IF flow[f].stop \/ ~flow[f].permit
               THEN [flow EXCEPT ![f].pc = "cleanup", ![f].client = TRUE]
               ELSE [flow EXCEPT ![f].pc = "lock", ![f].claimed = TRUE]
  /\ UNCHANGED <<registry, acct, up, count>>

Lock(f) ==
  /\ flow[f].pc = "lock" /\ Free(UserOf[f])
  /\ flow' = [flow EXCEPT ![f].pc = "commit"]
  /\ acct' = [acct EXCEPT ![UserOf[f]].lock = f]
  /\ UNCHANGED <<registry, up, count>>

\* commit_matrix_oauth_acquire: session and breadcrumb in one transaction.
Committed(f) ==
  [acct EXCEPT ![UserOf[f]].state = "deactivated", ![UserOf[f]].session = f,
               ![UserOf[f]].verified = FALSE, ![UserOf[f]].at = "committed"]
Unlocked(a, f) == [a EXCEPT ![UserOf[f]].lock = None]
Holds(f) == acct[UserOf[f]].crumb = f /\ acct[UserOf[f]].at = "staging"

\* MatrixOAuthAcquireFinalizeFailure, before and after the commit point.
BeforeCommit(f, bound) ==
  [flow EXCEPT ![f].pc = "cleanup", ![f].client = TRUE, ![f].out = "failed",
               ![f].bound = bound, ![f].signed = bound /\ ~Browser(f)]
AfterCommit(f) == [flow EXCEPT ![f].pc = "cleanup", ![f].out = "failed"]

\* The account is looked at again, a QR flow's device must be cross-signed,
\* and the answer of a committed transaction can be lost.
Commit(f) ==
  LET ready == Open(UserOf[f]) /\ Holds(f) IN
  /\ flow[f].pc = "commit"
  /\ \/ /\ ready
        /\ acct' = Committed(f)
        /\ flow' = [flow EXCEPT ![f].pc = "promote", ![f].bound = TRUE,
                                ![f].signed = ~Browser(f)]
        /\ Healthy
     \/ /\ ~ready \/ ~Browser(f)
        /\ acct' = Unlocked(acct, f)
        /\ flow' = BeforeCommit(f, FALSE)
        /\ Healthy
     \/ /\ ready /\ Fault
        /\ \/ acct' = Unlocked(acct, f) /\ flow' = BeforeCommit(f, FALSE)
           \/ /\ acct' = Unlocked(Committed(f), f)
              /\ flow' = BeforeCommit(f, TRUE)
  /\ UNCHANGED <<registry, up>>

\* adopt_matrix_oauth_acquire_staging moves the account's store aside, then
\* the staged one in; without a staged one an earlier attempt moved it.
MoveAside(a) == [a EXCEPT !.perm = None, !.slot = None,
                          !.prev = IF @ = None THEN a.perm ELSE @]
MoveIn(a, f) == [a EXCEPT !.perm = f]

promote_matrix_oauth_acquire(f) ==
  LET u == UserOf[f] IN
  /\ flow[f].pc = "promote"
  /\ \/ /\ acct' = [acct EXCEPT ![u] = MoveAside(@)]
        /\ flow' = [flow EXCEPT ![f].pc = "move"]
        /\ Healthy
     \/ /\ Fault
        /\ acct' = Unlocked([acct EXCEPT ![u].slot = None], f)
        /\ flow' = AfterCommit(f)
  /\ UNCHANGED <<registry, up>>

Move(f) ==
  LET u == UserOf[f] IN
  /\ flow[f].pc = "move"
  /\ \/ /\ acct' = [acct EXCEPT ![u] = MoveIn(@, f)]
        /\ flow' = [flow EXCEPT ![f].pc = "connect", ![f].dir = FALSE]
        /\ Healthy
     \/ Fault /\ acct' = Unlocked(acct, f) /\ flow' = AfterCommit(f)
  /\ UNCHANGED <<registry, up>>

\* The permanent client is restored and cached, or the supervisor will try.
Connect(f) ==
  LET u == UserOf[f] IN
  /\ flow[f].pc = "connect"
  /\ \/ acct' = [acct EXCEPT ![u].slot = f, ![u].prev = None] /\ Healthy
     \/ acct' = [acct EXCEPT ![u].slot = f] /\ Fault
     \/ UNCHANGED acct /\ Healthy
  /\ flow' = [flow EXCEPT ![f].pc = "record"]
  /\ UNCHANGED <<registry, up>>

\* finalize_matrix_oauth_acquire of the store: the account is active, with
\* the trust of its method, and the breadcrumb is gone.
Finalizable(a, f) ==
  a.crumb = f /\ a.at = "committed" /\ a.state = "deactivated"
Finalized(a, f) ==
  [a EXCEPT !.state = "active", !.verified = ~Browser(f),
            !.crumb = None, !.at = "none"]

finalize_matrix_oauth_acquire(f) ==
  LET u == UserOf[f]
      a == acct[u] IN
  /\ flow[f].pc = "record"
  /\ \/ /\ Healthy
        /\ IF Finalizable(a, f)
             THEN /\ acct' = Unlocked([acct EXCEPT ![u] = Finalized(@, f)], f)
                  /\ flow' = [flow EXCEPT ![f].pc = "end", ![f].out = "done"]
             ELSE /\ acct' = Unlocked([acct EXCEPT ![u].slot = None], f)
                  /\ flow' = AfterCommit(f)
     \/ Fault /\ acct' = Unlocked(acct, f) /\ flow' = AfterCommit(f)
  /\ UNCHANGED <<registry, up>>

-----------------------------------------------------------------------------
(* Cleanup before the commit point, and the end of a flow.                 *)

\* Mutant: cleanup revokes and removes without looking at the breadcrumb.
StagingUnseen(f) == TRUE
matrix_oauth_acquire_is_staging(f) == Holds(f)

\* The first step of cleanup_precommit: past the commit point it does nothing.
cleanup_precommit(f) ==
  /\ flow[f].pc = "cleanup"
  /\ \/ /\ matrix_oauth_acquire_is_staging(f)
        /\ flow' = [flow EXCEPT ![f].pc = "remove", ![f].client = FALSE,
                      ![f].session = IF flow[f].client THEN "revoked" ELSE @]
        /\ Healthy
     \/ /\ ~matrix_oauth_acquire_is_staging(f)
        /\ flow' = [flow EXCEPT ![f].pc = "end"]
        /\ Healthy
     \/ Fault /\ flow' = [flow EXCEPT ![f].pc = "end"]
  /\ UNCHANGED <<registry, acct, up>>

RemoveStaging(f) ==
  /\ flow[f].pc = "remove"
  /\ \/ Healthy /\ flow' = [flow EXCEPT ![f].pc = "abandon", ![f].dir = FALSE]
     \/ Fault /\ flow' = [flow EXCEPT ![f].pc = "end"]
  /\ UNCHANGED <<registry, acct, up>>

abandon_matrix_oauth_acquire(f) ==
  /\ flow[f].pc = "abandon"
  /\ flow' = [flow EXCEPT ![f].pc = "end"]
  /\ \/ Healthy /\ acct' = Abandoned(f)
     \/ Fault /\ UNCHANGED acct
  /\ UNCHANGED <<registry, up>>

\* Flow::terminal: the first terminal transition keeps the stage. A driver
\* that lost the claim publishes none.
Terminal(f) == flow[f].out # "none" /\ flow[f].permit
End(f) ==
  /\ flow[f].pc = "end"
  /\ flow' = [flow EXCEPT
       ![f].pc = "finished", ![f].permit = @ /\ ~Terminal(f),
       ![f].view = IF Terminal(f) THEN flow[f].out ELSE @]
  /\ UNCHANGED <<registry, acct, up, count>>

Drive(f) ==
  \/ Setup(f) \/ Authorize(f) \/ begin_token_poll(f)
  \/ Approved(f) \/ Unanswered(f)
  \/ QrScanned(f) \/ Exchanged(f) \/ SecretsDone(f)
  \/ validate_completed_client(f)
  \/ Cancelled(f) \/ Upstream(f)
  \/ claim_finalization(f) \/ Lock(f) \/ Commit(f)
  \/ promote_matrix_oauth_acquire(f) \/ Move(f) \/ Connect(f)
  \/ finalize_matrix_oauth_acquire(f)
  \/ cleanup_precommit(f) \/ RemoveStaging(f)
  \/ abandon_matrix_oauth_acquire(f) \/ End(f)

-----------------------------------------------------------------------------
(* The other verbs of the account, each under the identity's lock.         *)

Verb(v) ==
  /\ v \in Verbs /\ count.verbs < MaxVerbs
  /\ count' = [count EXCEPT !.verbs = @ + 1]

\* login, import_token: refused while a breadcrumb exists.
login(u) ==
  /\ Verb("login") /\ Free(u) /\ Open(u) /\ acct[u].crumb = None
  /\ acct' = [acct EXCEPT ![u].state = "active", ![u].session = Old,
                          ![u].perm = Old, ![u].slot = Old]
  /\ UNCHANGED <<flow, registry, up>>

\* sever_session revokes the session of the client it takes.
Severed(u) ==
  LET c == acct[u].slot IN
  IF c \in Flows THEN [flow EXCEPT ![c].session = "revoked"] ELSE flow

\* logout: also runs on a row that is not active, and sees no breadcrumb.
logout(u) ==
  /\ Verb("logout") /\ Free(u) /\ acct[u].state \in {"active", "deactivated"}
  /\ acct' = [acct EXCEPT ![u].state = "deactivated", ![u].verified = FALSE,
                          ![u].slot = None]
  /\ flow' = Severed(u)
  /\ UNCHANGED <<registry, up>>

\* delete: refused while a breadcrumb exists; it can stop half way.
delete(u) ==
  /\ Verb("delete") /\ Free(u)
  /\ acct[u].state # "none" /\ acct[u].crumb = None
  /\ \/ acct' = [acct EXCEPT ![u] = NewAcct("none")]
     \/ acct' = [acct EXCEPT ![u].state = "deleting", ![u].slot = None]
  /\ flow' = Severed(u)
  /\ UNCHANGED <<registry, up>>

\* get_or_connect of an active account without a cached client.
get_or_connect(u) ==
  /\ up /\ acct[u].state = "active" /\ acct[u].slot = None
  /\ acct' = [acct EXCEPT ![u].slot = acct[u].session, ![u].prev = None]
  /\ UNCHANGED <<flow, registry, up, count>>

-----------------------------------------------------------------------------
(* A crash, and the boot after it.                                         *)

Crash ==
  /\ count.crashes < MaxCrashes
  /\ count' = [count EXCEPT !.crashes = @ + 1]
  /\ up' = FALSE
  /\ registry' = {}
  /\ flow' = [f \in Flows |-> [flow[f] EXCEPT
       !.call = IF @ \in {"idle", "created", "refused", "full"} THEN @
                ELSE "dropped",
       !.pc = IF @ \in {"none", "finished"} THEN @ ELSE "dead",
       !.view = "none", !.permit = FALSE, !.claimed = FALSE, !.poll = FALSE,
       !.stop = FALSE, !.client = FALSE]]
  /\ acct' = [u \in Users |-> [acct[u] EXCEPT !.slot = None, !.lock = None,
                                              !.boot = "todo"]]

\* reconcile_matrix_oauth_acquire: a failure keeps the breadcrumb.
BootAbandon(u) ==
  LET f == acct[u].crumb IN
  /\ ~up /\ acct[u].boot = "todo" /\ acct[u].at = "staging"
  /\ flow' = [flow EXCEPT ![f].dir = FALSE]
  /\ \/ acct' = [Abandoned(f) EXCEPT ![u].boot = "up"] /\ Healthy
     \/ acct' = [acct EXCEPT ![u].boot = "up"] /\ Fault
  /\ UNCHANGED <<registry, up>>

BootAdopt(u) ==
  LET f == acct[u].crumb IN
  /\ ~up /\ acct[u].boot = "todo" /\ acct[u].at = "committed"
  /\ acct' = [acct EXCEPT ![u] =
       CASE flow[f].dir -> [MoveAside(@) EXCEPT !.boot = "move"]
         [] ~flow[f].dir /\ @.perm # None -> [@ EXCEPT !.boot = "record"]
         [] OTHER -> [@ EXCEPT !.boot = "up"]]
  /\ UNCHANGED <<flow, registry, up, count>>

BootMove(u) ==
  LET f == acct[u].crumb IN
  /\ ~up /\ acct[u].boot = "move"
  /\ \/ /\ Healthy
        /\ acct' = [acct EXCEPT ![u] = [MoveIn(@, f) EXCEPT !.boot = "record"]]
        /\ flow' = [flow EXCEPT ![f].dir = FALSE]
     \/ /\ Fault
        /\ acct' = [acct EXCEPT ![u].boot = "up"]
        /\ UNCHANGED flow
  /\ UNCHANGED <<registry, up>>

BootRecord(u) ==
  LET f == acct[u].crumb IN
  /\ ~up /\ acct[u].boot = "record"
  /\ \/ /\ Healthy
        /\ acct' = [acct EXCEPT ![u] =
             [IF Finalizable(@, f) THEN Finalized(@, f) ELSE @
                EXCEPT !.boot = "up"]]
     \/ Fault /\ acct' = [acct EXCEPT ![u].boot = "up"]
  /\ UNCHANGED <<flow, registry, up>>

\* No breadcrumb is left to reconcile; interrupted deletions are completed,
\* the active accounts start and the API serves.
Serve ==
  /\ ~up
  /\ \A u \in Users : acct[u].boot = "up" \/ acct[u].crumb = None
  /\ acct' = [u \in Users |->
       IF acct[u].state = "deleting" /\ acct[u].crumb = None
         THEN NewAcct("none") ELSE [acct[u] EXCEPT !.boot = "up"]]
  /\ up' = TRUE
  /\ UNCHANGED <<flow, registry, count>>

Boot ==
  \/ Serve
  \/ \E u \in Users :
       BootAbandon(u) \/ BootAdopt(u) \/ BootMove(u) \/ BootRecord(u)

Next ==
  \/ \E f \in Flows :
       \/ Create(f) \/ DropRequest(f)
       \/ cancel(f) \/ Submit(f)
       \/ Mint(f) \/ Drive(f) \/ Deadline(f)
  \/ \E u \in Users : login(u) \/ logout(u) \/ delete(u) \/ get_or_connect(u)
  \/ reap_expired
  \/ Crash
  \/ Boot

Spec == Init /\ [][Next]_vars

\* Requests, drivers and the boot run on; the flow's deadline passes however
\* often the user's approval is asked for.
Fairness ==
  /\ \A f \in Flows : /\ WF_vars(Create(f)) /\ WF_vars(Drive(f))
                      /\ SF_vars(Deadline(f)) /\ SF_vars(Lock(f))
  /\ WF_vars(Boot)

FairSpec == Spec /\ Fairness

-----------------------------------------------------------------------------
(* Properties.                                                             *)

Driving(f) == flow[f].pc \notin {"none", "end", "finished", "dead"}

\* The types of the records, and a reservation and its state go together.
TypeOK ==
  /\ registry \subseteq Flows /\ up \in BOOLEAN
  /\ \A f \in Flows :
       /\ DOMAIN flow[f] = DOMAIN NewFlow
       /\ {flow[f].target, flow[f].reason} \subseteq Flows \cup {None}
       /\ flow[f].session \in {"none", "minted", "held", "revoked", "lost"}
       /\ flow[f].view \in {"none", "starting", "check", "waiting", "secrets",
                            "finalizing"} \cup Ended
  /\ \A u \in Users :
       /\ acct[u].state \in {"none", "deactivated", "active", "deleting"}
       /\ acct[u].at \in {"none", "staging", "committed"}
       /\ acct[u].crumb = None <=> acct[u].at = "none"
       /\ {acct[u].session, acct[u].perm, acct[u].prev, acct[u].slot}
            \subseteq Flows \cup {None, Old}

\* A session that was committed to an account that is active, or that the
\* breadcrumb promises to activate, has not been revoked, and its SDK store is
\* at the permanent or at the staging path. Cleanup, crashes between the two
\* renames, lost commit answers and the boot all act on the same rows.
CommittedIsKept ==
  \A u \in Users :
    LET f == acct[u].session IN
    (f \in Flows /\ (acct[u].at = "committed" \/ acct[u].state = "active"))
      => /\ flow[f].session = "held"
         /\ acct[u].perm = f \/ (flow[f].dir /\ acct[u].at = "committed")

\* A flow that a client saw cancelled never becomes the account's session:
\* cancellation and the driver's claim exclude each other.
CancelledIsNotAdopted ==
  \A f \in Flows : flow[f].view = "cancelled" => ~flow[f].bound

\* At most one driver of a user is between its reservation and its end, so
\* two flows never finalize against each other.
OneFlowPerUser ==
  \A f, g \in Flows :
    Driving(f) /\ Driving(g) /\ UserOf[f] = UserOf[g] => f = g

\* A flow that was replaced had no approval: no token answer that the user
\* gave before the replacement is thrown away.
ApprovalIsKept ==
  \A f \in Flows :
    flow[f].reason # None => flow[f].session \in {"none", "lost"}

\* The account is verified only with a session whose own flow found the device
\* cross-signed, whoever finished the adoption.
VerifiedIsEarned ==
  \A u \in Users :
    acct[u].verified => /\ acct[u].session \in Flows
                        /\ flow[acct[u].session].signed

\* An ended flow keeps its outcome until the process ends: a late driver does
\* not turn `cancelled` into another outcome.
OutcomeIsFinalStep ==
  \A f \in Flows :
       flow[f].view \in Ended /\ up' => flow'[f].view = flow[f].view

\* OutcomeIsFinalStep, of every step.
OutcomeIsFinal == [][OutcomeIsFinalStep]_vars

\* When a driver is finished, a session its flow was granted has been sent its
\* revocation (best_effort_revoke) or belongs to the account.
SessionIsSettled ==
  \A f \in Flows :
    flow[f].pc = "finished" =>
      flow[f].session \in {"none", "revoked"} \/ flow[f].bound

\* A reservation before its commit point belongs to a request or a driver that
\* will release it, while the API serves.
ReservationIsOwned ==
  \A u \in Users :
    LET f == acct[u].crumb IN
    up /\ acct[u].at = "staging" =>
      flow[f].call \in {"insert", "release"} \/ Driving(f)

\* Outside of a verb only an active account has a cached client.
CachedIsActive ==
  \A u \in Users :
    Free(u) /\ acct[u].slot # None => acct[u].state = "active"

\* A request that finds no capacity has not cancelled the user's open sign-in.
RefusedReplacesNothing ==
  \A f, g \in Flows : flow[f].call = "full" => flow[g].reason # f

\* Every flow gives its reservation back or commits, also through a crash.
ReservationEnds ==
  \A u \in Users : []<>(acct[u].at # "staging")

\* A committed session does not wait for ever to be adopted, by the driver or by
\* the boot after a crash.
CommitIsAdopted == \A u \in Users : []<>(acct[u].at # "committed")

=============================================================================
