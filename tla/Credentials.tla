------------------------------ MODULE Credentials ------------------------------
(***************************************************************************)
(* The owner's credentials: bearer tokens, bound OAuth identities and the      *)
(* rotating refresh tokens (crates/axon-store/src/tokens.rs,                  *)
(* oauth_identities.rs, oauth_refresh_tokens.rs, oauth_native.rs), with the     *)
(* handlers that call them (crates/axon-api/src/oauth/tokens.rs,              *)
(* routes/management.rs) and the push registrations they take along.           *)
(*                                                                         *)
(* Transactions run at READ COMMITTED: a statement sees what was committed when  *)
(* it began, waits for the row locks of others and re-checks the rows it waited  *)
(* for, and nothing it writes is seen before its transaction commits.           *)
(***************************************************************************)
EXTENDS Integers, Sequences, FiniteSets

CONSTANTS
  Identities,  \* rows of oauth_identities whose provider is usable, each with the
               \* sign-ins of one client
  Requests,    \* calls in progress at once
  None,        \* no identity, no holder of a lock
  Calls,       \* the kinds of calls this instance makes
  MaxTokens,   \* bound: rows of tokens
  MaxRefresh   \* bound: rows of oauth_refresh_tokens

CredentialsAssumption ==
  /\ None \notin Identities /\ None \notin Requests
  /\ Calls \subseteq {"bootstrap", "cli", "signin", "native", "rotate", "mint", "revoke", "unbind",
                      "unguarded", "register", "expire", "sweep"}
  /\ MaxTokens \in Nat /\ MaxRefresh \in Nat

VARIABLES
  bound,     \* oauth_identities
  ever,      \* history: identities that have been bound
  tokens,    \* tokens, in the order of insertion
  refresh,   \* oauth_refresh_tokens, in the order of insertion
  regs,      \* the sessions push_registrations has rows of
  credLock,  \* holder of CREDENTIAL_LOCK_KEY
  bootLock,  \* holder of BOOTSTRAP_LOCK_KEY
  req        \* the calls in progress

tables == <<bound, ever, tokens, refresh, regs>>
vars == <<bound, ever, tokens, refresh, regs, credLock, bootLock, req>>

\* `root` is history: the identity whose sign-in the token goes back to.
Tokens == [ident : Identities \cup {None}, perm : BOOLEAN, parent : 0..MaxTokens,
           session : 1..MaxTokens, root : Identities \cup {None}, boot : BOOLEAN,
           state : {"live", "expired", "revoked"}]
\* A refresh row that is deleted is "lapsed" when it had run out unrevoked, else "gone".
RefreshTokens == [ident : Identities, session : 1..MaxTokens, from : 0..MaxRefresh,
                  state : {"active", "expired", "revoked", "gone", "lapsed"}]

Idle == [op |-> "none", pc |-> "idle"]

TypeOK ==
  /\ bound \subseteq ever /\ ever \subseteq Identities
  /\ tokens \in Seq(Tokens) /\ Len(tokens) <= MaxTokens
  /\ refresh \in Seq(RefreshTokens) /\ Len(refresh) <= MaxRefresh
  /\ regs \subseteq 1..MaxTokens
  /\ credLock \in Requests \cup {None} /\ bootLock \in Requests \cup {None}
  /\ DOMAIN req = Requests

Init ==
  /\ bound = {} /\ ever = {} /\ tokens = <<>> /\ refresh = <<>> /\ regs = {}
  /\ credLock = None /\ bootLock = None
  /\ req = [q \in Requests |-> Idle]

-----------------------------------------------------------------------------
(* Rows and locks *)

NewSession == Len(tokens) + 1

\* An access token of a sign-in: it expires and names its identity.
Access(i, s) == [ident |-> i, perm |-> FALSE, parent |-> 0, session |-> s, root |-> i,
                 boot |-> FALSE, state |-> "live"]

\* A token that does not expire is a session of its own.
Permanent(parent, root, boot) ==
  [ident |-> None, perm |-> TRUE, parent |-> parent, session |-> NewSession, root |-> root,
   boot |-> boot, state |-> "live"]

Refreshing(i, s, from) == [ident |-> i, session |-> s, from |-> from, state |-> "active"]

RoomForToken == Len(tokens) < MaxTokens
RoomForRefresh == Len(refresh) < MaxRefresh

\* The unbind that holds the identity's row FOR UPDATE, and the rotations that hold it
\* FOR KEY SHARE because they have inserted a row that references it.
Unbinding(i) == {q \in Requests : req[q].pc \in {"tokens", "rows", "count", "commit"}
                                   /\ req[q].op = "unbind" /\ req[q].ident = i}
Sharing(i) == {q \in Requests : req[q].pc = "rotated" /\ refresh[req[q].row].ident = i}

\* Who holds the lock of a refresh row: a rotation of it, a revocation that has selected
\* or updated it, or an unbind that has deleted it.
Holders(r) ==
  {q \in Requests : \/ req[q].pc \in {"fk", "rotated"} /\ req[q].row = r
                    \/ /\ req[q].pc \in {"select", "locking", "updating", "count", "commit"}
                       /\ req[q].op = "end" /\ r \in req[q].mine
                    \/ /\ req[q].pc \in {"count", "commit"} /\ req[q].op = "unbind"
                       /\ r \in req[q].rows}
FreeFor(q, r) == Holders(r) \subseteq {q}

OfIdentity(i) == {r \in DOMAIN refresh : refresh[r].ident = i /\ refresh[r].state \notin {"gone", "lapsed"}}
Unrevoked(i) == {r \in OfIdentity(i) : refresh[r].state # "revoked"}

Goto(q, pc) == req' = [req EXCEPT ![q].pc = pc]
End(q) == req' = [req EXCEPT ![q] = Idle]

-----------------------------------------------------------------------------
(* The first credential, and those an operator makes *)

BootstrapAvailable == tokens = <<>> /\ bound = {}

\* lock_bootstrap and bootstrap_available_in_tx.
BootLock(q) ==
  /\ "bootstrap" \in Calls /\ req[q] = Idle /\ bootLock = None
  /\ BootstrapAvailable
  /\ bootLock' = q
  /\ req' = [req EXCEPT ![q] = [op |-> "boot", pc |-> "boot"]]
  /\ UNCHANGED <<tables, credLock>>

\* issue_first_bootstrap_token commits.
BootToken(q) ==
  /\ req[q].pc = "boot" /\ RoomForToken
  /\ tokens' = Append(tokens, Permanent(0, None, TRUE))
  /\ bootLock' = None /\ End(q)
  /\ UNCHANGED <<bound, ever, refresh, regs, credLock>>

\* issue_first_oauth_token_pair commits: the identity and the pair together.
BootPair(q, i) ==
  /\ req[q].pc = "boot" /\ RoomForToken /\ RoomForRefresh
  /\ i \notin ever
  /\ bound' = bound \cup {i} /\ ever' = ever \cup {i}
  /\ tokens' = Append(tokens, [Access(i, NewSession) EXCEPT !.boot = TRUE])
  /\ refresh' = Append(refresh, Refreshing(i, NewSession, 0))
  /\ bootLock' = None /\ End(q)
  /\ UNCHANGED <<regs, credLock>>

\* `axon token issue`: issue_token.
IssueToken ==
  /\ "cli" \in Calls /\ RoomForToken
  /\ tokens' = Append(tokens, Permanent(0, None, FALSE))
  /\ UNCHANGED <<bound, ever, refresh, regs, credLock, bootLock, req>>

\* bind_identity.  An identity bound again after an unbind is another row.
Bind(i) ==
  /\ "cli" \in Calls /\ i \notin ever
  /\ bound' = bound \cup {i} /\ ever' = ever \cup {i}
  /\ UNCHANGED <<tokens, refresh, regs, credLock, bootLock, req>>

-----------------------------------------------------------------------------
(* Signing in and refreshing *)

\* mint_token_pair's first insert; it waits for an unbind that holds the identity.
SignIn(q, i) ==
  /\ "signin" \in Calls /\ req[q] = Idle /\ RoomForToken
  /\ i \in bound /\ Unbinding(i) = {}
  /\ tokens' = Append(tokens, Access(i, NewSession))
  /\ req' = [req EXCEPT ![q] = [op |-> "signin", pc |-> "pair", ident |-> i, session |-> NewSession]]
  /\ UNCHANGED <<bound, ever, refresh, regs, credLock, bootLock>>

\* Its second, a call of its own: it fails if the identity has gone meanwhile.
SignInPair(q) ==
  LET i == req[q].ident
  IN /\ req[q].pc = "pair" /\ Unbinding(i) = {}
     /\ \/ /\ i \in bound /\ RoomForRefresh
           /\ refresh' = Append(refresh, Refreshing(i, req[q].session, 0))
        \/ UNCHANGED refresh
     /\ End(q)
     /\ UNCHANGED <<bound, ever, tokens, regs, credLock, bootLock>>

\* redeem_identity_atomically: the pair in one transaction that shares the identity.
SignInNative(i) ==
  /\ "native" \in Calls /\ RoomForToken /\ RoomForRefresh
  /\ i \in bound /\ Unbinding(i) = {}
  /\ tokens' = Append(tokens, Access(i, NewSession))
  /\ refresh' = Append(refresh, Refreshing(i, NewSession, 0))
  /\ UNCHANGED <<bound, ever, regs, credLock, bootLock, req>>

\* The rotation's condition: revoked_at IS NULL AND expires_at > now().
Rotatable(r) == refresh[r].state = "active"

\* redeem_refresh_token: the UPDATE has its row.
Rotate(q, r) ==
  /\ "rotate" \in Calls /\ req[q] = Idle
  /\ Rotatable(r) /\ Holders(r) = {}
  /\ req' = [req EXCEPT ![q] = [op |-> "rotate", pc |-> "fk", row |-> r]]
  /\ UNCHANGED <<tables, credLock, bootLock>>

\* Its INSERT references the identity, which an unbind may hold.
RotateInsert(q) ==
  /\ req[q].pc = "fk" /\ RoomForRefresh
  /\ Unbinding(refresh[req[q].row].ident) = {}
  /\ Goto(q, "rotated")
  /\ UNCHANGED <<tables, credLock, bootLock>>

\* The statement commits.
RotateCommit(q) ==
  LET old == refresh[req[q].row]
  IN /\ req[q].pc = "rotated" /\ RoomForRefresh
     /\ refresh' = Append([refresh EXCEPT ![req[q].row].state = "revoked"],
                          Refreshing(old.ident, old.session, req[q].row))
     /\ req' = [req EXCEPT ![q] = [op |-> "rotate", pc |-> "access", ident |-> old.ident, session |-> old.session]]
     /\ UNCHANGED <<bound, ever, tokens, regs, credLock, bootLock>>

\* The new access token is a call of its own, refused once the identity is gone.
RotateAccess(q) ==
  LET i == req[q].ident
  IN /\ req[q].pc = "access" /\ Unbinding(i) = {}
     /\ \/ /\ i \in bound /\ RoomForToken
           /\ tokens' = Append(tokens, Access(i, req[q].session))
        \/ UNCHANGED tokens
     /\ End(q)
     /\ UNCHANGED <<bound, ever, refresh, regs, credLock, bootLock>>

\* `token` 0: the cut that follows a reuse.  `mine`: rows locked; `hit`: rows revoked;
\* `before` and `upto`: history, the sessions that could renew and the rows there were
\* when the cut took the lock.
EndCall(i, token, guarded) ==
  [op |-> "end", pc |-> "lock", ident |-> i, token |-> token, guarded |-> guarded,
   todo |-> {}, mine |-> {}, hit |-> {}, before |-> {}, upto |-> 0, refused |-> FALSE]

\* The rotation matched nothing because the token was revoked: reuse.
Replay(q, r) ==
  /\ "rotate" \in Calls /\ req[q] = Idle
  /\ refresh[r].state = "revoked" /\ Holders(r) = {}
  /\ req' = [req EXCEPT ![q] = EndCall(refresh[r].ident, 0, FALSE)]
  /\ UNCHANGED <<tables, credLock, bootLock>>

-----------------------------------------------------------------------------
(* Removing credentials *)

Revoke(q, k) ==
  /\ "revoke" \in Calls /\ req[q] = Idle
  /\ \E guarded \in IF "unguarded" \in Calls THEN BOOLEAN ELSE {TRUE} :
       req' = [req EXCEPT ![q] = EndCall(None, k, guarded)]
  /\ UNCHANGED <<tables, credLock, bootLock>>

\* Mutant: the credential lock is not taken.
CredentialsFree_Always == TRUE

\* pg_advisory_xact_lock(CREDENTIAL_LOCK_KEY).
CredentialsFree == credLock = None

\* remove_token and revoke_refresh_sessions take the lock; the token's row is read.
EndLock(q) ==
  LET i == IF req[q].token = 0 THEN req[q].ident ELSE tokens[req[q].token].ident
  IN /\ req[q].pc = "lock" /\ req[q].op = "end" /\ CredentialsFree
     /\ credLock' = q
     /\ req' = [req EXCEPT ![q].pc = IF i = None THEN "count" ELSE "select", ![q].ident = i,
                           ![q].upto = Len(refresh),
                           ![q].before = IF i = None THEN {} ELSE {refresh[r].session : r \in Unrevoked(i)}]
     /\ UNCHANGED <<tables, bootLock>>

\* end_sessions_in_tx: SELECT ... FOR UPDATE begins.
EndSelect(q) ==
  /\ req[q].pc = "select"
  /\ req' = [req EXCEPT ![q].pc = "locking", ![q].todo = Unrevoked(req[q].ident)]
  /\ UNCHANGED <<tables, credLock, bootLock>>

\* A row is waited for, re-checked and locked.
EndLockRow(q, r) ==
  /\ req[q].pc = "locking" /\ r \in req[q].todo /\ FreeFor(q, r)
  /\ req' = [req EXCEPT ![q].todo = @ \ {r},
                        ![q].mine = IF r \in Unrevoked(req[q].ident) THEN @ \cup {r} ELSE @]
  /\ UNCHANGED <<tables, credLock, bootLock>>

\* The UPDATE begins, on a snapshot of its own.
EndUpdate(q) ==
  /\ req[q].pc = "locking" /\ req[q].todo = {}
  /\ req' = [req EXCEPT ![q].pc = "updating", ![q].todo = Unrevoked(req[q].ident)]
  /\ UNCHANGED <<tables, credLock, bootLock>>

EndUpdateRow(q, r) ==
  /\ req[q].pc = "updating" /\ r \in req[q].todo /\ FreeFor(q, r)
  /\ req' = [req EXCEPT ![q].todo = @ \ {r},
                        ![q].mine = @ \cup {r},
                        ![q].hit = IF r \in Unrevoked(req[q].ident) THEN @ \cup {r} ELSE @]
  /\ UNCHANGED <<tables, credLock, bootLock>>

\* surviving_credential_in_tx, on the rows the transaction would leave.
Survivor(left, idents) ==
  \/ \E k \in DOMAIN left : left[k].perm /\ left[k].state = "live"
  \/ idents # {}

Ended(q) == IF req[q].token = 0 THEN tokens
            ELSE [tokens EXCEPT ![req[q].token].state = "revoked"]

\* The guard is for a token that was itself a survivor.
EndCount(q) ==
  LET k == req[q].token
  IN /\ req[q].op = "end"
     /\ \/ req[q].pc = "count" /\ k # 0
        \/ req[q].pc = "updating" /\ req[q].todo = {}
     /\ req' = [req EXCEPT ![q].pc = "commit",
                  ![q].refused = /\ req[q].guarded /\ k # 0
                                 /\ tokens[k].perm /\ tokens[k].state = "live"
                                 /\ ~Survivor(Ended(q), bound)]
     /\ UNCHANGED <<tables, credLock, bootLock>>

\* The transaction commits, or is rolled back when it would lock the owner out.
EndCommit(q) ==
  LET over == {refresh[r].session : r \in req[q].hit}
              \cup (IF req[q].token = 0 THEN {} ELSE {tokens[req[q].token].session})
  IN /\ req[q].pc = "commit" /\ req[q].op = "end"
     /\ IF req[q].refused THEN UNCHANGED <<tokens, refresh, regs>>
        ELSE /\ tokens' = Ended(q)
             /\ refresh' = [r \in DOMAIN refresh |->
                              IF r \in req[q].hit THEN [refresh[r] EXCEPT !.state = "revoked"]
                              ELSE refresh[r]]
             /\ regs' = regs \ over
     /\ credLock' = None /\ End(q)
     /\ UNCHANGED <<bound, ever, bootLock>>

Unbind(q, i) ==
  /\ "unbind" \in Calls /\ req[q] = Idle /\ i \in bound
  /\ \E guarded \in IF "unguarded" \in Calls THEN BOOLEAN ELSE {TRUE} :
       req' = [req EXCEPT ![q] = [op |-> "unbind", pc |-> "lock", ident |-> i, guarded |-> guarded,
                                  doomed |-> {}, rows |-> {}, refused |-> FALSE]]
  /\ UNCHANGED <<tables, credLock, bootLock>>

\* remove_identity takes the lock and finds the identity, or not.
UnbindLock(q) ==
  /\ req[q].pc = "lock" /\ req[q].op = "unbind" /\ CredentialsFree
  /\ IF req[q].ident \in bound THEN credLock' = q /\ Goto(q, "ident")
     ELSE UNCHANGED credLock /\ End(q)
  /\ UNCHANGED <<tables, bootLock>>

\* SELECT ... FOR UPDATE of the identity waits for the rotations that share it.
UnbindIdentity(q) ==
  /\ req[q].pc = "ident" /\ Sharing(req[q].ident) = {}
  /\ Goto(q, "tokens")
  /\ UNCHANGED <<tables, credLock, bootLock>>

\* The tokens minted from the identity's sessions, and those minted from them.
Minted(i) ==
  LET below[k \in 0..Len(tokens)] ==
        /\ k # 0 /\ tokens[k].parent # 0
        /\ tokens[tokens[k].parent].ident = i \/ below[tokens[k].parent]
  IN {k \in DOMAIN tokens : below[k]}

\* The statements on registrations and tokens, up to the DELETE of the refresh rows.
UnbindTokens(q) ==
  LET i == req[q].ident
  IN /\ req[q].pc = "tokens"
     /\ req' = [req EXCEPT ![q].pc = "rows",
                           ![q].doomed = Minted(i) \cup {k \in DOMAIN tokens : tokens[k].ident = i},
                           ![q].rows = OfIdentity(i)]
     /\ UNCHANGED <<tables, credLock, bootLock>>

\* That DELETE waits for the rows that are being rotated.
UnbindRows(q) ==
  /\ req[q].pc = "rows" /\ \A r \in req[q].rows : FreeFor(q, r)
  /\ Goto(q, "count")
  /\ UNCHANGED <<tables, credLock, bootLock>>

Unbound(q) ==
  [k \in DOMAIN tokens |->
     IF k \in req[q].doomed
     THEN [tokens[k] EXCEPT !.state = "revoked",
             !.ident = IF @ = req[q].ident THEN None ELSE @]
     ELSE tokens[k]]

UnbindCount(q) ==
  /\ req[q].pc = "count" /\ req[q].op = "unbind"
  /\ req' = [req EXCEPT ![q].pc = "commit",
               ![q].refused = req[q].guarded /\ ~Survivor(Unbound(q), bound \ {req[q].ident})]
  /\ UNCHANGED <<tables, credLock, bootLock>>

UnbindCommit(q) ==
  LET i == req[q].ident
      over == {tokens[k].session : k \in req[q].doomed} \cup {refresh[r].session : r \in req[q].rows}
  IN /\ req[q].pc = "commit" /\ req[q].op = "unbind"
     /\ IF req[q].refused THEN UNCHANGED tables
        ELSE /\ bound' = bound \ {i}
             /\ tokens' = Unbound(q)
             /\ refresh' = [r \in DOMAIN refresh |->
                              IF r \in req[q].rows THEN [refresh[r] EXCEPT !.state = "gone"]
                              ELSE refresh[r]]
             /\ regs' = regs \ over
             /\ UNCHANGED ever
     /\ credLock' = None /\ End(q)
     /\ UNCHANGED bootLock

\* A rotation holds a row the unbind waits for and waits for the identity the unbind
\* holds: Postgres ends one of the two.
DeadlockVictim(q, u) ==
  /\ req[q].pc = "fk" /\ u \in Unbinding(refresh[req[q].row].ident) /\ req[u].pc = "rows"
  /\ \/ End(q) /\ UNCHANGED credLock
     \/ End(u) /\ credLock' = None
  /\ UNCHANGED <<tables, bootLock>>

-----------------------------------------------------------------------------
(* What uses a credential *)

\* require_bearer has verified the token of POST /v1/management/tokens.
MintStart(q, k) ==
  /\ "mint" \in Calls /\ req[q] = Idle /\ tokens[k].state = "live"
  /\ req' = [req EXCEPT ![q] = [op |-> "mint", pc |-> "insert", parent |-> k]]
  /\ UNCHANGED <<tables, credLock, bootLock>>

\* issue_token_created_by: a plain insert.
MintInsert(q) ==
  /\ req[q].pc = "insert" /\ RoomForToken
  /\ tokens' = Append(tokens, Permanent(req[q].parent, tokens[req[q].parent].root, FALSE))
  /\ End(q)
  /\ UNCHANGED <<bound, ever, refresh, regs, credLock, bootLock>>

Renewable(s) == \E r \in DOMAIN refresh : refresh[r].session = s /\ refresh[r].state = "active"

\* upsert_push_registration, one statement under the credential lock.
Register(k) ==
  /\ "register" \in Calls /\ CredentialsFree
  /\ tokens[k].state = "live" /\ (tokens[k].perm \/ Renewable(tokens[k].session))
  /\ regs' = regs \cup {tokens[k].session}
  /\ UNCHANGED <<bound, ever, tokens, refresh, credLock, bootLock, req>>

\* Time passes an expires_at.
ExpireToken(k) ==
  /\ "expire" \in Calls /\ tokens[k].state = "live" /\ ~tokens[k].perm
  /\ tokens' = [tokens EXCEPT ![k].state = "expired"]
  /\ UNCHANGED <<bound, ever, refresh, regs, credLock, bootLock, req>>

ExpireRefresh(r) ==
  /\ "expire" \in Calls /\ refresh[r].state = "active" /\ Holders(r) = {}
  /\ refresh' = [refresh EXCEPT ![r].state = "expired"]
  /\ UNCHANGED <<bound, ever, tokens, regs, credLock, bootLock, req>>

\* delete_stale_refresh_tokens, SWEEP_WINDOW after a revocation or, for a row that was
\* never revoked, after its expiry.
Sweep(r) ==
  /\ "sweep" \in Calls /\ refresh[r].state \in {"revoked", "expired"}
  /\ \A q \in Requests : req[q] = Idle
  /\ refresh' = [refresh EXCEPT ![r].state = IF @ = "expired" THEN "lapsed" ELSE "gone"]
  /\ UNCHANGED <<bound, ever, tokens, regs, credLock, bootLock, req>>

-----------------------------------------------------------------------------

Step(q) ==
  \/ BootLock(q) \/ BootToken(q)
  \/ \E i \in Identities : BootPair(q, i) \/ SignIn(q, i) \/ Unbind(q, i)
  \/ SignInPair(q) \/ RotateInsert(q) \/ RotateCommit(q) \/ RotateAccess(q)
  \/ \E r \in DOMAIN refresh : Rotate(q, r) \/ Replay(q, r) \/ EndLockRow(q, r) \/ EndUpdateRow(q, r)
  \/ \E k \in DOMAIN tokens : Revoke(q, k) \/ MintStart(q, k)
  \/ EndLock(q) \/ EndSelect(q) \/ EndUpdate(q) \/ EndCount(q) \/ EndCommit(q)
  \/ UnbindLock(q) \/ UnbindIdentity(q) \/ UnbindTokens(q) \/ UnbindRows(q) \/ UnbindCount(q)
  \/ UnbindCommit(q) \/ MintInsert(q)
  \/ \E u \in Requests : DeadlockVictim(q, u)

Next ==
  \/ \E q \in Requests : Step(q)
  \/ IssueToken
  \/ \E i \in Identities : Bind(i) \/ SignInNative(i)
  \/ \E k \in DOMAIN tokens : Register(k) \/ ExpireToken(k)
  \/ \E r \in DOMAIN refresh : ExpireRefresh(r) \/ Sweep(r)

Spec == Init /\ [][Next]_vars

-----------------------------------------------------------------------------
(* Properties *)

\* The first-run bootstrap makes one credential, whichever of its three doors are tried
\* at once.
OneBootstrap == Cardinality({k \in DOMAIN tokens : tokens[k].boot}) <= 1

\* A refresh token is rotated at most once, however its redemptions interleave.
RotatedOnce ==
  \A r, s \in DOMAIN refresh : refresh[r].from # 0 /\ refresh[r].from = refresh[s].from => r = s

\* Where every removal is guarded, an instance that has had a way to sign in keeps one:
\* two removals never count each other's credential as the survivor.
OwnerCanSignIn == ever # {} \/ (\E k \in DOMAIN tokens : tokens[k].perm) => Survivor(tokens, bound)

\* An unbound identity leaves no working access token and no refresh token behind, and
\* no registration of its sessions, whatever sign-in or rotation was in flight.
UnboundIsClean ==
  \A i \in ever \ bound :
    /\ \A k \in DOMAIN tokens : ~tokens[k].perm /\ tokens[k].root = i =>
         tokens[k].state = "revoked" /\ tokens[k].session \notin regs
    /\ OfIdentity(i) = {}

\* A registered session has a token that does not expire or a refresh token, not revoked,
\* or its time has run out: a session that is ended takes its registration along. (One
\* that has run out keeps it, swept or not, until a send or a boot looks.)
RegisteredIsBacked ==
  \A s \in regs :
    \/ \E k \in DOMAIN tokens : tokens[k].session = s /\ tokens[k].perm /\ tokens[k].state = "live"
    \/ \E r \in DOMAIN refresh : refresh[r].session = s
                                  /\ refresh[r].state \in {"active", "expired", "lapsed"}

\* The sessions the cut of request q was to end and that can still renew.
Renewing(q) == {s \in req[q].before : \E r \in Unrevoked(req[q].ident) \ req[q].hit : refresh[r].session = s}

\* A rotation in flight does not carry its session over a cut: the locking pass waits for
\* it and the UPDATE finds its successor.  Only a session that rotates twice within the
\* cut, by the successor the locking pass has not seen, renews again.
RotationIsCaught ==
  \A q \in Requests :
    req[q].pc = "commit" /\ req[q].op = "end" =>
      \A s \in Renewing(q) :
        Cardinality({r \in DOMAIN refresh : r > req[q].upto /\ refresh[r].session = s}) > 1

\* What end_sessions_in_tx says: no session that could renew when the cut began can renew
\* after it.
CutEndsRenewal ==
  \A q \in Requests :
    req[q].pc = "commit" /\ req[q].op = "end" => Renewing(q) = {}

\* What ADR 0109 says of an unbind: no token minted from the identity's sessions, directly
\* or through another, outlives it.
UnbindEndsMinted ==
  \A i \in ever \ bound : \A k \in DOMAIN tokens : tokens[k].root = i => tokens[k].state = "revoked"

=============================================================================
