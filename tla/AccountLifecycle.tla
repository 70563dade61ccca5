-------------------------- MODULE AccountLifecycle --------------------------
(***************************************************************************)
(* The account verbs of one Matrix identity (axon-sync/src/lifecycle.rs)   *)
(* with what they share state with: the connection slot of the client      *)
(* manager, the supervised task and its workers, the verification watcher, *)
(* the API sends that connect lazily, the SDK store directory and its      *)
(* staging backup, and the boot that resumes interrupted deletions.        *)
(*                                                                         *)
(* Identities share nothing but maps keyed by them, so the model has one.  *)
(* A device is a number, and so is its SDK store, its client and its       *)
(* persisted session: 0 is none.                                           *)
(***************************************************************************)
EXTENDS Naturals, FiniteSets

CONSTANTS
  Reqs,          \* API requests that run a verb
  Boot,          \* the boot, when it resumes a deletion
  Senders,       \* API sends that name an account
  Verbs,         \* the verbs the requests run
  NoOne,         \* the owner of a free lock
  MaxIds,        \* account ids ever minted for the identity
  MaxDevs,       \* devices ever logged in
  MaxTasks,      \* supervised tasks alive at once
  MaxGens,       \* lock objects ever created for the identity
  MaxFaults,     \* store or file-system errors
  MaxDrops,      \* requests dropped by their connection
  MaxCrashes,    \* process crashes
  MaxTimeouts,   \* drain timeouts that fire
  MaxFails       \* failed supervised runs

BoundsAreNaturals ==
  /\ {MaxIds, MaxDevs, MaxTasks, MaxGens} \subseteq Nat \ {0}
  /\ {MaxFaults, MaxDrops, MaxCrashes, MaxTimeouts, MaxFails} \subseteq Nat
  /\ Verbs \subseteq {"login", "logout", "delete", "recover"}

Ids   == 1..MaxIds
Devs  == 1..MaxDevs
Tasks == 1..MaxTasks
Gens  == 1..MaxGens
Procs == Reqs \cup {Boot}
Holders == Procs \cup Senders \cup ({"task", "watch"} \X Tasks)

VARIABLES
  row,       \* accounts.state of an id, "none" when there is no row
  sess,      \* the device of the persisted session
  verified,  \* accounts.verified
  minted,    \* ids minted so far
  store,     \* the device whose SDK store is at data_dir/<id>
  prev,      \* the store in the staging backup data_dir/<id>.prev
  devs,      \* devices logged in so far
  signed,    \* devices cross-signed by their owner, at the homeserver
  slot,      \* the cached client of an id
  slotLock,  \* the holder of the slot's lock
  cur,       \* the identity's entry in the lock map, 0 when absent
  gens,      \* lock objects created so far
  owner,     \* the holder of each lock object
  reg,       \* the task registry
  task,      \* the supervised tasks
  req,       \* the verbs in flight
  send,      \* the sends in flight
  up,        \* the API serves
  tried,     \* the deletions this boot has resumed
  faults, drops, crashes, timeouts, fails

db    == <<row, sess, verified, minted>>
disk  == <<store, prev>>
world == <<devs, signed>>
slots == <<slot, slotLock>>
locks == <<cur, gens, owner>>
sync  == <<reg, task>>
boot  == <<up, tried>>
count == <<faults, drops, crashes, timeouts, fails>>
vars  == <<db, disk, world, slots, locks, sync, req, send, boot, count>>

IdleReq == [verb |-> "none", pc |-> "idle", id |-> 0, gen |-> 0, tk |-> 0]
FreeTask == [id |-> 0, pc |-> "free", cancelled |-> FALSE, work |-> FALSE,
             watch |-> "idle", gen |-> 0, dev |-> 0]

\* An identity that is logged in and supervised, before its task connects.
Init ==
  /\ row = [a \in Ids |-> IF a = 1 THEN "active" ELSE "none"]
  /\ sess = [a \in Ids |-> IF a = 1 THEN 1 ELSE 0]
  /\ verified = [a \in Ids |-> FALSE]
  /\ minted = 1
  /\ store = sess
  /\ prev = [a \in Ids |-> 0]
  /\ devs = 1
  /\ signed = {}
  /\ slot = [a \in Ids |-> 0]
  /\ slotLock = [a \in Ids |-> NoOne]
  /\ cur = 0
  /\ gens = 0
  /\ owner = [g \in Gens |-> NoOne]
  /\ reg = [a \in Ids |-> IF a = 1 THEN 1 ELSE 0]
  /\ task = [t \in Tasks |-> IF t = 1
                               THEN [FreeTask EXCEPT !.id = 1, !.pc = "connect"]
                               ELSE FreeTask]
  /\ req = [p \in Procs |-> IdleReq]
  /\ send = [s \in Senders |-> [pc |-> "idle", id |-> 0]]
  /\ up = TRUE
  /\ tried = {}
  /\ faults = 0 /\ drops = 0 /\ crashes = 0 /\ timeouts = 0 /\ fails = 0

-----------------------------------------------------------------------------
(* The lock map and the registry.                                          *)

\* lock_for: the identity's lock, created when the map has none.
LockGen == IF cur = 0 THEN gens + 1 ELSE cur
lock_for ==
  /\ LockGen \in Gens
  /\ cur' = LockGen
  /\ gens' = IF cur = 0 THEN gens + 1 ELSE gens

\* The strong references to a lock object: its map entry, the handle of a
\* delete and the guard it owns, the handle or guard of any other verb, of a
\* failed supervisor, and the handle of a run's watcher.
StrongCount(g) ==
  (IF cur = g THEN 1 ELSE 0)
    + Cardinality({p \in Procs : req[p].gen = g})
    + Cardinality({p \in Procs : req[p].gen = g /\ req[p].verb = "delete"})
    + Cardinality({t \in Tasks : task[t].gen = g})

RunOf(t) == {"task", "watch"} \X {t}
\* What the end of a supervised future, or of a request, releases.
Released(holders, who) ==
  [x \in DOMAIN holders |-> IF holders[x] \in who THEN NoOne ELSE holders[x]]

\* No task, or one that has ended and that nobody refers to.
Reusable(t) ==
  \/ task[t].pc = "free"
  \/ /\ task[t].pc = "ended" /\ ~task[t].work
     /\ \A a \in Ids : reg[a] # t
     /\ \A p \in Procs : req[p].tk # t

\* spawn_supervised: register a task, cancelling a stale one.
spawn_supervised(a, t) ==
  /\ Reusable(t)
  /\ reg' = [reg EXCEPT ![a] = t]
  /\ task' = [u \in Tasks |->
               CASE u = t -> [FreeTask EXCEPT !.id = a, !.pc = "connect"]
                 [] u # t /\ reg[a] = u -> [task[u] EXCEPT !.cancelled = TRUE]
                 [] OTHER -> task[u]]

Goto(p, pc) == req' = [req EXCEPT ![p].pc = pc]

\* A verb returns: its guards and handles are dropped.
Return(p) ==
  /\ req' = [req EXCEPT ![p] = IdleReq]
  /\ owner' = Released(owner, {p})
  /\ slotLock' = Released(slotLock, {p})

-----------------------------------------------------------------------------
(* Entering a verb.                                                        *)

\* login and import_token name the identity, and wait for its lock.
LoginStart(p) ==
  /\ up /\ p \in Reqs /\ req[p].pc = "idle" /\ "login" \in Verbs
  /\ devs < MaxDevs
  /\ lock_for
  /\ req' = [req EXCEPT ![p] = [IdleReq EXCEPT !.verb = "login", !.pc = "lock",
                                               !.gen = LockGen]]
  /\ UNCHANGED <<db, disk, world, slots, owner, sync, send, boot, count>>

\* logout, delete and recover name an account: no row is a 404 without a lock.
VerbStart(p, verb, a) ==
  /\ up /\ p \in Reqs /\ req[p].pc = "idle" /\ verb \in Verbs \ {"login"}
  /\ row[a] # "none"
  /\ lock_for
  /\ req' = [req EXCEPT ![p] = [IdleReq EXCEPT !.verb = verb, !.pc = "lock",
                                               !.id = a, !.gen = LockGen]]
  /\ UNCHANGED <<db, disk, world, slots, owner, sync, send, boot, count>>

\* A verb gets the lock it waits for; it reads the row under it.
Waiting(p, verb) ==
  req[p].pc = "lock" /\ req[p].verb = verb /\ owner[req[p].gen] = NoOne
Enters(p) == owner' = [owner EXCEPT ![req[p].gen] = p]
\* A verb that stops at what it reads leaves as it came.
Leaves(p) ==
  /\ req' = [req EXCEPT ![p] = IdleReq]
  /\ UNCHANGED <<db, disk, world, slots, locks, sync, send, boot, count>>

-----------------------------------------------------------------------------
(* login and import_token.                                                 *)

Rows == {a \in Ids : row[a] # "none"}

\* resolve_login_target refuses or answers: active is a no-op, deleting and a
\* deactivated row with a registered task are conflicts.
LoginStops(p) ==
  /\ Waiting(p, "login")
  /\ \E a \in Rows : row[a] # "deactivated" \/ reg[a] # 0
  /\ Leaves(p)

LoginRetained(p) ==
  /\ Waiting(p, "login")
  /\ \E a \in Rows :
       /\ row[a] = "deactivated" /\ reg[a] = 0
       /\ req' = [req EXCEPT ![p].pc = "stage", ![p].id = a]
  /\ Enters(p)
  /\ UNCHANGED <<db, disk, world, slots, cur, gens, sync, send, boot, count>>

\* Discovery, or the check of the MXID's domain, fails: nothing is touched.
LoginUndiscovered(p) ==
  /\ Waiting(p, "login")
  /\ \A a \in Rows : row[a] = "deactivated" /\ reg[a] = 0
  /\ Leaves(p)

\* mint_deactivated_account inserts the row, active by default ...
LoginMint(p) ==
  /\ Waiting(p, "login")
  /\ Rows = {} /\ minted < MaxIds
  /\ minted' = minted + 1
  /\ row' = [row EXCEPT ![minted + 1] = "active"]
  /\ req' = [req EXCEPT ![p].pc = "deactivate", ![p].id = minted + 1]
  /\ Enters(p)
  /\ UNCHANGED <<sess, verified, disk, world, slots, cur, gens, sync, send,
                 boot, count>>

\* ... and deactivates it with a second statement.
LoginDeactivate(p) ==
  /\ req[p].pc = "deactivate"
  /\ row' = [row EXCEPT ![req[p].id] = "deactivated"]
  /\ Goto(p, "stage")
  /\ UNCHANGED <<sess, verified, minted, disk, world, slots, locks, sync, send,
                 boot, count>>

\* ClientManager::login takes the slot and empties it; with_staged_store_dir
\* moves the current store aside, a surviving backup outranking it, and opens
\* an empty one.
LoginStage(p) == LET a == req[p].id IN
  /\ req[p].pc = "stage"
  /\ slotLock[a] = NoOne
  /\ slotLock' = [slotLock EXCEPT ![a] = p]
  /\ slot' = [slot EXCEPT ![a] = 0]
  /\ prev' = [prev EXCEPT ![a] = IF prev[a] # 0 THEN prev[a] ELSE store[a]]
  /\ store' = [store EXCEPT ![a] = devs + 1]
  /\ Goto(p, "auth")
  /\ UNCHANGED <<db, world, locks, sync, send, boot, count>>

\* The homeserver creates the device and its session is persisted.
LoginAuth(p) == LET a == req[p].id IN
  /\ req[p].pc = "auth"
  /\ devs < MaxDevs
  /\ devs' = devs + 1
  /\ sess' = [sess EXCEPT ![a] = devs + 1]
  /\ Goto(p, "commit")
  /\ UNCHANGED <<row, verified, minted, disk, signed, slots, locks, sync, send,
                 boot, count>>

\* A removal or a rename whose error is ignored.
Ignored ==
  /\ faults < MaxFaults /\ faults' = faults + 1
  /\ UNCHANGED <<drops, crashes, timeouts, fails>>

\* The homeserver refuses, or the session is not persisted: the partial store
\* is discarded and the backup moved back, as far as the file system lets it.
LoginRefused(p) == LET a == req[p].id IN
  /\ req[p].pc = "auth"
  /\ \/ /\ store' = [store EXCEPT ![a] = prev[a]]
        /\ prev' = [prev EXCEPT ![a] = 0]
        /\ UNCHANGED count
     \/ /\ Ignored
        /\ store' \in {store, [store EXCEPT ![a] = 0]}
        /\ UNCHANGED prev
  /\ Return(p)
  /\ UNCHANGED <<db, world, slot, cur, gens, sync, send, boot>>

\* The backup is dropped if it can be, the client cached and the slot released.
LoginCommit(p) == LET a == req[p].id IN
  /\ req[p].pc = "commit"
  /\ \/ prev' = [prev EXCEPT ![a] = 0] /\ UNCHANGED count
     \/ Ignored /\ UNCHANGED prev
  /\ slot' = [slot EXCEPT ![a] = sess[a]]
  /\ slotLock' = [slotLock EXCEPT ![a] = NoOne]
  /\ Goto(p, "activate")
  /\ UNCHANGED <<db, store, world, locks, sync, send, boot>>

\* activate: the row becomes active and is read back ...
LoginActivate(p) ==
  /\ req[p].pc = "activate"
  /\ row' = [row EXCEPT ![req[p].id] = "active"]
  /\ Goto(p, "supervise")
  /\ UNCHANGED <<sess, verified, minted, disk, world, slots, locks, sync, send,
                 boot, count>>

\* ... and its task is spawned.
LoginSupervise(p) ==
  /\ req[p].pc = "supervise"
  /\ \E t \in Tasks : spawn_supervised(req[p].id, t)
  /\ Return(p)
  /\ UNCHANGED <<db, disk, world, slot, cur, gens, send, boot, count>>

\* activate_and_supervise evicts the cached client of a failed activation.
LoginEvict(p) == LET a == req[p].id IN
  /\ req[p].pc = "evict"
  /\ slotLock[a] = NoOne
  /\ slot' = [slot EXCEPT ![a] = 0]
  /\ Return(p)
  /\ UNCHANGED <<db, disk, world, cur, gens, sync, send, boot, count>>

-----------------------------------------------------------------------------
(* logout and delete.                                                      *)

\* The row read under the lock is gone (404), or is being deleted (409).
LogoutStops(p) ==
  /\ Waiting(p, "logout")
  /\ row[req[p].id] \in {"none", "deleting"}
  /\ Leaves(p)

\* logout deactivates first, so that no new client can be connected.
LogoutFlip(p) == LET a == req[p].id IN
  /\ Waiting(p, "logout")
  /\ row[a] \in {"active", "deactivated"}
  /\ row' = [row EXCEPT ![a] = "deactivated"]
  /\ Goto(p, "clear")
  /\ Enters(p)
  /\ UNCHANGED <<sess, verified, minted, disk, world, slots, cur, gens, sync,
                 send, boot, count>>

LogoutClear(p) ==
  /\ req[p].pc = "clear"
  /\ verified' = [verified EXCEPT ![req[p].id] = FALSE]
  /\ Goto(p, "reap")
  /\ UNCHANGED <<row, sess, minted, disk, world, slots, locks, sync, send,
                 boot, count>>

DeleteStops(p) ==
  /\ Waiting(p, "delete")
  /\ row[req[p].id] = "none"
  /\ Leaves(p)

DeleteFlip(p) == LET a == req[p].id IN
  /\ Waiting(p, "delete")
  /\ row[a] # "none"
  /\ row' = [row EXCEPT ![a] = "deleting"]
  /\ Goto(p, "reap")
  /\ Enters(p)
  /\ UNCHANGED <<sess, verified, minted, disk, world, slots, cur, gens, sync,
                 send, boot, count>>

\* reap_task takes the task out of the registry and cancels it ...
Reap(p) == LET a == req[p].id
               t == reg[a] IN
  /\ req[p].pc = "reap"
  /\ reg' = [reg EXCEPT ![a] = 0]
  /\ IF t = 0
       THEN Goto(p, "take") /\ UNCHANGED task
       ELSE /\ task' = [task EXCEPT ![t].cancelled = TRUE]
            /\ req' = [req EXCEPT ![p].pc = "drain", ![p].tk = t]
  /\ UNCHANGED <<db, disk, world, slots, locks, send, boot, count>>

\* ... awaits its end ...
Drained(p) == LET t == req[p].tk IN
  /\ req[p].pc = "drain"
  /\ task[t].pc = "ended"
  /\ task' = [task EXCEPT ![t] = IF @.work THEN @ ELSE FreeTask]
  /\ req' = [req EXCEPT ![p].pc = "take", ![p].tk = 0]
  /\ UNCHANGED <<db, disk, world, slots, locks, reg, send, boot, count>>

\* ... aborts it when it does not come: the future is dropped at its next
\* await and the tasks it spawned are not ...
DrainAbort(p) == LET t == req[p].tk IN
  /\ req[p].pc = "drain" /\ timeouts < MaxTimeouts
  /\ task[t].pc # "ended"
  /\ timeouts' = timeouts + 1
  /\ owner' = Released(owner, {<<"task", t>>})
  /\ slotLock' = Released(slotLock, {<<"task", t>>})
  /\ task' = [task EXCEPT ![t].pc = "ended"]
  /\ UNCHANGED <<db, disk, world, slot, cur, gens, reg, req, send, boot, faults,
                 drops, crashes, fails>>

\* ... and registers again a task that survives the abort: Draining.
DrainWedged(p) == LET t == req[p].tk IN
  /\ req[p].pc = "drain" /\ timeouts < MaxTimeouts
  /\ task[t].pc # "ended"
  /\ timeouts' = timeouts + 1
  /\ reg' = [reg EXCEPT ![req[p].id] = t]
  /\ Return(p)
  /\ UNCHANGED <<db, disk, world, slot, cur, gens, task, send, boot, faults,
                 drops, crashes, fails>>

\* sever_session takes the cached client and logs it out upstream.
Take(p) == LET a == req[p].id IN
  /\ req[p].pc = "take"
  /\ slotLock[a] = NoOne
  /\ slot' = [slot EXCEPT ![a] = 0]
  /\ IF req[p].verb = "delete"
       THEN Goto(p, "dirs") /\ UNCHANGED <<owner, slotLock>>
       ELSE Return(p)
  /\ UNCHANGED <<db, disk, world, cur, gens, sync, send, boot, count>>

\* remove_account_store_dirs, then the media purge (module MediaCache).
DeleteDirs(p) == LET a == req[p].id IN
  /\ req[p].pc = "dirs"
  /\ store' = [store EXCEPT ![a] = 0]
  /\ prev' = [prev EXCEPT ![a] = 0]
  /\ Goto(p, "row")
  /\ UNCHANGED <<db, world, slots, locks, sync, send, boot, count>>

\* delete_account_row, the last of the durable steps.
DeleteRow(p) == LET a == req[p].id IN
  /\ req[p].pc = "row"
  /\ row' = [row EXCEPT ![a] = "none"]
  /\ sess' = [sess EXCEPT ![a] = 0]
  /\ verified' = [verified EXCEPT ![a] = FALSE]
  /\ Goto(p, "prune")
  /\ UNCHANGED <<minted, disk, world, slots, locks, sync, send, boot, count>>

\* prune_lock, while the guard is still held, and the return of the delete.
prune_lock(p) ==
  /\ req[p].pc = "prune"
  /\ cur' = IF cur = req[p].gen /\ StrongCount(req[p].gen) = 2 THEN 0 ELSE cur
  /\ Return(p)
  /\ UNCHANGED <<db, disk, world, slot, gens, sync, send, boot, count>>

-----------------------------------------------------------------------------
(* recover: the keys make the device verified, under the identity lock.    *)

RecoverStops(p) ==
  /\ Waiting(p, "recover")
  /\ row[req[p].id] # "active"
  /\ Leaves(p)

RecoverEnter(p) ==
  /\ Waiting(p, "recover")
  /\ row[req[p].id] = "active"
  /\ Goto(p, "client")
  /\ Enters(p)
  /\ UNCHANGED <<db, disk, world, slots, cur, gens, sync, send, boot, count>>

\* get_or_connect under the identity lock: the cached client, or a new one.
RecoverClient(p) == LET a == req[p].id IN
  /\ req[p].pc = "client"
  /\ slotLock[a] = NoOne
  /\ slot[a] # 0 \/ sess[a] # 0
  /\ slot' = [slot EXCEPT ![a] = IF @ # 0 THEN @ ELSE sess[a]]
  /\ store' = [store EXCEPT ![a] = IF slot[a] = 0 /\ @ = 0 THEN sess[a] ELSE @]
  /\ Goto(p, "import")
  /\ UNCHANGED <<db, prev, world, slotLock, locks, sync, send, boot, count>>

RecoverImport(p) ==
  /\ req[p].pc = "import"
  /\ signed' = signed \cup {sess[req[p].id]}
  /\ Goto(p, "persist")
  /\ UNCHANGED <<db, disk, devs, slots, locks, sync, send, boot, count>>

RecoverPersist(p) ==
  /\ req[p].pc = "persist"
  /\ verified' = [verified EXCEPT ![req[p].id] = TRUE]
  /\ Return(p)
  /\ UNCHANGED <<row, sess, minted, disk, world, slot, cur, gens, sync, send,
                 boot, count>>

\* The connect or the import fails.
RecoverFails(p) ==
  /\ req[p].pc \in {"client", "import"}
  /\ Return(p)
  /\ UNCHANGED <<db, disk, world, slot, cur, gens, sync, send, boot, count>>

-----------------------------------------------------------------------------
(* What interrupts a verb.                                                 *)

\* A statement or a removal fails. A failed activation evicts the client; any
\* other failure returns, and leaves what is done as it is.
Fault(p) ==
  /\ faults < MaxFaults
  /\ req[p].pc \in {"deactivate", "activate", "supervise", "clear", "dirs",
                    "row", "persist"}
  /\ faults' = faults + 1
  /\ IF req[p].pc \in {"activate", "supervise"}
       THEN Goto(p, "evict") /\ UNCHANGED <<owner, slotLock>>
       ELSE Return(p)
  /\ UNCHANGED <<db, disk, world, slot, cur, gens, sync, send, boot, drops,
                 crashes, timeouts, fails>>

\* The connection of a request ends: its handler is dropped where it awaits.
Drop(p) ==
  /\ p \in Reqs /\ drops < MaxDrops
  /\ req[p].pc # "idle"
  /\ drops' = drops + 1
  /\ Return(p)
  /\ UNCHANGED <<db, disk, world, slot, cur, gens, sync, send, boot, faults,
                 crashes, timeouts, fails>>

-----------------------------------------------------------------------------
(* get_or_connect, for the sends and for the supervised runs.              *)

SendStart(s, a) ==
  /\ up /\ send[s].pc = "idle" /\ a <= minted
  /\ send' = [send EXCEPT ![s] = [pc |-> "slot", id |-> a]]
  /\ UNCHANGED <<db, disk, world, slots, locks, sync, req, boot, count>>

\* A cached client is returned as it is; no row and a row that is not active
\* are refused.
Served(a) == slotLock[a] = NoOne /\ slot[a] # 0
Refused(a) == slotLock[a] = NoOne /\ slot[a] = 0 /\ row[a] # "active"
\* Mutant: the row's state is not consulted.
ConnectsAnyState(a, who) ==
  /\ slotLock[a] = NoOne /\ slot[a] = 0 /\ row[a] # "none"
  /\ slotLock' = [slotLock EXCEPT ![a] = who]


Connects(a, who) ==
  /\ slotLock[a] = NoOne /\ slot[a] = 0 /\ row[a] = "active"
  /\ slotLock' = [slotLock EXCEPT ![a] = who]
\* connect_account creates the directory, restores the session and caches.
Connected(a, who) ==
  /\ slotLock[a] = who
  /\ sess[a] # 0
  /\ store' = [store EXCEPT ![a] = IF @ = 0 THEN sess[a] ELSE @]
  /\ slot' = [slot EXCEPT ![a] = sess[a]]
  /\ slotLock' = [slotLock EXCEPT ![a] = NoOne]

SendAnswered(s) ==
  /\ send[s].pc = "slot"
  /\ Served(send[s].id) \/ Refused(send[s].id)
  /\ send' = [send EXCEPT ![s] = [pc |-> "idle", id |-> 0]]
  /\ UNCHANGED <<db, disk, world, slots, locks, sync, req, boot, count>>

SendConnect(s) ==
  /\ send[s].pc = "slot"
  /\ Connects(send[s].id, s)
  /\ send' = [send EXCEPT ![s].pc = "connect"]
  /\ UNCHANGED <<db, disk, world, slot, locks, sync, req, boot, count>>

SendConnected(s) ==
  /\ send[s].pc = "connect"
  /\ \/ Connected(send[s].id, s)
     \/ slotLock' = Released(slotLock, {s}) /\ UNCHANGED <<slot, store>>
  /\ send' = [send EXCEPT ![s] = [pc |-> "idle", id |-> 0]]
  /\ UNCHANGED <<db, prev, world, locks, sync, req, boot, count>>

-----------------------------------------------------------------------------
(* The supervised task.                                                    *)

InTask(t, pc) == task[t].pc = pc
TaskTo(t, pc) == task' = [task EXCEPT ![t].pc = pc]

\* The run has its client: it starts its workers, the watcher among them with
\* the identity's lock, and a failed run starts again.
Runs(t) ==
  /\ lock_for
  /\ task' = [task EXCEPT ![t].pc = "run", ![t].work = TRUE,
                          ![t].gen = LockGen, ![t].dev = slot'[task[t].id]]

\* Not running: the supervisor waits for the identity's lock to evict.
FailsWithout(t) ==
  /\ lock_for
  /\ task' = [task EXCEPT ![t].pc = "failing", ![t].gen = LockGen]

TaskConnect(t) == LET a == task[t].id IN
  /\ InTask(t, "connect")
  /\ \/ Served(a) /\ UNCHANGED slots /\ Runs(t)
     \/ Refused(a) /\ FailsWithout(t) /\ UNCHANGED slots
     \/ /\ Connects(a, <<"task", t>>)
        /\ TaskTo(t, "connecting")
        /\ UNCHANGED <<slot, cur, gens>>
  /\ UNCHANGED <<db, disk, world, owner, reg, req, send, boot, count>>

TaskConnected(t) ==
  /\ InTask(t, "connecting")
  /\ \/ Connected(task[t].id, <<"task", t>>) /\ Runs(t) /\ UNCHANGED fails
     \/ /\ \/ sess[task[t].id] = 0 /\ UNCHANGED fails
           \/ fails < MaxFails /\ fails' = fails + 1
        /\ FailsWithout(t)
        /\ slotLock' = Released(slotLock, {<<"task", t>>})
        /\ UNCHANGED <<slot, store>>
  /\ UNCHANGED <<db, prev, world, owner, reg, req, send, boot, faults, drops,
                 crashes, timeouts>>

\* The run sees its cancellation, or the sync service fails.
TaskStops(t) ==
  /\ InTask(t, "run")
  /\ \/ task[t].cancelled /\ TaskTo(t, "stopping") /\ UNCHANGED fails
     \/ /\ fails < MaxFails /\ fails' = fails + 1
        /\ TaskTo(t, "stopping-failed")
  /\ UNCHANGED <<db, disk, world, slots, locks, reg, req, send, boot, faults,
                 drops, crashes, timeouts>>

Stopping(t) ==
  task[t].cancelled \/ task[t].pc \in {"stopping", "stopping-failed"}

\* The workers end: they are cancelled by then, and the watcher gives up its
\* wait for the lock. Workers of an aborted run end on their own.
WorkEnds(t) ==
  /\ task[t].work /\ Stopping(t)
  /\ task[t].watch # "hold"
  /\ task' = [task EXCEPT ![t] =
               [@ EXCEPT !.work = FALSE, !.watch = "idle"]]
  /\ UNCHANGED <<db, disk, world, slots, locks, reg, req, send, boot, count>>

\* run_account joins its workers; a clean stop ends the task, a failure goes
\* on to evict the client.
TaskJoined(t) ==
  /\ task[t].pc \in {"stopping", "stopping-failed"} /\ ~task[t].work
  /\ IF InTask(t, "stopping")
       THEN /\ task' = [task EXCEPT ![t].pc = "ended", ![t].gen = 0]
            /\ UNCHANGED <<cur, gens>>
       ELSE FailsWithout(t)
  /\ UNCHANGED <<db, disk, world, slots, owner, reg, req, send, boot, count>>

\* A cancelled supervisor gives up its waits.
TaskGivesUp(t) ==
  /\ task[t].pc \in {"failing", "evict", "backoff"} /\ task[t].cancelled
  /\ task' = [task EXCEPT ![t].pc = "ended", ![t].gen = 0]
  /\ owner' = Released(owner, {<<"task", t>>})
  /\ UNCHANGED <<db, disk, world, slots, cur, gens, reg, req, send, boot, count>>

TaskLocks(t) ==
  /\ InTask(t, "failing")
  /\ owner[task[t].gen] = NoOne
  /\ owner' = [owner EXCEPT ![task[t].gen] = <<"task", t>>]
  /\ TaskTo(t, "evict")
  /\ UNCHANGED <<db, disk, world, slots, cur, gens, reg, req, send, boot, count>>

TaskEvicts(t) == LET a == task[t].id IN
  /\ InTask(t, "evict")
  /\ slotLock[a] = NoOne
  /\ slot' = [slot EXCEPT ![a] = 0]
  /\ owner' = Released(owner, {<<"task", t>>})
  /\ task' = [task EXCEPT ![t].pc = "backoff", ![t].gen = 0, ![t].dev = 0]
  /\ UNCHANGED <<db, disk, world, slotLock, cur, gens, reg, req, send, boot,
                 count>>

TaskRestarts(t) ==
  /\ InTask(t, "backoff") /\ ~task[t].cancelled
  /\ TaskTo(t, "connect")
  /\ UNCHANGED <<db, disk, world, slots, locks, reg, req, send, boot, count>>

\* The verification watcher sees a change, and derives and persists `verified`
\* under the identity's lock.
WatchSees(t) ==
  /\ InTask(t, "run") /\ task[t].work /\ task[t].watch = "idle"
  /\ ~Stopping(t)
  /\ task' = [task EXCEPT ![t].watch = "wait"]
  /\ UNCHANGED <<db, disk, world, slots, locks, reg, req, send, boot, count>>

WatchLocks(t) ==
  /\ task[t].watch = "wait" /\ ~Stopping(t)
  /\ owner[task[t].gen] = NoOne
  /\ owner' = [owner EXCEPT ![task[t].gen] = <<"watch", t>>]
  /\ task' = [task EXCEPT ![t].watch = "hold"]
  /\ UNCHANGED <<db, disk, world, slots, cur, gens, reg, req, send, boot, count>>

WatchPersists(t) == LET a == task[t].id IN
  /\ task[t].watch = "hold"
  /\ verified' = [verified EXCEPT ![a] = row[a] # "none" /\ task[t].dev \in signed]
  /\ owner' = Released(owner, {<<"watch", t>>})
  /\ task' = [task EXCEPT ![t].watch = "idle"]
  /\ UNCHANGED <<row, sess, minted, disk, world, slots, cur, gens, reg, req,
                 send, boot, count>>

-----------------------------------------------------------------------------
(* Crash and boot.                                                         *)

Crash ==
  /\ crashes < MaxCrashes
  /\ crashes' = crashes + 1
  /\ up' = FALSE /\ tried' = {}
  /\ slot' = [a \in Ids |-> 0]
  /\ slotLock' = [a \in Ids |-> NoOne]
  /\ cur' = 0 /\ gens' = 0
  /\ owner' = [g \in Gens |-> NoOne]
  /\ reg' = [a \in Ids |-> 0]
  /\ task' = [t \in Tasks |-> FreeTask]
  /\ req' = [p \in Procs |-> IdleReq]
  /\ send' = [s \in Senders |-> [pc |-> "idle", id |-> 0]]
  /\ UNCHANGED <<db, disk, world, faults, drops, timeouts, fails>>

\* reconcile_deleting drives each row left in `deleting` through delete, once.
reconcile_deleting(a) ==
  /\ ~up /\ req[Boot].pc = "idle"
  /\ row[a] = "deleting" /\ a \notin tried
  /\ tried' = tried \cup {a}
  /\ lock_for
  /\ req' = [req EXCEPT ![Boot] = [IdleReq EXCEPT !.verb = "delete",
                                     !.pc = "lock", !.id = a, !.gen = LockGen]]
  /\ UNCHANGED <<db, disk, world, slots, owner, sync, send, up, count>>

\* prune_orphan_store_dirs, then a task for every active row; the API serves
\* only after this.
BootServe ==
  /\ ~up /\ req[Boot].pc = "idle"
  /\ \A a \in Ids : row[a] = "deleting" => a \in tried
  /\ store' = [a \in Ids |-> IF row[a] = "none" THEN 0 ELSE store[a]]
  /\ prev' = [a \in Ids |-> IF row[a] = "none" THEN 0 ELSE prev[a]]
  /\ IF \E a \in Ids : row[a] = "active"
       THEN \E a \in Ids, t \in Tasks :
              row[a] = "active" /\ spawn_supervised(a, t)
       ELSE UNCHANGED sync
  /\ up' = TRUE /\ tried' = {}
  /\ UNCHANGED <<db, world, slots, locks, req, send, count>>

-----------------------------------------------------------------------------
LoginNext(p) ==
  \/ LoginStart(p) \/ LoginStops(p) \/ LoginRetained(p) \/ LoginMint(p)
  \/ LoginUndiscovered(p) \/ LoginDeactivate(p) \/ LoginStage(p) \/ LoginAuth(p) \/ LoginRefused(p)
  \/ LoginCommit(p) \/ LoginActivate(p) \/ LoginSupervise(p) \/ LoginEvict(p)

SeverNext(p) ==
  \/ Reap(p) \/ Drained(p) \/ DrainAbort(p) \/ DrainWedged(p) \/ Take(p)

LogoutNext(p) == LogoutStops(p) \/ LogoutFlip(p) \/ LogoutClear(p)

DeleteNext(p) ==
  \/ DeleteStops(p) \/ DeleteFlip(p) \/ DeleteDirs(p) \/ DeleteRow(p)
  \/ prune_lock(p)

RecoverNext(p) ==
  \/ RecoverStops(p) \/ RecoverEnter(p) \/ RecoverClient(p)
  \/ RecoverImport(p) \/ RecoverPersist(p) \/ RecoverFails(p)

VerbNext(p) ==
  \/ \E verb \in Verbs, a \in Ids : VerbStart(p, verb, a)
  \/ LoginNext(p) \/ SeverNext(p) \/ LogoutNext(p) \/ DeleteNext(p)
  \/ RecoverNext(p) \/ Fault(p) \/ Drop(p)

SendNext(s) ==
  \/ \E a \in Ids : SendStart(s, a)
  \/ SendAnswered(s) \/ SendConnect(s) \/ SendConnected(s)

SuperviseNext(t) ==
  \/ TaskConnect(t) \/ TaskConnected(t) \/ TaskStops(t) \/ WorkEnds(t)
  \/ TaskJoined(t) \/ TaskGivesUp(t) \/ TaskLocks(t) \/ TaskEvicts(t)
  \/ TaskRestarts(t)

WatchNext(t) == WatchSees(t) \/ WatchLocks(t) \/ WatchPersists(t)

BootNext == BootServe \/ \E a \in Ids : reconcile_deleting(a)

Next ==
  \/ \E p \in Procs : VerbNext(p)
  \/ \E s \in Senders : SendNext(s)
  \/ \E t \in Tasks : SuperviseNext(t) \/ WatchNext(t)
  \/ Crash \/ BootNext

Spec == Init /\ [][Next]_vars

-----------------------------------------------------------------------------
(* Fairness. Every future is polled and every call ends; tokio's mutexes   *)
(* are first-come first-served, hence strong fairness for what waits on    *)
(* one. Nothing is assumed of the requests, faults, drops and timeouts.    *)

VerbProgress(p) ==
  \/ LoginUndiscovered(p) \/ LoginStops(p) \/ LoginRetained(p) \/ LoginMint(p) \/ LoginDeactivate(p)
  \/ LoginStage(p) \/ LoginAuth(p) \/ LoginRefused(p) \/ LoginCommit(p)
  \/ LoginActivate(p) \/ LoginSupervise(p) \/ LoginEvict(p)
  \/ Reap(p) \/ Drained(p) \/ Take(p)
  \/ LogoutNext(p) \/ DeleteNext(p) \/ RecoverNext(p)

TaskProgress(t) ==
  \/ TaskConnect(t) \/ TaskConnected(t) \/ (task[t].cancelled /\ TaskStops(t))
  \/ WorkEnds(t) \/ TaskJoined(t) \/ TaskGivesUp(t) \/ TaskLocks(t) \/ TaskEvicts(t)

Fairness ==
  /\ \A p \in Procs : SF_vars(VerbProgress(p))
  /\ \A s \in Senders : WF_vars(SendConnected(s))
  /\ \A t \in Tasks : SF_vars(TaskProgress(t)) /\ WF_vars(WatchPersists(t))
  /\ WF_vars(BootNext)

FairSpec == Spec /\ Fairness

-----------------------------------------------------------------------------
(* Properties.                                                             *)

VerbPcs ==
  {"idle", "lock", "deactivate", "stage", "auth", "commit", "activate",
   "supervise", "evict", "clear", "reap", "drain", "take", "dirs", "row",
   "prune", "client", "import", "persist"}

\* The variables keep their types.
TypeOK ==
  /\ row \in [Ids -> {"none", "active", "deactivated", "deleting"}]
  /\ {sess, slot} \subseteq [Ids -> 0..MaxDevs]
  /\ {store, prev} \subseteq [Ids -> 0..(MaxDevs + 1)]
  /\ verified \in [Ids -> BOOLEAN]
  /\ minted \in Ids /\ devs \in Devs /\ signed \subseteq Devs
  /\ slotLock \in [Ids -> Holders \cup {NoOne}]
  /\ cur \in 0..MaxGens /\ gens \in 0..MaxGens
  /\ owner \in [Gens -> Holders \cup {NoOne}]
  /\ reg \in [Ids -> 0..MaxTasks]
  /\ task \in [Tasks ->
       [id : 0..MaxIds, cancelled : BOOLEAN, work : BOOLEAN,
        pc : {"free", "connect", "connecting", "run", "stopping",
              "stopping-failed", "failing", "evict", "backoff", "ended"},
        watch : {"idle", "wait", "hold"}, gen : 0..MaxGens, dev : 0..MaxDevs]]
  /\ req \in [Procs -> [verb : Verbs \cup {"none", "delete"}, pc : VerbPcs,
                        id : 0..MaxIds, gen : 0..MaxGens, tk : 0..MaxTasks]]
  /\ send \in [Senders -> [pc : {"idle", "slot", "connect"}, id : 0..MaxIds]]
  /\ up \in BOOLEAN /\ tried \subseteq Ids
  /\ <<faults, drops, crashes, timeouts, fails>> \in
       (0..MaxFaults) \X (0..MaxDrops) \X (0..MaxCrashes)
         \X (0..MaxTimeouts) \X (0..MaxFails)

Inside(p) == req[p].pc \notin {"idle", "lock"}

\* Who is in a section that the identity's lock is to serialise: the verbs
\* past their wait, an evicting supervisor, a persisting watcher.
InSection ==
  {p \in Procs : Inside(p)}
    \cup {<<"task", t>> : t \in {u \in Tasks : task[u].pc = "evict"}}
    \cup {<<"watch", t>> : t \in {u \in Tasks : task[u].watch = "hold"}}

\* The verbs, the supervisor's eviction and the watcher's write of one identity
\* never overlap, across deletions that prune the lock's entry in the map while
\* others wait for it.
OneAtATime == Cardinality(InSection) <= 1

Alive(t) == task[t].pc \notin {"free", "ended"} \/ task[t].work

\* "on Ok the caller may treat the account's SDK store dir as quiescent": a
\* login that has restaged the directory and a delete that has removed it never
\* do so under a supervised task, or a worker of one, of that account.
StoreIsQuiescent ==
  \A p \in Procs, t \in Tasks :
    req[p].pc \in {"auth", "commit", "row"} /\ task[t].id = req[p].id
      => ~Alive(t)

\* Flip before take: once no verb is inside, an account that is not active and
\* has no task left to drain has no client in its slot, and none that a send
\* which read the row before the flip is still connecting.
NoClientBehindTheGate ==
  (\A p \in Procs : ~Inside(p))
    => \A a \in Ids : row[a] # "active" /\ reg[a] = 0
                        => slot[a] = 0 /\ slotLock[a] = NoOne

\* An active account is supervised: outside a verb its registered task lives.
\* It is what lets a login of an active row answer without doing anything.
ActiveIsSupervised ==
  (up /\ \A p \in Procs : ~Inside(p))
    => \A a \in Ids :
         row[a] = "active" =>
           /\ reg[a] # 0
           /\ task[reg[a]].pc \notin {"free", "ended"}
           /\ ~task[reg[a]].cancelled

\* An active account that is served has a session to restore.
ActiveHasSession ==
  (up /\ \A p \in Procs : ~Inside(p))
    => \A a \in Ids : row[a] = "active" => sess[a] # 0

\* `verified` is never a stale TRUE: it is of the device whose session the row
\* holds. A login makes a fresh device, which nobody has signed yet.
VerifiedIsOfThisDevice == \A a \in Ids : verified[a] => sess[a] \in signed

\* Outside a verb a deactivated row reads FALSE: neither a watcher that waited
\* for the lock of the logout nor a recover that did writes after it.
DeactivatedIsUnverified ==
  (\A p \in Procs : ~Inside(p))
    => \A a \in Ids : row[a] = "deactivated" => ~verified[a]

\* A row is removed last: an account without one has no SDK store, no backup of
\* one, no session and no client, whatever failed or crashed on the way and
\* whichever send was connecting.
GoneIsClean ==
  \A a \in Ids : row[a] = "none" =>
    store[a] = 0 /\ prev[a] = 0 /\ sess[a] = 0 /\ slot[a] = 0

\* The store of an active account is the one of the device its session names,
\* whatever logins were interrupted or refused before: a backup that outranks the
\* store at the path is never what a session is restored with. (A deactivated
\* account may have a session whose store is lost: the login after an
\* interrupted one discards it.)
SessionHasStore ==
  \A a \in Ids : row[a] = "active" /\ sess[a] # 0 => store[a] = sess[a]

\* The identity is retired with its account: without a row and without a verb
\* the lock map has no entry for it.
RetiredIsPruned ==
  (Rows = {} /\ \A p \in Procs : req[p].pc = "idle") => cur = 0

\* Every verb returns, with no help from the drain timeout: the watcher and the
\* supervisor that wait for the lock of the verb that drains them give way.
VerbEnds == \A p \in Procs : []<>(req[p].pc = "idle")

\* The same as a state predicate: while a verb is at work it is never so that
\* the verbs, the tasks they drain, the watchers, the sends and the boot all wait
\* for one another.
VerbsGoOn ==
  (\E p \in Procs : req[p].pc # "idle")
    => ENABLED (\/ \E p \in Procs : VerbProgress(p)
                \/ \E s \in Senders : SendConnected(s)
                \/ \E t \in Tasks : TaskProgress(t) \/ WatchPersists(t)
                \/ BootNext)

\* A deletion that a crash interrupts is finished by the boot that follows: when
\* the API serves, an account that is being deleted has a verb that deletes it.
DeletionResumes ==
  up => \A a \in Ids : row[a] = "deleting" =>
          \E p \in Procs : req[p].pc # "idle" /\ req[p].verb = "delete" /\ req[p].id = a
=============================================================================
