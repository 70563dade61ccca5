------------------------------ MODULE MediaCache ------------------------------
(***************************************************************************)
(* The on-disk media cache (crates/axon-media/src/cache.rs): one download per   *)
(* key at a time, the byte-bounded LRU index, the purge of a deleted account and  *)
(* the rebuild of the index after a boot.                                      *)
(*                                                                         *)
(* A request is a future that its connection may drop at any await. A call of     *)
(* tokio::fs runs on the blocking pool: dropping the future that awaits it does   *)
(* not stop it, so it lands later, when the locks of its caller are released.     *)
(***************************************************************************)
EXTENDS Integers, Sequences, FiniteSets, SequencesExt, FiniteSetsExt

CONSTANTS
  Accounts, Keys,
  AccountOf,     \* the account of a key
  Size,          \* the bytes of a key's object: MXC content is immutable
  MaxBytes,      \* max_bytes
  Downloads,     \* max_concurrent_downloads
  Callers,       \* requests in progress at once
  Faults,        \* what may go wrong: "cancel", "io"
  MaxCrashes,    \* bound: deaths of the process
  Deletable,     \* accounts whose deletion is asked for
  FromBoot       \* whether the instance starts at a boot with files on the disk

MediaCacheAssumption ==
  /\ AccountOf \in [Keys -> Accounts]
  /\ Size \in [Keys -> Nat \ {0}]
  /\ MaxBytes \in Nat /\ Downloads \in Nat \ {0}
  /\ Faults \subseteq {"cancel", "io"} /\ MaxCrashes \in Nat
  /\ Deletable \subseteq Accounts /\ FromBoot \in BOOLEAN

VARIABLES
  dirs, disk,    \* the account directories and the files in them
  lru, total,    \* Index: the keys of `order`, least recently used first, and total_bytes
  flight,        \* the slot of each key in the flight map, 0 when there is none
  caller,        \* the requests in progress
  detached,      \* calls of tokio::fs whose request was dropped and that have not run
  purged,        \* the tombstones
  purge,         \* purge_account, per account
  rows,          \* the account row
  scan,          \* the boot rebuild
  gc,            \* accounts the boot's orphan collection has still to look at
  orphans,       \* history: accounts that had no row when this process booted
  crashes

index == <<lru, total>>
files == <<dirs, disk>>
purging == <<purged, purge, rows, gc, orphans, crashes>>
vars == <<dirs, disk, lru, total, flight, caller, detached, purged, purge, rows, scan, gc, orphans,
          crashes>>

OnAwait == {"open", "wait", "permit", "fetch", "stage", "account", "mkdir", "rename", "unlink"}
Steps == OnAwait \cup {"idle", "touch", "join", "record", "release"}
Slots == 0..Cardinality(Callers)
PurgeSteps == {"idle", "lock", "index", "clear", "rmdir", "done"}

TypeOK ==
  /\ dirs \subseteq Accounts
  /\ disk \subseteq {k \in Keys : AccountOf[k] \in dirs}
  /\ IsInjective(lru) /\ ToSet(lru) \subseteq Keys /\ total \in Nat
  /\ flight \in [Keys -> Slots]
  /\ \A c \in Callers : /\ caller[c].pc \in Steps /\ caller[c].key \in Keys
                        /\ caller[c].slot \in Slots /\ ToSet(caller[c].victims) \subseteq Keys
  /\ detached \subseteq ({"mkdir", "rename", "unlink"} \X Keys)
  /\ purged \subseteq Accounts /\ purge \in [Accounts -> PurgeSteps]
  /\ rows \in [Accounts -> {"active", "deleting", "gone"}]
  /\ scan.pc \in {"list", "unlink", "done"} /\ scan.todo \cup scan.found \subseteq Keys
  /\ gc \subseteq Accounts /\ orphans \subseteq Accounts /\ crashes \in 0..MaxCrashes

Idle == [pc |-> "idle", key |-> CHOOSE k \in Keys : TRUE, slot |-> 0, victims |-> <<>>]
Scanned == [pc |-> "done", todo |-> {}, found |-> {}, victims |-> <<>>]
Rebuilding == [pc |-> "list", todo |-> Keys, found |-> {}, victims |-> <<>>]

Init ==
  /\ disk \in SUBSET (IF FromBoot THEN Keys ELSE {})
  /\ dirs = {AccountOf[k] : k \in disk}
  /\ lru = <<>> /\ total = 0
  /\ flight = [k \in Keys |-> 0]
  /\ caller = [c \in Callers |-> Idle]
  /\ detached = {} /\ purged = {} /\ purge = [a \in Accounts |-> "idle"]
  /\ rows = [a \in Accounts |-> "active"]
  /\ scan = IF FromBoot THEN Rebuilding ELSE Scanned
  /\ gc = {} /\ orphans = {} /\ crashes = 0

-----------------------------------------------------------------------------
(* The index *)

Bytes(S) == MapThenSumSet(LAMBDA k : Size[k], S)
KeysOf(a) == {k \in Keys : AccountOf[k] = a}

\* Index::record, record_if_absent and touch, as what they leave of the order.
Used(s, k) == Append(SelectSeq(s, LAMBDA j : j # k), k)
Untracked(s, k) == k \notin ToSet(s)

\* collect_evictions: how many of the oldest entries go until the total fits.
Evicted(s, bytes) ==
  CHOOSE n \in 0..Len(s) : /\ bytes - Bytes(ToSet(SubSeq(s, 1, n))) <= MaxBytes
                           /\ \A m \in 0..(n - 1) : bytes - Bytes(ToSet(SubSeq(s, 1, m))) > MaxBytes

\* The index becomes `s` holding `bytes`, evicted down to the cap: the victims are what the
\* caller must unlink once the index is unlocked.
VictimsOf(s, bytes) == SubSeq(s, 1, Evicted(s, bytes))
StoreIndex(s, bytes) ==
  /\ lru' = SubSeq(s, Evicted(s, bytes) + 1, Len(s))
  /\ total' = bytes - Bytes(ToSet(VictimsOf(s, bytes)))

-----------------------------------------------------------------------------
(* The filesystem *)

Mkdir(k) == dirs' = dirs \cup {AccountOf[k]} /\ UNCHANGED disk

\* A rename into a directory that is gone fails.
Rename(k) == disk' = (IF AccountOf[k] \in dirs THEN disk \cup {k} ELSE disk) /\ UNCHANGED dirs

Unlink(k) == disk' = disk \ {k} /\ UNCHANGED dirs

\* A call whose request was dropped lands.
Land ==
  \E d \in detached :
    /\ detached' = detached \ {d}
    /\ \/ d[1] = "mkdir" /\ Mkdir(d[2])
       \/ d[1] = "rename" /\ Rename(d[2])
       \/ d[1] = "unlink" /\ Unlink(d[2])
    /\ UNCHANGED <<index, flight, caller, purging, scan>>

-----------------------------------------------------------------------------
(* Requests: get_or_fetch_keyed *)

Under(c, k) == caller[c].slot # 0 /\ caller[c].key = k
InSlot(c) == caller[c].slot # 0 /\ caller[c].pc # "wait"
InAccount(c, a) == caller[c].pc \in {"mkdir", "rename", "record", "unlink"} /\ AccountOf[caller[c].key] = a

\* Nobody holds the account's lock, which is never recycled.
AccountFree(a) == purge[a] \notin {"index", "clear", "rmdir"} /\ \A d \in Callers : ~InAccount(d, a)

Goto(c, pc) == caller' = [caller EXCEPT ![c].pc = pc]

\* The request ends: its locks are released, and its reference to the slot is given up
\* before the flight map is looked at.
Left(c) == [caller[c] EXCEPT !.pc = IF caller[c].slot = 0 THEN "idle" ELSE "release",
                             !.slot = 0, !.victims = <<>>]
Leave(c) == caller' = [caller EXCEPT ![c] = IF Left(c).pc = "idle" THEN Idle ELSE Left(c)]

Begin(c) ==
  /\ caller[c].pc = "idle"
  /\ \E k \in Keys : /\ rows[AccountOf[k]] # "gone"
                     /\ caller' = [caller EXCEPT ![c] = [Idle EXCEPT !.pc = "open", !.key = k]]
  /\ UNCHANGED <<files, index, flight, detached, purging, scan>>

\* try_hit, the first time and again under the slot: the file is opened, and a miss goes on.
Open(c) ==
  /\ caller[c].pc = "open"
  /\ \/ caller[c].key \in disk /\ Goto(c, "touch")
     \/ caller[c].key \notin disk /\ Goto(c, IF caller[c].slot = 0 THEN "join" ELSE "permit")
  /\ UNCHANGED <<files, index, flight, detached, purging, scan>>

\* A hit moves an entry that is still there to the end, and never inserts one.
Touch(c) ==
  /\ caller[c].pc = "touch"
  /\ lru' = (IF Untracked(lru, caller[c].key) THEN lru ELSE Used(lru, caller[c].key))
  /\ Leave(c)
  /\ UNCHANGED <<files, total, flight, detached, purging, scan>>

\* FlightGuard::join: the slot of the map, or a fresh one.
Join(c) ==
  /\ caller[c].pc = "join"
  /\ LET k == caller[c].key
         fresh == CHOOSE n \in Slots \ {0} : \A d \in Callers : Under(d, k) => caller[d].slot # n
         slot == IF flight[k] = 0 THEN fresh ELSE flight[k]
     IN  /\ flight' = [flight EXCEPT ![k] = slot]
         /\ caller' = [caller EXCEPT ![c].pc = "wait", ![c].slot = slot]
  /\ UNCHANGED <<files, index, detached, purging, scan>>

LockSlot(c) ==
  /\ caller[c].pc = "wait"
  /\ \A d \in Callers : Under(d, caller[c].key) /\ caller[d].slot = caller[c].slot => ~InSlot(d)
  /\ Goto(c, "open")
  /\ UNCHANGED <<files, index, flight, detached, purging, scan>>

\* strong_count = 1: only the map refers to the slot.
Released(k) == \A d \in Callers : ~(Under(d, k) /\ caller[d].slot = flight[k])

ReleaseFlight(c) ==
  /\ caller[c].pc = "release"
  /\ LET k == caller[c].key
     IN  flight' = IF Released(k) THEN [flight EXCEPT ![k] = 0] ELSE flight
  /\ caller' = [caller EXCEPT ![c] = Idle]
  /\ UNCHANGED <<files, index, detached, purging, scan>>

\* fetch_capped: a permit, then the download, which fails, times out or is too large.
Permit(c) ==
  /\ caller[c].pc = "permit"
  /\ Cardinality({d \in Callers : caller[d].pc = "fetch"}) < Downloads
  /\ Goto(c, "fetch")
  /\ UNCHANGED <<files, index, flight, detached, purging, scan>>

Fetch(c) ==
  /\ caller[c].pc = "fetch"
  /\ Goto(c, "stage") \/ Leave(c)
  /\ UNCHANGED <<files, index, flight, detached, purging, scan>>

\* store_and_open. When the temporary area cannot be written the bytes are served from
\* elsewhere and not kept.
Stage(c) ==
  /\ caller[c].pc = "stage"
  /\ \/ Goto(c, "account")
     \/ "io" \in Faults /\ Leave(c)
  /\ UNCHANGED <<files, index, flight, detached, purging, scan>>

\* The account's lock is taken and the tombstone looked at.
Promote(c) ==
  /\ caller[c].pc = "account" /\ AccountFree(AccountOf[caller[c].key])
  /\ \/ AccountOf[caller[c].key] \in purged /\ Leave(c)
     \/ AccountOf[caller[c].key] \notin purged /\ Goto(c, "mkdir")
  /\ UNCHANGED <<files, index, flight, detached, purging, scan>>

MakeDir(c) ==
  /\ caller[c].pc = "mkdir"
  /\ \/ Mkdir(caller[c].key) /\ Goto(c, "rename")
     \/ "io" \in Faults /\ Leave(c) /\ UNCHANGED files
  /\ UNCHANGED <<index, flight, detached, purging, scan>>

MoveFile(c) ==
  /\ caller[c].pc = "rename"
  /\ \/ /\ AccountOf[caller[c].key] \in dirs
        /\ Rename(caller[c].key) /\ Goto(c, "record")
     \/ /\ "io" \in Faults \/ AccountOf[caller[c].key] \notin dirs
        /\ Leave(c) /\ UNCHANGED files
  /\ UNCHANGED <<index, flight, detached, purging, scan>>

Counted(k) == IF Untracked(lru, k) THEN total + Size[k] ELSE total

Record(c) ==
  /\ caller[c].pc = "record"
  /\ LET k == caller[c].key
     IN  /\ StoreIndex(Used(lru, k), Counted(k))
         /\ caller' = [caller EXCEPT ![c].pc = "unlink",
                                     ![c].victims = VictimsOf(Used(lru, k), Counted(k))]
  /\ UNCHANGED <<files, flight, detached, purging, scan>>

\* The victims are unlinked one by one, under the lock of this request's account only.
UnlinkVictim(c) ==
  /\ caller[c].pc = "unlink"
  /\ \/ /\ caller[c].victims = <<>>
        /\ Leave(c) /\ UNCHANGED files
     \/ /\ caller[c].victims # <<>>
        /\ \/ Unlink(Head(caller[c].victims))
           \/ "io" \in Faults /\ UNCHANGED files
        /\ caller' = [caller EXCEPT ![c].victims = Tail(@)]
  /\ UNCHANGED <<index, flight, detached, purging, scan>>

\* The connection closes and the request is dropped where it awaits.
Cancel(c) ==
  /\ "cancel" \in Faults /\ caller[c].pc \in OnAwait
  /\ detached' = detached \cup
       (CASE caller[c].pc \in {"mkdir", "rename"} -> {<<caller[c].pc, caller[c].key>>}
          [] caller[c].pc = "unlink" /\ caller[c].victims # <<>> -> {<<"unlink", Head(caller[c].victims)>>}
          [] OTHER -> {})
  /\ Leave(c)
  /\ UNCHANGED <<files, index, flight, purging, scan>>

-----------------------------------------------------------------------------
(* Purges *)

\* AccountLifecycle::delete asks for the purge, and again when a boot finds it interrupted.
Delete(a) ==
  /\ \/ rows[a] = "active" /\ a \in Deletable
     \/ rows[a] = "deleting" /\ purge[a] = "idle"
  /\ rows' = [rows EXCEPT ![a] = "deleting"]
  /\ purge' = [purge EXCEPT ![a] = "lock"]
  /\ UNCHANGED <<files, index, flight, caller, detached, purged, scan, gc, orphans, crashes>>

\* Mutant: the purge does not take the account's lock.
PurgeLock_Free(a) ==
  /\ purge[a] = "lock"
  /\ purged' = purged \cup {a}
  /\ purge' = [purge EXCEPT ![a] = "index"]
  /\ UNCHANGED <<files, index, flight, caller, detached, rows, scan, gc, orphans, crashes>>

PurgeLock(a) ==
  /\ purge[a] = "lock" /\ AccountFree(a)
  /\ purged' = purged \cup {a}
  /\ purge' = [purge EXCEPT ![a] = "index"]
  /\ UNCHANGED <<files, index, flight, caller, detached, rows, scan, gc, orphans, crashes>>

\* remove_account
PurgeIndex(a) ==
  /\ purge[a] = "index"
  /\ lru' = SelectSeq(lru, LAMBDA k : AccountOf[k] # a)
  /\ total' = total - Bytes(ToSet(lru) \cap KeysOf(a))
  /\ purge' = [purge EXCEPT ![a] = "clear"]
  /\ UNCHANGED <<files, flight, caller, detached, purged, rows, scan, gc, orphans, crashes>>

\* remove_dir_all empties the directory, then removes it, which fails when something
\* has appeared in it. A failure is only logged.
PurgeClear(a) ==
  /\ purge[a] = "clear"
  /\ disk' = disk \ KeysOf(a)
  /\ purge' = [purge EXCEPT ![a] = "rmdir"]
  /\ UNCHANGED <<dirs, index, flight, caller, detached, purged, rows, scan, gc, orphans, crashes>>

PurgeRmdir(a) ==
  /\ purge[a] = "rmdir"
  /\ \/ disk \cap KeysOf(a) = {} /\ dirs' = dirs \ {a}
     \/ ("io" \in Faults \/ disk \cap KeysOf(a) # {}) /\ UNCHANGED dirs
  /\ purge' = [purge EXCEPT ![a] = "done"]
  /\ UNCHANGED <<disk, index, flight, caller, detached, purged, rows, scan, gc, orphans, crashes>>

DeleteRow(a) ==
  /\ purge[a] = "done" /\ rows[a] = "deleting"
  /\ rows' = [rows EXCEPT ![a] = "gone"]
  /\ UNCHANGED <<files, index, flight, caller, detached, purged, purge, scan, gc, orphans, crashes>>

\* purge_orphans: a directory without a row is purged.
Orphan(a) == a \in dirs /\ rows[a] = "gone"

CollectOrphan(a) ==
  /\ a \in gc
  /\ gc' = gc \ {a}
  /\ purge' = IF Orphan(a) THEN [purge EXCEPT ![a] = "lock"] ELSE purge
  /\ UNCHANGED <<files, index, flight, caller, detached, purged, rows, scan, orphans, crashes>>

-----------------------------------------------------------------------------
(* Boots *)

\* The directories are listed while the cache serves.
ScanFile ==
  /\ scan.pc = "list"
  /\ \E k \in scan.todo :
       scan' = [scan EXCEPT !.todo = @ \ {k}, !.found = IF k \in disk THEN @ \cup {k} ELSE @]
  /\ UNCHANGED <<files, index, flight, caller, detached, purging>>

\* What was found, and is not tracked yet, enters the index in the order of the files'
\* times, whatever has become of it since.
Merge ==
  /\ scan.pc = "list" /\ scan.todo = {}
  /\ \E s \in SetToSeqs({k \in scan.found : Untracked(lru, k)}) :
       /\ StoreIndex(lru \o s, total + Bytes(ToSet(s)))
       /\ scan' = [Scanned EXCEPT !.pc = "unlink", !.victims = VictimsOf(lru \o s, total + Bytes(ToSet(s)))]
  /\ UNCHANGED <<files, flight, caller, detached, purging>>

ScanUnlink ==
  /\ scan.pc = "unlink"
  /\ \/ scan.victims = <<>> /\ scan' = Scanned /\ UNCHANGED files
     \/ /\ scan.victims # <<>>
        /\ \/ Unlink(Head(scan.victims))
           \/ "io" \in Faults /\ UNCHANGED files
        /\ scan' = [scan EXCEPT !.victims = Tail(@)]
  /\ UNCHANGED <<index, flight, caller, detached, purging>>

\* The process dies: only the files and the rows are left, and the next one boots.
Crash ==
  /\ crashes < MaxCrashes /\ crashes' = crashes + 1
  /\ lru' = <<>> /\ total' = 0
  /\ flight' = [k \in Keys |-> 0]
  /\ caller' = [c \in Callers |-> Idle]
  /\ detached' = {} /\ purged' = {} /\ purge' = [a \in Accounts |-> "idle"]
  /\ scan' = Rebuilding
  /\ gc' = Accounts
  /\ orphans' = {a \in Accounts : rows[a] = "gone"}
  /\ UNCHANGED <<files, rows>>

-----------------------------------------------------------------------------
Request(c) ==
  \/ Begin(c) \/ Open(c) \/ Touch(c) \/ Join(c) \/ LockSlot(c) \/ Permit(c) \/ Fetch(c)
  \/ Stage(c) \/ Promote(c) \/ MakeDir(c) \/ MoveFile(c) \/ Record(c) \/ UnlinkVictim(c)
  \/ ReleaseFlight(c)

Purge(a) == PurgeLock(a) \/ PurgeIndex(a) \/ PurgeClear(a) \/ PurgeRmdir(a) \/ DeleteRow(a)
Rebuild == ScanFile \/ Merge \/ ScanUnlink

Next ==
  \/ \E c \in Callers : Request(c) \/ Cancel(c)
  \/ \E a \in Accounts : Delete(a) \/ Purge(a) \/ CollectOrphan(a)
  \/ Rebuild \/ Land \/ Crash

Spec == Init /\ [][Next]_vars

Serve(c) == caller[c].pc # "idle" /\ Request(c)
Resume(a) == rows[a] = "deleting" /\ Delete(a)

\* A future that can go on is polled, the locks are fair queues and the fetch has a
\* timeout. Nothing says that a request is made, that an account is deleted or that the
\* process dies.
Fairness ==
  /\ \A c \in Callers : SF_vars(Serve(c))
  /\ \A a \in Accounts : /\ SF_vars(Purge(a)) /\ WF_vars(CollectOrphan(a))
                         /\ WF_vars(Resume(a))
  /\ WF_vars(Rebuild)

FairSpec == Spec /\ Fairness

-----------------------------------------------------------------------------
(* Properties *)

Downloading == {"permit", "fetch", "stage", "account", "mkdir", "rename", "record", "unlink"}

\* Two requests never download or store the same object at once, whoever is cancelled in
\* the queue behind them (get_or_fetch_keyed, release_flight).
SingleFlight ==
  \A c, d \in Callers :
    /\ caller[c].pc \in Downloading /\ caller[d].pc \in Downloading
    /\ caller[c].key = caller[d].key
    => c = d

\* The flight map keeps no entry that nobody uses: a slot has a request under it, or one
\* that is about to look whether it was the last (FlightGuard::drop, release_flight).
SlotsAreUsed ==
  \A k \in Keys : flight[k] # 0 =>
    \E c \in Callers : caller[c].key = k /\ (caller[c].slot = flight[k] \/ caller[c].pc = "release")

\* Once an account's purge has run, no request that was in flight, eviction or rebuild
\* brings its directory back (the account_locks and purged fields).
PurgedStaysGone == \A a \in Accounts : purge[a] = "done" => a \notin dirs

\* A purged account has no entry in the running index (purge_account, Index::touch).
PurgedIsNotCounted == \A a \in Accounts : purge[a] = "done" => ToSet(lru) \cap KeysOf(a) = {}

\* Between requests, and once the boot's rebuild has ended, the files fit in the cap.
CapHolds ==
  /\ \A c \in Callers : caller[c].pc \notin {"record", "unlink"}
  /\ scan.pc = "done" /\ detached = {}
  => Bytes(disk) <= MaxBytes

\* total_bytes is what the entries add up to, so that it never goes below zero.
TotalIsExact == total = Bytes(ToSet(lru))

\* Between requests an entry of the index has its file (try_hit: an entry for a file that
\* is about to vanish would be counted for good).
CountedIsOnDisk ==
  /\ \A c \in Callers : caller[c].pc \notin {"record", "unlink"}
  /\ scan.pc = "done" /\ detached = {} /\ \A a \in Accounts : purge[a] \in {"idle", "done"}
  => ToSet(lru) \subseteq disk

\* An account without a row at a boot has no directory once that boot's collection has
\* passed over it, whatever the process before left behind.
OrphansAreSwept ==
  \A a \in orphans \ gc : purge[a] \in {"idle", "done"} => a \notin dirs

\* A request that was made ends: it waits for a slot, a permit and a lock that their
\* holders release.
Answered == \A c \in Callers : []<>(caller[c].pc = "idle")

DeletionEnded(a) == rows[a] = "active" \/ (rows[a] = "gone" /\ a \notin dirs)

\* A deletion that was begun removes the directory and the row, through crashes.
DeletionEnds == \A a \in Accounts : []<>DeletionEnded(a)
=============================================================================
