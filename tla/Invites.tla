------------------------------ MODULE Invites -------------------------------
(***************************************************************************)
(* Pending invites: the watcher that copies the SDK's invited rooms to      *)
(* room_invites (axon-sync/src/engine.rs over axon-store/src/invites.rs),   *)
(* the accepts and rejects that change the table beside it                  *)
(* (axon-api/src/routes/membership.rs, axon-sync/src/gateway.rs) and the    *)
(* set of rooms the homeserver has disowned (axon-sync/src/manager.rs).     *)
(*                                                                          *)
(* The homeserver and the SDK's rooms are external. Each invite has a       *)
(* number, gen, that the program does not see, and a display snapshot, ver. *)
(***************************************************************************)
EXTENDS Naturals, FiniteSets

CONSTANTS
  Rooms,
  Calls,        \* accepts and rejects under way at the same time
  Vers,         \* display snapshots
  MaxInvites,   \* invites to a room
  MaxChanges,   \* withdrawals, purges and evictions
  MaxCalls,
  MaxFaults,
  MaxRestarts,
  Concurrency,  \* INVITES_SWEEP_CONCURRENCY (8)
  Returns       \* whether a purged room can come back with an invite

InvitesAssumption ==
  /\ {MaxInvites, MaxChanges, MaxCalls, MaxFaults, MaxRestarts} \subseteq Nat
  /\ Concurrency \in Nat \ {0}
  /\ 0 \notin Vers
  /\ Returns \in BOOLEAN

VARIABLES
  hs,       \* per room, the homeserver's membership
  news,     \* rooms whose membership the next responses deliver
  mem,      \* per room, what get_room answers
  disk,     \* per room, the SDK's state store
  upd,      \* rooms with an update in the broadcast channel
  row,      \* room_invites
  told,     \* rooms in the clients' inboxes, from the frames
  dead,     \* DeadRooms
  call,     \* per call, its accept or reject
  cache,    \* InvitesCache
  watch,    \* where the watcher is, and the rooms it has left to look at
  cap,      \* per room, its capture
  changes, calls, faults, restarts,
  rejected, \* per room, the last invite a reject has dropped
  crossed   \* rooms whose last change was stored before the frame of the change
            \* before it was out, or whose last frame was never sent

sdkVars == <<hs, news, mem, disk, changes>>
callVars == <<call, calls, dead, rejected>>
watchVars == <<cache, watch, cap>>
outVars == <<row, told, crossed>>
vars == <<sdkVars, upd, outVars, callVars, watchVars, faults, restarts>>

Absent == [st |-> "none", gen |-> 0, ver |-> 0]
NoRow == [gen |-> 0, ver |-> 0]
Off == [pc |-> "off", gen |-> 0, ver |-> 0]
Idle == [pc |-> "idle"]
Unseeded == [seeded |-> FALSE, rows |-> [r \in Rooms |-> 0]]
Starting == [pc |-> "seed", todo |-> {}]

Init ==
  /\ hs = [r \in Rooms |-> [st |-> "out", gen |-> 0, ver |-> 0]]
  /\ news = {} /\ upd = {}
  /\ mem = [r \in Rooms |-> Absent] /\ disk = mem
  /\ row = [r \in Rooms |-> NoRow]
  /\ told = {} /\ dead = {}
  /\ call = [c \in Calls |-> Idle]
  /\ cache = Unseeded
  /\ watch = Starting
  /\ cap = [r \in Rooms |-> Off]
  /\ changes = 0 /\ calls = 0 /\ faults = 0 /\ restarts = 0
  /\ rejected = [r \in Rooms |-> 0]
  /\ crossed = {}

Fault == faults < MaxFaults /\ faults' = faults + 1
NoFault == UNCHANGED faults
At(pc) == watch.pc = pc

-----------------------------------------------------------------------------
(* The homeserver and the SDK. *)

Quiet == UNCHANGED <<outVars, callVars, watchVars, faults, restarts>>
Bounded == changes < MaxChanges /\ changes' = changes + 1
Heard(r) == upd' = IF At("seed") THEN upd ELSE upd \cup {r}

Invite(r, v) ==
  /\ hs[r].gen < MaxInvites
  /\ hs[r].st = "out" \/ (Returns /\ hs[r].st = "gone")
  /\ hs' = [hs EXCEPT ![r] = [st |-> "invited", gen |-> @.gen + 1, ver |-> v]]
  /\ news' = news \cup {r}
  /\ Quiet /\ UNCHANGED <<mem, disk, upd, changes>>

Withdraw(r) ==
  /\ Bounded /\ hs[r].st = "invited"
  /\ hs' = [hs EXCEPT ![r].st = "out"]
  /\ news' = news \cup {r}
  /\ Quiet /\ UNCHANGED <<mem, disk, upd>>

Rename(r, v) ==
  /\ Bounded /\ hs[r].st = "invited" /\ v # hs[r].ver
  /\ hs' = [hs EXCEPT ![r].ver = v]
  /\ news' = news \cup {r}
  /\ Quiet /\ UNCHANGED <<mem, disk, upd>>

\* Sync never mentions a purged room again.
Purge(r) ==
  /\ Bounded /\ hs[r].st = "invited"
  /\ hs' = [hs EXCEPT ![r].st = "gone"]
  /\ news' = news \ {r}
  /\ Quiet /\ UNCHANGED <<mem, disk, upd>>

Sync(r) ==
  /\ r \in news
  /\ news' = news \ {r}
  /\ mem' = [mem EXCEPT ![r] = IF hs[r].st = "out" THEN [hs[r] EXCEPT !.st = "left"]
                               ELSE hs[r]]
  /\ disk' = [disk EXCEPT ![r] = mem'[r]]
  /\ Heard(r)
  /\ Quiet /\ UNCHANGED <<hs, changes>>

\* Sliding sync drops an invited room from memory; handles to it stay invited.
Evict(r) ==
  /\ Bounded /\ mem[r].st = "invited"
  /\ mem' = [mem EXCEPT ![r].st = "none"]
  /\ Quiet /\ UNCHANGED <<hs, news, disk, upd>>

\* After a start the rooms are loaded from the state store.
Hydrate(r) ==
  /\ restarts > 0 /\ mem[r] = Absent /\ disk[r] # Absent
  /\ mem' = [mem EXCEPT ![r] = disk[r]]
  /\ Quiet /\ UNCHANGED <<hs, news, disk, upd, changes>>

-----------------------------------------------------------------------------
(* Accepts and rejects. *)

InMemory(r) == mem[r].st # "none"

Begin(c, r) ==
  /\ call[c] = Idle /\ calls < MaxCalls /\ r \in told
  /\ calls' = calls + 1

\* SdkGateway::leave: with a Room or without, the homeserver's answer.
Outcome(r) ==
  CASE hs[r].st \in {"invited", "joined"} -> "left"
    [] hs[r].st = "gone" -> "gone"
    [] hs[r].st = "out" -> IF InMemory(r) THEN "left" ELSE "unconfirmed"

Leave(c, r) ==
  /\ Begin(c, r)
  /\ \/ /\ NoFault
        /\ call' = [call EXCEPT ![c] = [pc |-> "answered", room |-> r, gen |-> hs[r].gen,
                                        outcome |-> Outcome(r), local |-> InMemory(r)]]
        /\ hs' = IF Outcome(r) = "left" THEN [hs EXCEPT ![r].st = "out"] ELSE hs
     \/ /\ Fault       \* an error, before or after the homeserver has left the room
        /\ hs[r].st # "gone"
        /\ hs' \in {hs, [hs EXCEPT ![r].st = "out"]}
        /\ UNCHANGED call
  /\ news' \in IF hs' # hs THEN {news, news \cup {r}} ELSE {news}
  /\ UNCHANGED <<mem, disk, changes, upd, outVars, dead, rejected, watchVars, restarts>>

\* Both are told: the set that stops the watcher, and the state store. The second
\* may fail.
NoteRoomGone(r) ==
  /\ dead' = dead \cup {r}
  /\ \/ NoFault /\ disk' = [disk EXCEPT ![r] = Absent]
     \/ Fault /\ UNCHANGED disk
  /\ UNCHANGED <<mem, upd>>

\* Room::leave forgets the room once the homeserver has accepted.
Forgotten(c, r) ==
  /\ \/ call[c].local /\ mem' = [mem EXCEPT ![r] = Absent]
                      /\ disk' = [disk EXCEPT ![r] = Absent] /\ Heard(r)
     \/ ~call[c].local /\ UNCHANGED <<mem, disk, upd>>
  /\ NoFault /\ UNCHANGED dead

Left(c) ==
  /\ call[c].pc = "answered"
  /\ LET r == call[c].room
     IN CASE call[c].outcome = "left" -> Forgotten(c, r)
          [] call[c].outcome = "gone" -> NoteRoomGone(r)
          [] call[c].outcome = "unconfirmed" -> NoFault /\ UNCHANGED <<mem, disk, upd, dead>>
  /\ call' = [call EXCEPT ![c].pc = "delete"]
  /\ UNCHANGED <<hs, news, changes, outVars, calls, rejected, watchVars, restarts>>

Listed(r) == row[r] # NoRow

\* A change of the row is stored and its frame is still to be sent.
Unsent(r) ==
  \/ cap[r].pc \in {"announce", "removed"}
  \/ \E c \in Calls : call[c] # Idle /\ call[c].room = r /\ call[c].pc = "removed"

\* A statement that changes the row of r.
Commit(r, value) ==
  /\ row' = [row EXCEPT ![r] = value]
  /\ crossed' = IF Unsent(r) THEN crossed \cup {r} ELSE crossed \ {r}

DeleteRow(r) == IF Listed(r) THEN Commit(r, NoRow) ELSE UNCHANGED <<row, crossed>>

Confirmed(outcome) == outcome \in {"left", "gone"}

\* The rest of leave_room: drop the row on evidence. A call that has dropped none
\* answers 200.
LeaveRoom(c) ==
  /\ call[c].pc = "delete"
  /\ LET r == call[c].room
     IN \/ /\ Confirmed(call[c].outcome) /\ NoFault
           /\ DeleteRow(r)
           /\ call' = [call EXCEPT ![c] = IF Listed(r) THEN [@ EXCEPT !.pc = "removed"]
                                          ELSE Idle]
           /\ rejected' = [rejected EXCEPT ![r] = call[c].gen]
        \/ /\ IF Confirmed(call[c].outcome) THEN Fault ELSE NoFault
           /\ call' = [call EXCEPT ![c] = Idle]
           /\ UNCHANGED <<row, crossed, rejected>>
  /\ UNCHANGED <<sdkVars, upd, told, calls, dead, watchVars, restarts>>

\* After the statement's await: InviteRemoved.
LeaveRoomSends(c) ==
  /\ call[c].pc = "removed"
  /\ told' = told \ {call[c].room}
  /\ call' = [call EXCEPT ![c] = Idle]
  /\ NoFault
  /\ UNCHANGED <<sdkVars, upd, row, crossed, calls, dead, rejected, watchVars, restarts>>

\* The connection closes and the handler is dropped at its await.
CallDropped(c) ==
  /\ call[c] # Idle /\ Fault
  /\ call' = [call EXCEPT ![c] = Idle]
  /\ crossed' = IF call[c].pc = "removed" THEN crossed \cup {call[c].room} ELSE crossed
  /\ UNCHANGED <<sdkVars, upd, row, told, calls, dead, rejected, watchVars, restarts>>

\* SdkGateway::join, and the SDK's room on success.
Join(c, r) ==
  /\ Begin(c, r)
  /\ CASE hs[r].st = "invited" ->
            /\ hs' = [hs EXCEPT ![r].st = "joined"]
            /\ mem' = [mem EXCEPT ![r] = hs'[r]]
            /\ disk' = [disk EXCEPT ![r] = hs'[r]]
            /\ Heard(r) /\ NoFault /\ UNCHANGED dead
       [] hs[r].st = "gone" -> NoteRoomGone(r) /\ UNCHANGED hs
       [] OTHER -> NoFault /\ UNCHANGED <<hs, mem, disk, upd, dead>>
  /\ UNCHANGED <<news, changes, outVars, call, rejected, watchVars, restarts>>

-----------------------------------------------------------------------------
(* The watcher. *)

Rest == UNCHANGED <<sdkVars, callVars, restarts>>

RowVers == [r \in Rooms |-> row[r].ver]

Seed ==
  /\ At("seed")
  /\ \/ NoFault /\ cache' = [seeded |-> TRUE, rows |-> RowVers]
     \/ Fault /\ UNCHANGED cache
  /\ watch' = [watch EXCEPT !.pc = "reread"]
  /\ upd' = {}
  /\ Rest /\ UNCHANGED <<outVars, cap>>

Reread(read) == IF read THEN [seeded |-> TRUE, rows |-> RowVers] ELSE cache

\* The start of sweep_invites: the table is read again.
BeginSweep ==
  /\ At("reread")
  /\ \E read \in BOOLEAN :
       /\ IF read THEN NoFault ELSE Fault
       /\ cache' = Reread(read)
  /\ watch' = [pc |-> "known", todo |-> {r \in Rooms : cache'.rows[r] # 0}]
  /\ Rest /\ UNCHANGED <<upd, outVars, cap>>

\* drop_invite_if_known, up to its delete.
Known(r) == ~cache.seeded \/ cache.rows[r] # 0
Dropping(r) == IF Known(r) THEN [Off EXCEPT !.pc = "drop"] ELSE Off

Drop(r) ==
  /\ cap[r].pc = "drop"
  /\ \/ /\ NoFault /\ DeleteRow(r)
        /\ cap' = [cap EXCEPT ![r].pc = IF Listed(r) THEN "removed" ELSE "missing"]
     \/ /\ Fault /\ UNCHANGED <<row, crossed>>
        /\ cap' = [cap EXCEPT ![r] = Off]
  /\ Rest /\ UNCHANGED <<upd, told, cache, watch>>

\* A room that is not in memory is no evidence.
NoLongerInvited(r) == mem[r].st \in {"joined", "left"}

Free == \A r \in Rooms : cap[r] = Off

DropKnown(r) ==
  /\ At("known") /\ r \in watch.todo /\ Free
  /\ watch' = [watch EXCEPT !.todo = @ \ {r}]
  /\ cap' = [cap EXCEPT ![r] = IF NoLongerInvited(r) THEN Dropping(r) ELSE Off]
  /\ NoFault /\ Rest /\ UNCHANGED <<upd, outVars, cache>>

DeadRooms == dead

BeginDead ==
  /\ At("known") /\ watch.todo = {} /\ Free
  /\ watch' = [pc |-> "dead", todo |-> DeadRooms]
  /\ NoFault /\ Rest /\ UNCHANGED <<upd, outVars, cache, cap>>

DropDead(r) ==
  /\ At("dead") /\ r \in watch.todo /\ Free
  /\ watch' = [watch EXCEPT !.todo = @ \ {r}]
  /\ cap' = [cap EXCEPT ![r] = Dropping(r)]
  /\ NoFault /\ Rest /\ UNCHANGED <<upd, outVars, cache>>

BeginCaptures ==
  /\ At("dead") /\ watch.todo = {} /\ Free
  /\ watch' = [pc |-> "sweep", todo |-> {r \in Rooms : mem[r].st = "invited"}]
  /\ NoFault /\ Rest /\ UNCHANGED <<upd, outVars, cache, cap>>

\* The state of a handle to the room that was got when it was invited.
SeenInvited(r) == mem[r].st = "invited" \/ (mem[r].st = "none" /\ mem[r].gen > 0)

\* capture_invite up to its first await.
Looked(r) ==
  IF ~SeenInvited(r) \/ r \in dead THEN Dropping(r)
  ELSE [Off EXCEPT !.pc = "details"]

Sweep(r) ==
  /\ At("sweep") /\ r \in watch.todo /\ cap[r] = Off
  /\ Cardinality({x \in Rooms : cap[x] # Off}) < Concurrency
  /\ watch' = [watch EXCEPT !.todo = @ \ {r}]
  /\ cap' = [cap EXCEPT ![r] = Looked(r)]
  /\ NoFault /\ Rest /\ UNCHANGED <<upd, outVars, cache>>

HeardUpdate(r) ==
  /\ At("idle") /\ r \in upd
  /\ upd' = upd \ {r}
  /\ \/ /\ InMemory(r)
        /\ watch' = [pc |-> "sweep", todo |-> {}]
        /\ cap' = [cap EXCEPT ![r] = Looked(r)]
     \/ ~InMemory(r) /\ UNCHANGED <<watch, cap>>
  /\ NoFault /\ Rest /\ UNCHANGED <<outVars, cache>>

Lagged ==
  /\ At("idle") /\ upd # {} /\ Fault
  /\ upd' = {}
  /\ Rest /\ UNCHANGED <<outVars, watchVars>>

\* The details are read, which fails when the room is not invited any more; a
\* snapshot the table is known to hold is not written.
Details(r) ==
  /\ cap[r].pc = "details"
  /\ \/ /\ SeenInvited(r) /\ NoFault
        /\ cap' = [cap EXCEPT ![r] =
             IF cache.seeded /\ cache.rows[r] = mem[r].ver THEN Off
             ELSE [pc |-> "write", gen |-> mem[r].gen, ver |-> mem[r].ver]]
     \/ /\ IF SeenInvited(r) THEN Fault ELSE NoFault
        /\ cap' = [cap EXCEPT ![r] = Off]
  /\ Rest /\ UNCHANGED <<upd, outVars, cache, watch>>

Write(r) ==
  /\ cap[r].pc = "write"
  /\ \/ /\ NoFault
        /\ Commit(r, [gen |-> cap[r].gen, ver |-> cap[r].ver])
        /\ cap' = [cap EXCEPT ![r].pc = "announce"]
     \/ /\ Fault /\ UNCHANGED <<row, crossed>>
        /\ cap' = [cap EXCEPT ![r] = Off]
  /\ Rest /\ UNCHANGED <<upd, told, cache, watch>>

\* After the await of an upsert or a delete: the cache, and InviteAdded, or
\* InviteRemoved when there was a row.
Announce(r) ==
  /\ cap[r].pc \in {"announce", "removed", "missing"}
  /\ cache' = [cache EXCEPT !.rows[r] = IF cap[r].pc = "announce" THEN cap[r].ver ELSE 0]
  /\ told' = CASE cap[r].pc = "announce" -> told \cup {r}
               [] cap[r].pc = "removed" -> told \ {r}
               [] cap[r].pc = "missing" -> told
  /\ cap' = [cap EXCEPT ![r] = Off]
  /\ NoFault /\ Rest /\ UNCHANGED <<upd, row, crossed, watch>>

SweepDone ==
  /\ At("sweep") /\ watch.todo = {} /\ Free
  /\ watch' = [watch EXCEPT !.pc = "idle"]
  /\ NoFault /\ Rest /\ UNCHANGED <<upd, outVars, cache, cap>>

Tick ==
  /\ At("idle")
  /\ watch' = [watch EXCEPT !.pc = "reread"]
  /\ NoFault /\ Rest /\ UNCHANGED <<upd, outVars, cache, cap>>

\* The process is killed, or the account's client is evicted with its run; the
\* clients load their inboxes again.
Restart ==
  /\ restarts < MaxRestarts /\ ~At("seed")
  /\ restarts' = restarts + 1
  /\ mem' = [r \in Rooms |-> Absent]
  /\ dead' = {} /\ upd' = {}
  /\ told' = {r \in Rooms : Listed(r)} /\ crossed' = {}
  /\ call' = [c \in Calls |-> Idle]
  /\ cache' = Unseeded /\ watch' = Starting
  /\ cap' = [r \in Rooms |-> Off]
  /\ UNCHANGED <<hs, news, disk, row, changes, calls, rejected, faults>>

-----------------------------------------------------------------------------
RoomSteps(r) ==
  \/ DropKnown(r) \/ DropDead(r) \/ Drop(r) \/ Sweep(r) \/ HeardUpdate(r)
  \/ Details(r) \/ Write(r) \/ Announce(r)

CallSteps(c) == Left(c) \/ LeaveRoom(c) \/ LeaveRoomSends(c)

WatchSteps ==
  \/ Seed \/ BeginSweep \/ BeginDead \/ BeginCaptures \/ SweepDone \/ Tick

Next ==
  \/ \E r \in Rooms :
       \/ \E v \in Vers : Invite(r, v) \/ Rename(r, v)
       \/ Withdraw(r) \/ Purge(r) \/ Sync(r) \/ Evict(r) \/ Hydrate(r)
       \/ RoomSteps(r)
       \/ \E c \in Calls : Leave(c, r) \/ Join(c, r)
  \/ \E c \in Calls : CallSteps(c) \/ CallDropped(c)
  \/ WatchSteps \/ Lagged \/ Restart

Spec == Init /\ [][Next]_vars

\* Sync delivers, the SDK loads its rooms, the requests and the watcher's task
\* are polled and its timer fires again and again.
Fairness ==
  /\ \A r \in Rooms : /\ WF_vars(Sync(r))
                      /\ WF_vars(Hydrate(r))
                      /\ WF_vars(RoomSteps(r))
  /\ \A c \in Calls : WF_vars(CallSteps(c))
  /\ WF_vars(WatchSteps)
  /\ SF_vars(Tick)

FairSpec == Spec /\ Fairness

-----------------------------------------------------------------------------
(* Properties. *)

\* Every variable has the shape the code gives it, a sweep has no more captures
\* under way than it may, and each room of the cache has a snapshot.
TypeOK ==
  /\ \A r \in Rooms :
       /\ hs[r].st \in {"out", "invited", "joined", "gone"}
       /\ mem[r].st \in {"none", "invited", "joined", "left"}
       /\ {hs[r].gen, mem[r].gen, row[r].gen, rejected[r]} \subseteq 0..MaxInvites
       /\ {row[r].ver, cache.rows[r]} \subseteq Vers \cup {0}
       /\ cap[r].pc \in {"off", "details", "write", "drop", "announce", "removed", "missing"}
  /\ Cardinality({r \in Rooms : cap[r] # Off}) <= Concurrency
  /\ {news, upd, told, dead, crossed, watch.todo} \subseteq SUBSET Rooms

\* The row of an invite the homeserver still holds is not deleted: every delete
\* has evidence on that room (sweep_invites, drop_invite_if_known, leave_room).
NoWrongDropStep ==
  \A r \in Rooms :
       Listed(r) /\ hs[r].st = "invited" /\ row[r].gen = hs[r].gen => row'[r] # NoRow

\* NoWrongDropStep, of every step.
NoWrongDrop == [][NoWrongDropStep]_vars

\* What the inbox shows is right unless the room's last two changes were stored in
\* the other order than their frames were sent.
Hidden(r) == ~Listed(r) /\ (r \notin crossed => r \notin told)
Dropped(r) == r \in dead => Hidden(r)
InboxRight(r) ==
  /\ mem[r].st = "invited" /\ r \notin dead =>
       row[r].ver = mem[r].ver /\ (r \notin crossed => r \in told)
  /\ mem[r].st \in {"joined", "left"} => Hidden(r)
PendingListed(r) == hs[r].st = "invited" /\ mem[r].st = "invited" => Listed(r)

\* A room the homeserver has disowned leaves the table, and the inboxes unless its
\* last frames crossed, for as long as the client that still lists it as invited
\* (mark_room_dead, capture_invite).
DeadIsDropped == \A r \in Rooms : <>[]Dropped(r)

\* In the end the table holds the rooms the SDK sees as invited and none it sees as
\* joined or left, whatever updates, reads and writes were lost, and so do the
\* inboxes unless the room's last frames crossed (watch_invites).
InboxConverges == \A r \in Rooms : <>[]InboxRight(r)

\* An invite that the homeserver holds and the SDK shows is listed in the end.
PendingIsListed == \A r \in Rooms : <>[]PendingListed(r)

\* An invite whose reject was confirmed and whose row was dropped does not stay
\* in the inbox (leave_room).
RejectedIsGone ==
  \A r \in Rooms : <>[](Listed(r) => row[r].gen # rejected[r])
=============================================================================
