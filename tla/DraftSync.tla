----------------------------- MODULE DraftSync -----------------------------
(***************************************************************************)
(* Drafts across devices: the terminal client's compose buffer and draft   *)
(* map (clients/tui/src/app/drafts.rs and bootstrap.rs), the per-device    *)
(* state of the server with its last-write-wins view (axon-api's           *)
(* routes/device_state.rs over axon-store/src/device_state.rs), and the    *)
(* live socket in between, which loses what it carries when it drops.      *)
(***************************************************************************)
EXTENDS Naturals, Sequences, FiniteSets, FiniteSetsExt

CONSTANTS
  Devices,       \* client installs
  Rooms,         \* rooms of one account
  Home,          \* the room every device opens with
  None,          \* no room, nothing pending
  NoDraft,       \* an empty buffer, an absent draft, a tombstone
  Typists,       \* devices whose user types
  Movers,        \* devices whose user changes rooms
  Started,       \* devices that are connected and through their startup
  LateSocket,    \* whether the first connection may come after the boot read
  MaxInFlight,   \* PUTs of one device at a time
  MaxEdits,      \* edits of all devices
  MaxMoves,      \* room changes of all devices
  MaxDrops,      \* connections lost
  MaxFaults      \* requests that fail

DraftSyncBounds ==
  /\ {Typists, Movers, Started} \subseteq SUBSET Devices
  /\ Home \in Rooms
  /\ LateSocket \in BOOLEAN
  /\ MaxInFlight \in Nat \ {0}
  /\ {MaxEdits, MaxMoves, MaxDrops, MaxFaults} \subseteq Nat

VARIABLES
  rows,      \* device_state: value and stamp by device and room
  clock,     \* the last stamp
  drafts,    \* the draft map of a device
  buffer,    \* its compose buffer
  selected,  \* its selected room
  compose,   \* the room its buffer mirrors
  pending,   \* the draft change that waits out its debounce
  puts,      \* its PUTs in flight
  inbox,     \* the frames on their way to it
  link,      \* whether its socket is connected
  seen,      \* seen_first_connect
  booted,    \* the device-state stage of startup has been reached
  fetch,     \* the read of the merged view, with device_state_again
  since,     \* drafts_written_since_fetch
  told,      \* the stamp of the last frame published, by room
  edits, moves, drops, faults

server == <<rows, clock, told>>
editor == <<drafts, buffer, selected, compose, pending>>
socket == <<inbox, link, seen>>
reads  == <<booted, fetch, since>>
count  == <<edits, moves, drops, faults>>
vars   == <<server, editor, puts, socket, reads, count>>

\* Every edit is told apart by who typed it and when.
Texts(d) == {<<d, n>> : n \in 1..MaxEdits}

Idle == [st |-> "idle", view |-> [r \in Rooms |-> NoDraft], again |-> FALSE]

Init ==
  /\ rows = [d \in Devices |-> [r \in Rooms |-> [value |-> NoDraft, stamp |-> 0]]]
  /\ clock = 0 /\ told = [r \in Rooms |-> 0]
  /\ drafts = [d \in Devices |-> [r \in Rooms |-> NoDraft]]
  /\ buffer = [d \in Devices |-> NoDraft]
  /\ selected = [d \in Devices |-> Home]
  /\ compose = [d \in Devices |-> IF d \in Started THEN Home ELSE None]
  /\ pending = [d \in Devices |-> None]
  /\ puts = [d \in Devices |-> {}]
  /\ inbox = [d \in Devices |-> <<>>]
  /\ link = [d \in Devices |-> d \in Started]
  /\ seen = [d \in Devices |-> d \in Started]
  /\ booted = [d \in Devices |-> d \in Started]
  /\ fetch = [d \in Devices |-> Idle]
  /\ since = [d \in Devices |-> {}]
  /\ edits = 0 /\ moves = 0 /\ drops = 0 /\ faults = 0

-----------------------------------------------------------------------------
(* The server.                                                             *)

Newest(r) == Max({rows[d][r].stamp : d \in Devices})

\* merged_device_state: per key the newest row, a tombstone included.
Merged(r) == rows[CHOOSE d \in Devices : rows[d][r].stamp = Newest(r)][r].value

\* upsert_device_state: the last PUT to arrive wins.
PutStored(d, p) ==
  /\ p \in puts[d] /\ p.at = "sent"
  /\ clock' = clock + 1
  /\ rows' = [rows EXCEPT ![d][p.room] = [value |-> p.value, stamp |-> clock + 1]]
  /\ puts' = [puts EXCEPT ![d] =
       (@ \ {p}) \cup {[p EXCEPT !.at = "stored", !.stamp = clock + 1]}]
  /\ UNCHANGED <<told, editor, socket, reads, count>>

\* The frame goes out after the statement, to every connected device, and in no
\* order with the frame of another PUT.
PutPublished(d, p) ==
  /\ p \in puts[d] /\ p.at = "stored"
  /\ puts' = [puts EXCEPT ![d] = @ \ {p}]
  /\ told' = [told EXCEPT ![p.room] = p.stamp]
  /\ inbox' = [e \in Devices |->
       IF link[e] THEN Append(inbox[e], [kind |-> "state", from |-> d,
                                         room |-> p.room, value |-> p.value])
                  ELSE inbox[e]]
  /\ UNCHANGED <<rows, clock, editor, link, seen, reads, count>>

\* The request does not reach the server, or its handler is dropped with the
\* connection before the frame; the failure is only shown.
PutFails(d, p) ==
  /\ p \in puts[d] /\ faults < MaxFaults
  /\ faults' = faults + 1
  /\ puts' = [puts EXCEPT ![d] = @ \ {p}]
  /\ UNCHANGED <<server, editor, socket, reads, edits, moves, drops>>

-----------------------------------------------------------------------------
(* Typing.                                                                 *)

\* note_draft_activity: a buffer back in sync cancels the pending PUT.
Noted(d, v) ==
  IF drafts[d][selected[d]] = v
    THEN IF pending[d] # None /\ pending[d].room = selected[d] THEN None
                                                              ELSE pending[d]
    ELSE [room |-> selected[d], value |-> v]

\* The user types, deletes, or sends what the buffer holds.
Type(d, v) ==
  /\ d \in Typists /\ edits < MaxEdits /\ v # buffer[d]
  /\ v # NoDraft => v[2] = edits + 1
  /\ edits' = edits + 1
  /\ buffer' = [buffer EXCEPT ![d] = v]
  /\ compose' = [compose EXCEPT ![d] = selected[d]]
  /\ pending' = [pending EXCEPT ![d] = Noted(d, v)]
  /\ UNCHANGED <<server, drafts, selected, puts, socket, reads, moves, drops, faults>>

\* flush_due_draft_put: the map at once, the PUT in the background. A clear of
\* what was never a draft needs no tombstone.
Flushed(d) ==
  IF pending[d] = None THEN drafts[d]
    ELSE [drafts[d] EXCEPT ![pending[d].room] = pending[d].value]

Puts(d) ==
  IF \/ pending[d] = None
     \/ pending[d].value = NoDraft /\ drafts[d][pending[d].room] = NoDraft
    THEN {}
    ELSE {[room |-> pending[d].room, value |-> pending[d].value,
           at |-> "sent", stamp |-> 0, n |-> edits]}

Flushing(d) ==
  /\ pending[d] # None => Cardinality(puts[d]) < MaxInFlight
  /\ pending' = [pending EXCEPT ![d] = None]
  /\ puts' = [puts EXCEPT ![d] = @ \cup Puts(d)]
  /\ drafts' = [drafts EXCEPT ![d] = Flushed(d)]

Flush(d) ==
  /\ pending[d] # None
  /\ Flushing(d)
  /\ UNCHANGED <<server, buffer, selected, compose, socket, reads, count>>

\* sync_draft_on_room_change: settle the room left, show the draft of the new.
SwitchRoom(d, r) ==
  /\ d \in Movers /\ moves < MaxMoves /\ r # compose[d]
  /\ moves' = moves + 1
  /\ Flushing(d)
  /\ selected' = [selected EXCEPT ![d] = r]
  /\ compose' = [compose EXCEPT ![d] = r]
  /\ buffer' = [buffer EXCEPT ![d] = Flushed(d)[r]]
  /\ UNCHANGED <<server, socket, reads, edits, drops, faults>>

\* A refresh of the room list, or the sidebar before the startup reads are
\* applied, moves the selection and leaves the editor: the buffer and a pending
\* PUT stay with the old room until the next key or the next room load. A room
\* that left the list loses its mark as well.
MoveSelection(d, r) ==
  /\ d \in Movers /\ moves < MaxMoves /\ r # selected[d]
  /\ moves' = moves + 1
  /\ selected' = [selected EXCEPT ![d] = r]
  /\ since' \in {since, [since EXCEPT ![d] = @ \ {selected[d]}]}
  /\ UNCHANGED <<server, drafts, buffer, compose, pending, puts, socket, booted, fetch,
                 edits, drops, faults>>

-----------------------------------------------------------------------------
(* Reading the merged view.                                                *)

\* request_device_state: one read in flight, one remembered behind it.
Requested(d) ==
  IF fetch[d].st # "idle"
    THEN fetch' = [fetch EXCEPT ![d].again = TRUE] /\ UNCHANGED since
    ELSE /\ fetch' = [fetch EXCEPT ![d].st = "asked"]
         /\ since' = [since EXCEPT ![d] = {}]

\* The device-state stage of startup.
BootRead(d) ==
  /\ ~booted[d] /\ (LateSocket \/ link[d])
  /\ booted' = [booted EXCEPT ![d] = TRUE]
  /\ Requested(d)
  /\ UNCHANGED <<server, editor, puts, socket, count>>

ServerReads(d) ==
  /\ fetch[d].st = "asked"
  /\ fetch' = [fetch EXCEPT ![d].st = "read", ![d].view = [r \in Rooms |-> Merged(r)]]
  /\ UNCHANGED <<server, editor, puts, socket, booted, since, count>>

ReadFails(d) ==
  /\ fetch[d].st = "asked" /\ faults < MaxFaults
  /\ faults' = faults + 1
  /\ fetch' = [fetch EXCEPT ![d].st = "failed"]
  /\ UNCHANGED <<server, editor, puts, socket, booted, since, edits, moves, drops>>

\* Mutant: what a frame wrote during the read is not protected.
Protected_Editor(d) ==
  {compose[d]} \cup (IF pending[d] = None THEN {} ELSE {pending[d].room})

\* The rooms whose drafts a view may not touch.
Protected(d) ==
  {compose[d]} \cup (IF pending[d] = None THEN {} ELSE {pending[d].room})
    \cup since[d]

\* apply_draft_reads: the view decides the other rooms, omitted keys included.
Applied(d) == [r \in Rooms |->
  IF fetch[d].st = "read" /\ r \notin Protected(d) THEN fetch[d].view[r] ELSE drafts[d][r]]

\* restore_draft_into_buffer
Restored(d, new) ==
  IF buffer[d] # NoDraft THEN UNCHANGED <<buffer, compose>>
    ELSE /\ buffer' = [buffer EXCEPT ![d] = new[selected[d]]]
         /\ compose' = [compose EXCEPT ![d] = selected[d]]

ReadApplied(d) ==
  /\ fetch[d].st \in {"read", "failed"}
  /\ drafts' = [drafts EXCEPT ![d] = Applied(d)]
  /\ Restored(d, Applied(d))
  /\ fetch' = [fetch EXCEPT ![d] =
       IF fetch[d].again THEN [Idle EXCEPT !.st = "asked"] ELSE Idle]
  /\ since' = [since EXCEPT ![d] = IF fetch[d].again THEN {} ELSE @]
  /\ UNCHANGED <<server, selected, pending, puts, socket, booted, count>>

-----------------------------------------------------------------------------
(* The live socket.                                                        *)

\* websocket_task connects: the subscription is there before the client knows.
Connect(d) ==
  /\ ~link[d]
  /\ link' = [link EXCEPT ![d] = TRUE]
  /\ inbox' = [inbox EXCEPT ![d] = Append(@, [kind |-> "connected"])]
  /\ UNCHANGED <<server, editor, puts, seen, reads, count>>

\* The connection is lost, and with it any frames the client has not received.
SocketDrops(d) ==
  /\ link[d] /\ drops < MaxDrops
  /\ drops' = drops + 1
  /\ link' = [link EXCEPT ![d] = FALSE]
  /\ \E n \in 0..Len(inbox[d]) :
       /\ \A i \in n + 1..Len(inbox[d]) : inbox[d][i].kind = "state"
       /\ inbox' = [inbox EXCEPT ![d] = SubSeq(@, 1, n)]
  /\ UNCHANGED <<server, editor, puts, seen, reads, edits, moves, faults>>

\* note_connected_frame: every connection but the first causes a read.
Connected(d) ==
  IF seen[d] THEN Requested(d) ELSE UNCHANGED <<fetch, since>>

\* The buffer follows a sibling only while it is clean.
Shown(d, f) ==
  IF compose[d] = f.room /\ buffer[d] \in {NoDraft, drafts[d][f.room]}
    THEN f.value ELSE buffer[d]

\* handle_live_frame: our own PUTs come back as echoes and are dropped.
Receive(d) == LET f == Head(inbox[d]) IN
  /\ inbox[d] # <<>>
  /\ inbox' = [inbox EXCEPT ![d] = Tail(@)]
  /\ \/ /\ f.kind = "connected"
        /\ seen' = [seen EXCEPT ![d] = TRUE]
        /\ Connected(d)
        /\ UNCHANGED <<drafts, buffer>>
     \/ /\ f.kind = "state" /\ f.from = d
        /\ UNCHANGED <<drafts, buffer, seen, fetch, since>>
     \/ /\ f.kind = "state" /\ f.from # d
        /\ drafts' = [drafts EXCEPT ![d][f.room] = f.value]
        /\ since' = [since EXCEPT ![d] = @ \cup {f.room}]
        /\ buffer' = [buffer EXCEPT ![d] = Shown(d, f)]
        /\ UNCHANGED <<seen, fetch>>
  /\ UNCHANGED <<server, selected, compose, pending, puts, link, booted, count>>

-----------------------------------------------------------------------------
PutStep(d) == \E p \in puts[d] : PutStored(d, p) \/ PutPublished(d, p)
ReadStep(d) == BootRead(d) \/ ServerReads(d) \/ ReadApplied(d)

Next == \E d \in Devices :
  \/ \E v \in Texts(d) \cup {NoDraft} : Type(d, v)
  \/ \E r \in Rooms : SwitchRoom(d, r) \/ MoveSelection(d, r)
  \/ \E p \in puts[d] : PutFails(d, p)
  \/ Flush(d) \/ PutStep(d) \/ ReadStep(d) \/ ReadFails(d)
  \/ Connect(d) \/ SocketDrops(d) \/ Receive(d)

Spec == Init /\ [][Next]_vars

-----------------------------------------------------------------------------
(* Properties.                                                             *)

Values == {NoDraft} \cup UNION {Texts(d) : d \in Devices}

\* The variables keep their types.
TypeOK ==
  /\ told \in [Rooms -> 0..clock]
  /\ \A d \in Devices, r \in Rooms :
       rows[d][r].value \in Values /\ rows[d][r].stamp \in 0..clock
  /\ drafts \in [Devices -> [Rooms -> Values]]
  /\ buffer \in [Devices -> Values]
  /\ selected \in [Devices -> Rooms] /\ compose \in [Devices -> Rooms \cup {None}]
  /\ \A d \in Devices :
       /\ pending[d] # None => pending[d].room \in Rooms /\ pending[d].value \in Values
       /\ \A p \in puts[d] : p.room \in Rooms /\ p.at \in {"sent", "stored"}
       /\ fetch[d].st \in {"idle", "asked", "read", "failed"}
       /\ since[d] \subseteq Rooms

\* Nothing is under way: no change waits, no request and no frame is in flight,
\* and the device is connected and through its startup.
Quiet(d) ==
  /\ link[d] /\ booted[d] /\ fetch[d].st = "idle" /\ inbox[d] = <<>>
  /\ \A e \in Devices : pending[e] = None /\ puts[e] = {}

Agrees(d, r) == drafts[d][r] = Merged(r)

\* The last frame of a room tells its newest row.
ToldNewest(r) == told[r] = Newest(r)

\* A device that only reads knows every draft once nothing is under way, except
\* of the room it composes in and of a room whose last two frames went out in
\* the reverse of their writes: frames that race a read, reads that race each
\* other and lost connections leave nothing behind.
SiblingsConverge ==
  \A d \in Devices \ Typists : Quiet(d) =>
    \A r \in Rooms \ {compose[d]} : ToldNewest(r) => Agrees(d, r)

\* A text that waits for its PUT is what the user sees for as long as the buffer
\* mirrors its room: no frame, view or selection that moves puts another text
\* over it.
TypedStays ==
  \A d \in Devices :
    /\ pending[d] # None
    /\ pending[d].room = compose[d] /\ pending[d].value # NoDraft
    => buffer[d] = pending[d].value
=============================================================================
