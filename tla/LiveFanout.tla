----------------------------- MODULE LiveFanout -----------------------------
(***************************************************************************)
(* The live-event bus from a changed room detail to a client's screen: the *)
(* coalescer of one account (axon-sync/src/room_details.rs), the broadcast *)
(* channel with its bounded backlog, and the socket task of every client   *)
(* (axon-api/src/ws.rs) with its revalidation, its beat and its write      *)
(* timeout. A frame names what to read again and carries no value, so the  *)
(* model keeps, for each client, the rooms whose screen is out of date.    *)
(***************************************************************************)
EXTENDS Naturals, Sequences, FiniteSets, SequencesExt

CONSTANTS
  Rooms,       \* rooms of one account
  Clients,     \* clients, with one socket each
  MaxPending,  \* MAX_PENDING_ROOMS
  Capacity,    \* the backlog of the broadcast channel
  Busy,        \* whether the account changes for ever
  MaxChanges,  \* changes, when it is not busy
  MaxConnects, \* connections of all clients
  MaxFaults    \* broken connections and stalled peers

LiveFanoutBounds ==
  /\ {MaxPending, Capacity} \subseteq Nat \ {0}
  /\ Busy \in BOOLEAN
  /\ {MaxChanges, MaxConnects, MaxFaults} \subseteq Nat

VARIABLES
  hand,      \* where the producer of a room's changes is
  taken,     \* rooms a producer took out of the map and is publishing
  pend,      \* Pending.rooms
  closed,    \* Pending.closed
  fresh,     \* Pending.marks has moved since the flusher last looked
  wake,      \* the permit of the Notify
  flusher,   \* "wait", "sleep", "flush", "close" or "done"
  flushing,  \* rooms the flusher took out of the map and is publishing
  late,      \* MAX_DELAY has passed since the flusher woke
  cancelled, \* the account run is stopping
  sock,      \* where the socket task of a client is
  backlog,   \* the frames the channel holds for a client
  lagged,    \* the channel has overwritten frames the client has not read
  out,       \* the rooms in the frame that is being written
  reading,   \* rooms the client is about to read
  dirty,     \* rooms whose screen is out of date
  stuck,     \* clients that do not drain their socket
  token,     \* the client's token is valid
  changes, connects, faults

producers == <<hand, taken>>
coalescer == <<pend, closed, fresh, wake, flusher, flushing, late, cancelled>>
sockets   == <<sock, out, stuck>>
channel   == <<backlog, lagged>>
screens   == <<reading, dirty>>
count     == <<changes, connects, faults>>
vars      == <<producers, coalescer, sockets, channel, screens, token, count>>

Init ==
  /\ hand = [r \in Rooms |-> "idle"]
  /\ taken = [r \in Rooms |-> {}]
  /\ pend = {} /\ closed = FALSE /\ fresh = FALSE /\ wake = FALSE
  /\ flusher = "wait" /\ flushing = {} /\ late = FALSE /\ cancelled = FALSE
  /\ sock = [c \in Clients |-> "off"]
  /\ backlog = [c \in Clients |-> <<>>]
  /\ lagged = [c \in Clients |-> FALSE]
  /\ out = [c \in Clients |-> {}]
  /\ reading = [c \in Clients |-> {}]
  /\ dirty = [c \in Clients |-> {}]
  /\ stuck = {}
  /\ token = [c \in Clients |-> TRUE]
  /\ changes = 0 /\ connects = 0 /\ faults = 0

-----------------------------------------------------------------------------
(* The coalescer. Its lock is held for the look at the map only: waking the *)
(* flusher and publishing what was taken come after it is released.         *)

Live(c) == sock[c] \in {"open", "write"}

\* broadcast: a full backlog loses its oldest frame.
Published(r) ==
  LET over(c) == Live(c) /\ Len(backlog[c]) = Capacity
  IN  /\ backlog' = [c \in Clients |->
           IF over(c) THEN Append(Tail(backlog[c]), r)
           ELSE IF Live(c) THEN Append(backlog[c], r) ELSE backlog[c]]
      /\ lagged' = [c \in Clients |-> lagged[c] \/ over(c)]

\* A write reports a real change of a room's details. A room's events are
\* dispatched one at a time.
Change(r) ==
  /\ Busy \/ changes < MaxChanges
  /\ hand[r] = "idle"
  /\ changes' = IF Busy THEN changes ELSE changes + 1
  /\ hand' = [hand EXCEPT ![r] = "written"]
  /\ dirty' = [c \in Clients |-> dirty[c] \cup {r}]
  /\ UNCHANGED <<taken, coalescer, sockets, channel, reading, token, connects, faults>>

\* Mutant: a mark wakes a flusher that waits, and no other.
Wakes_Waiting == pend = {} /\ flusher = "wait"

\* The flusher waits for the first pending mark only.
Wakes == pend = {}

Full(rooms) == Cardinality(rooms) >= MaxPending

\* mark, under the lock.
Mark(r) ==
  /\ hand[r] = "written"
  /\ fresh' = TRUE
  /\ LET publish == closed \/ Full(pend \cup {r})
     IN  /\ pend' = IF publish THEN {} ELSE pend \cup {r}
         /\ taken' = [taken EXCEPT ![r] = IF publish THEN pend \cup {r} ELSE {}]
         /\ hand' = [hand EXCEPT ![r] =
              IF publish THEN "publish" ELSE IF Wakes THEN "wake" ELSE "idle"]
  /\ UNCHANGED <<closed, wake, flusher, flushing, late, cancelled, sockets, channel,
                 screens, token, count>>

\* mark, after the lock: notify_one
MarkWakes(r) ==
  /\ hand[r] = "wake"
  /\ wake' = TRUE
  /\ hand' = [hand EXCEPT ![r] = "idle"]
  /\ UNCHANGED <<taken, pend, closed, fresh, flusher, flushing, late, cancelled, sockets,
                 channel, screens, token, count>>

\* mark, after the lock: publish, in the order of a hash map.
MarkPublishes(r) ==
  /\ \E x \in taken[r] :
       /\ Published(x)
       /\ taken' = [taken EXCEPT ![r] = @ \ {x}]
       /\ hand' = [hand EXCEPT ![r] = IF taken[r] = {x} THEN "idle" ELSE @]
  /\ UNCHANGED <<coalescer, sockets, screens, token, count>>

FlusherWakes ==
  /\ flusher = "wait" /\ wake /\ ~cancelled
  /\ wake' = FALSE /\ fresh' = FALSE /\ late' = FALSE
  /\ flusher' = "sleep"
  /\ UNCHANGED <<producers, pend, closed, flushing, cancelled, sockets, channel, screens,
                 token, count>>

MaxDelayPasses ==
  /\ flusher = "sleep" /\ ~late
  /\ late' = TRUE
  /\ UNCHANGED <<producers, pend, closed, fresh, wake, flusher, flushing, cancelled,
                 sockets, channel, screens, token, count>>

\* A quiet period ends, or the longest delay.
Due == ~fresh \/ late

\* The sleep ends: flush takes the map, or the flusher sleeps again.
FlusherTicks ==
  /\ flusher = "sleep" /\ ~cancelled
  /\ fresh' = FALSE
  /\ flushing' = IF Due THEN pend ELSE {}
  /\ pend' = IF Due THEN {} ELSE pend
  /\ flusher' = IF Due THEN "flush" ELSE "sleep"
  /\ UNCHANGED <<producers, closed, wake, late, cancelled, sockets, channel, screens,
                 token, count>>

\* The account run stops; event handlers go on.
Cancel ==
  /\ ~cancelled
  /\ cancelled' = TRUE
  /\ UNCHANGED <<producers, pend, closed, fresh, wake, flusher, flushing, late, sockets,
                 channel, screens, token, count>>

\* close: take what is pending and stop coalescing.
Close ==
  /\ cancelled /\ flusher \in {"wait", "sleep"}
  /\ flusher' = "close" /\ closed' = TRUE
  /\ flushing' = pend /\ pend' = {}
  /\ UNCHANGED <<producers, fresh, wake, late, cancelled, sockets, channel, screens, token,
                 count>>

\* publish, by the flusher.
FlusherPublishes ==
  /\ flusher \in {"flush", "close"}
  /\ \/ /\ \E x \in flushing : Published(x) /\ flushing' = flushing \ {x}
        /\ UNCHANGED flusher
     \/ /\ flushing = {}
        /\ flusher' = IF flusher = "flush" THEN "wait" ELSE "done"
        /\ UNCHANGED <<flushing, channel>>
  /\ UNCHANGED <<producers, pend, closed, fresh, wake, late, cancelled, sockets, screens,
                 token, count>>

-----------------------------------------------------------------------------
(* Sockets.                                                                *)

\* ws_handler checks the token before the upgrade,
Verify(c) ==
  /\ sock[c] = "off" /\ token[c] /\ connects < MaxConnects
  /\ connects' = connects + 1
  /\ sock' = [sock EXCEPT ![c] = "verified"]
  /\ UNCHANGED <<producers, coalescer, out, stuck, channel, screens, token, changes, faults>>

\* and subscribes before the client can know it is connected and reads.
Subscribe(c) ==
  /\ sock[c] = "verified"
  /\ sock' = [sock EXCEPT ![c] = "open"]
  /\ backlog' = [backlog EXCEPT ![c] = <<>>]
  /\ lagged' = [lagged EXCEPT ![c] = FALSE]
  /\ reading' = [reading EXCEPT ![c] = Rooms]
  /\ UNCHANGED <<producers, coalescer, out, stuck, dirty, token, count>>

Closed(c) ==
  /\ sock' = [sock EXCEPT ![c] = "off"]
  /\ out' = [out EXCEPT ![c] = {}]
  /\ backlog' = [backlog EXCEPT ![c] = <<>>]
  /\ lagged' = [lagged EXCEPT ![c] = FALSE]
  /\ reading' = [reading EXCEPT ![c] = {}]
  /\ stuck' = stuck \ {c}

\* rx.recv: a lag is logged and skipped, a frame is written.
Recv(c) ==
  /\ sock[c] = "open"
  /\ \/ /\ lagged[c]
        /\ lagged' = [lagged EXCEPT ![c] = FALSE]
        /\ UNCHANGED <<sock, out, backlog>>
     \/ /\ ~lagged[c] /\ backlog[c] # <<>>
        /\ sock' = [sock EXCEPT ![c] = "write"]
        /\ out' = [out EXCEPT ![c] = {Head(backlog[c])}]
        /\ backlog' = [backlog EXCEPT ![c] = Tail(@)]
        /\ UNCHANGED lagged
  /\ UNCHANGED <<producers, coalescer, stuck, screens, token, count>>

\* The heartbeat writes a frame that names nothing.
Beat(c) ==
  /\ sock[c] = "open"
  /\ sock' = [sock EXCEPT ![c] = "write"]
  /\ UNCHANGED <<producers, coalescer, out, stuck, channel, screens, token, count>>

\* The peer takes the frame, and will read what it names.
Delivered(c) ==
  /\ sock[c] = "write" /\ c \notin stuck
  /\ sock' = [sock EXCEPT ![c] = "open"]
  /\ reading' = [reading EXCEPT ![c] = @ \cup out[c]]
  /\ out' = [out EXCEPT ![c] = {}]
  /\ UNCHANGED <<producers, coalescer, stuck, channel, dirty, token, count>>

\* WRITE_TIMEOUT
TimedOut(c) == sock[c] = "write" /\ c \in stuck

WriteTimesOut(c) ==
  /\ TimedOut(c)
  /\ Closed(c)
  /\ UNCHANGED <<producers, coalescer, dirty, token, count>>

\* A token that stopped verifying closes the socket; one that verifies, and a
\* verifier that fails, change nothing.
Revalidate(c) ==
  /\ sock[c] = "open" /\ ~token[c]
  /\ Closed(c)
  /\ UNCHANGED <<producers, coalescer, dirty, token, count>>

\* The peer hangs up, or its connection breaks.
HangUp(c) ==
  /\ Live(c) /\ faults < MaxFaults
  /\ faults' = faults + 1
  /\ Closed(c)
  /\ UNCHANGED <<producers, coalescer, dirty, token, changes, connects>>

\* A peer stops draining its receive buffer.
Stall(c) ==
  /\ Live(c) /\ c \notin stuck /\ faults < MaxFaults
  /\ faults' = faults + 1
  /\ stuck' = stuck \cup {c}
  /\ UNCHANGED <<producers, coalescer, sock, out, channel, screens, token, changes, connects>>

Revoke(c) ==
  /\ token[c]
  /\ token' = [token EXCEPT ![c] = FALSE]
  /\ UNCHANGED <<producers, coalescer, sockets, channel, screens, count>>

\* The client reads what it was told to.
Read(c) ==
  /\ reading[c] # {} /\ token[c]
  /\ dirty' = [dirty EXCEPT ![c] = @ \ reading[c]]
  /\ reading' = [reading EXCEPT ![c] = {}]
  /\ UNCHANGED <<producers, coalescer, sockets, channel, token, count>>

-----------------------------------------------------------------------------
FlusherStep == FlusherWakes \/ FlusherTicks \/ Close \/ FlusherPublishes

Next ==
  \/ \E r \in Rooms : Change(r) \/ Mark(r) \/ MarkWakes(r) \/ MarkPublishes(r)
  \/ FlusherStep \/ MaxDelayPasses \/ Cancel
  \/ \E c \in Clients :
       \/ Verify(c) \/ Subscribe(c) \/ Recv(c) \/ Beat(c) \/ Delivered(c)
       \/ WriteTimesOut(c) \/ Revalidate(c) \/ HangUp(c) \/ Stall(c)
       \/ Revoke(c) \/ Read(c)

Spec == Init /\ [][Next]_vars

\* Tasks run and time passes. The branches of the socket's select! are chosen at
\* random among the ready ones, so that one that keeps being ready is taken.
Fairness ==
  /\ WF_vars(FlusherStep) /\ WF_vars(MaxDelayPasses)
  /\ \A r \in Rooms : WF_vars(Mark(r)) /\ WF_vars(MarkWakes(r)) /\ WF_vars(MarkPublishes(r))
  /\ \A c \in Clients :
       /\ WF_vars(Subscribe(c)) /\ SF_vars(Recv(c)) /\ SF_vars(Revalidate(c))
       /\ WF_vars(Delivered(c)) /\ WF_vars(WriteTimesOut(c)) /\ WF_vars(Read(c))

FairSpec == Spec /\ Fairness

-----------------------------------------------------------------------------
(* Properties.                                                             *)

\* The variables keep their types.
TypeOK ==
  /\ hand \in [Rooms -> {"idle", "written", "wake", "publish"}]
  /\ taken \in [Rooms -> SUBSET Rooms]
  /\ pend \subseteq Rooms /\ flushing \subseteq Rooms
  /\ {closed, fresh, wake, late, cancelled} \subseteq BOOLEAN
  /\ flusher \in {"wait", "sleep", "flush", "close", "done"}
  /\ sock \in [Clients -> {"off", "verified", "open", "write"}]
  /\ \A c \in Clients :
       /\ Len(backlog[c]) <= Capacity /\ lagged[c] \in BOOLEAN
       /\ out[c] \subseteq Rooms /\ reading[c] \subseteq Rooms /\ dirty[c] \subseteq Rooms
  /\ Cardinality(pend) < MaxPending \/ pend = {}

\* A connected client's screen is out of date only while a signal is on its way
\* to it: a change is between its write and its mark, pending, being
\* published, in the backlog, on the wire, or the client is about to read. It holds across the flush at a
\* full map, the stop of the account run and a change during the handshake.
StaleIsSignalled ==
  \A c \in Clients : Live(c) =>
    \A r \in dirty[c] :
      \/ hand[r] = "written" \/ r \in pend \cup flushing \cup UNION Range(taken)
      \/ r \in ToSet(backlog[c]) \cup out[c] \cup reading[c]

\* A pending change has a flusher that is awake or about to be: no wakeup is lost
\* between marks, flushes at a full map and the flusher's own look, although a
\* producer notifies after it has released the lock.
PendingIsWatched ==
  pend # {} => \/ wake \/ \E r \in Rooms : hand[r] = "wake"
               \/ flusher = "sleep" \/ (cancelled /\ flusher # "done")

\* A pending change is published even while the account never falls quiet.
PendingIsPublished == \A r \in Rooms : []<>(r \notin pend)

Served(c) == sock[c] # "off"

\* A revoked token ends its socket, also when its peer has stopped reading and
\* the revocation falls into the handshake.
RevokedIsClosed == \A c \in Clients : []<>(token[c] \/ ~Served(c))
=============================================================================
