------------------------- MODULE VerificationRooms -------------------------
(***************************************************************************)
(* The rooms of one account that the sync loop subscribes for verification  *)
(* (VerificationRooms in axon-sync/src/verification.rs, the loop in         *)
(* engine.rs), and the handler of in-room verification requests with its    *)
(* memory of handled events (HandledRoomEvents).                            *)
(*                                                                          *)
(* A room outside the sync window delivers an event only while it is        *)
(* subscribed. Handlers run beside the loop, so the loop's two reads, of    *)
(* the registry and of the held rooms, may see a handler half-way. Entries  *)
(* with a time to live may expire in any step.                              *)
(***************************************************************************)
EXTENDS Naturals, FiniteSets

CONSTANTS
  Rooms,
  Events,      \* verification requests: in-room events, and calls of start
  RoomOf,      \* the room of an event
  OwnEvents,   \* sent by another device of this user
  Starts,      \* flows this user starts
  Handlers,    \* handlers that run at once
  None,
  MaxJoins,    \* MAX_CANDIDATE_JOINS_PER_POLL
  MaxDeliver,  \* deliveries of one event
  MaxRestarts, \* restarts of the run
  MaxExpiries  \* entries that outlive their time

RoomsAssumption ==
  /\ RoomOf \in [Events -> Rooms]
  /\ OwnEvents \subseteq Events /\ Starts \subseteq Events
  /\ OwnEvents \cap Starts = {}
  /\ MaxJoins \in Nat \ {0}
  /\ {MaxDeliver, MaxRestarts, MaxExpiries} \subseteq Nat
  /\ None \notin Events

VARIABLES
  hold,    \* AccountRooms: candidates, pending_requests, rejected
  flow,    \* the registry's view of the flow of an event
  made,    \* how many requests an event has led to
  handled, \* HandledRoomEvents of the run
  taken,   \* events of this run that led to a flow
  sdk,     \* what the SDK knows: invited and joined rooms, contacts, requests
  hnd,     \* the handlers
  loop,    \* the run's loop
  service, \* the rooms the sync service subscribes
  count    \* deliveries, restarts, expiries and lapses of a remembered event so far

vars == <<hold, flow, made, handled, taken, sdk, hnd, loop, service, count>>

IdleLoop ==
  [pc |-> "wait",
   todo |-> {},          \* invites the poll has not looked at
   joined |-> 0,         \* the poll's counter
   entered |-> 0,        \* rooms the poll's requests really joined
   desired |-> {},
   subscribed |-> {},    \* what the loop believes
   wake |-> TRUE]        \* the waker's channel holds a message

IdleHandler == [pc |-> "idle", ev |-> None]

Init ==
  /\ hold = [candidates |-> {}, pending |-> {}, rejected |-> {}]
  /\ flow = [e \in Events |-> "none"]
  /\ made = [e \in Events |-> 0]
  /\ handled = {}
  /\ taken = {}
  /\ sdk = [invited |-> {}, joined |-> {}, contacts |-> {}, known |-> {}]
  /\ hnd = [h \in Handlers |-> IdleHandler]
  /\ loop = IdleLoop
  /\ service = {}
  /\ count = [deliver |-> [e \in Events |-> 0], restarts |-> 0, expiries |-> 0,
              lapses |-> [e \in Events |-> 0]]

-----------------------------------------------------------------------------
(* The outside.                                                            *)

Up == loop.pc # "down"

\* An invite to a direct room, and an inviter who comes to share a room.
Invite(r) ==
  /\ r \notin sdk.invited \cup sdk.joined
  /\ sdk' = [sdk EXCEPT !.invited = @ \cup {r}]
  /\ UNCHANGED <<hold, flow, made, handled, taken, hnd, loop, service, count>>
Contact(r) ==
  /\ r \notin sdk.contacts
  /\ sdk' = [sdk EXCEPT !.contacts = @ \cup {r}]
  /\ UNCHANGED <<hold, flow, made, handled, taken, hnd, loop, service, count>>

\* The sender's device keys arrive, so that the SDK has the request.
KeysArrive(e) ==
  /\ e \notin sdk.known \cup OwnEvents \cup Starts
  /\ sdk' = [sdk EXCEPT !.known = @ \cup {e}]
  /\ UNCHANGED <<hold, flow, made, handled, taken, hnd, loop, service, count>>

Expire(r) ==
  /\ count.expiries < MaxExpiries
  /\ \/ /\ r \in hold.candidates
        /\ hold' = [hold EXCEPT !.candidates = @ \ {r}]
     \/ /\ r \in hold.pending
        /\ hold' = [hold EXCEPT !.pending = @ \ {r}]
     \/ /\ r \in hold.rejected
        /\ hold' = [hold EXCEPT !.rejected = @ \ {r}]
  /\ count' = [count EXCEPT !.expiries = @ + 1]
  /\ UNCHANGED <<flow, made, handled, taken, sdk, hnd, loop, service>>

\* A handled event is forgotten after HANDLED_EVENT_TTL, whoever is at it.
Lapse(e) ==
  /\ count.expiries < MaxExpiries /\ e \in handled
  /\ handled' = handled \ {e}
  /\ count' = [count EXCEPT !.expiries = @ + 1, !.lapses[e] = @ + 1]
  /\ UNCHANGED <<hold, flow, made, taken, sdk, hnd, loop, service>>

-----------------------------------------------------------------------------
(* The flows.                                                              *)

\* Without a run the wake is only noted, and register makes one anyway.
Woken == [loop EXCEPT !.wake = @ \/ Up]

\* The flow ends: with an outcome, which wakes the loop, or without one.
FlowEnds(e) ==
  /\ flow[e] = "live"
  /\ \/ flow' = [flow EXCEPT ![e] = "terminal"] /\ loop' = Woken
     \/ flow' = [flow EXCEPT ![e] = "none"] /\ UNCHANGED loop
  /\ UNCHANGED <<hold, made, handled, taken, sdk, hnd, service, count>>

Swept(e) ==
  /\ flow[e] = "terminal"
  /\ flow' = [flow EXCEPT ![e] = "none"]
  /\ UNCHANGED <<hold, made, handled, taken, sdk, hnd, loop, service, count>>

-----------------------------------------------------------------------------
(* on_incoming_room_request, and the start call from its registration on.  *)

Go(h, pc) == hnd' = [hnd EXCEPT ![h].pc = pc]
End(h) == hnd' = [hnd EXCEPT ![h] = IdleHandler]

Deliver(h, e) ==
  /\ hnd[h].pc = "idle"
  /\ count.deliver[e] < MaxDeliver
  /\ \/ /\ e \in Starts
        /\ hnd' = [hnd EXCEPT ![h] = [pc |-> "register", ev |-> e]]
     \/ /\ e \notin Starts /\ Up
        /\ RoomOf[e] \in service \cap sdk.joined
        /\ hnd' = [hnd EXCEPT ![h] = [pc |-> "seen", ev |-> e]]
  /\ count' = [count EXCEPT !.deliver[e] = @ + 1]
  /\ UNCHANGED <<hold, flow, made, handled, taken, sdk, loop, service>>

\* A peek, which records nothing.
seen(h) ==
  LET e == hnd[h].ev
  IN  /\ hnd[h].pc = "seen"
      /\ IF e \in handled THEN End(h) ELSE Go(h, "resolve")
      /\ UNCHANGED <<hold, flow, made, handled, taken, sdk, loop, service, count>>

\* Mutant: the claim is only a mark.
ClaimAnyway(e) == TRUE
\* mark_if_new
Unclaimed(e) == e \notin handled

add_pending_request(r) ==
  /\ hold' = [hold EXCEPT !.pending = @ \cup {r}]
  /\ loop' = IF r \in hold.pending THEN loop ELSE Woken

\* The SDK has the request; or the event is our own user's, and is claimed
\* before a request is made for it; or it came before the keys, and its room
\* is held for the next delivery.
Resolve(h) ==
  LET e == hnd[h].ev
  IN  /\ hnd[h].pc = "resolve"
      /\ \/ /\ e \in sdk.known
            /\ Go(h, "register")
            /\ UNCHANGED <<hold, loop, handled>>
         \/ /\ e \in OwnEvents
            /\ IF Unclaimed(e) THEN Go(h, "mint") ELSE End(h)
            /\ handled' = handled \cup {e}
            /\ UNCHANGED <<hold, loop>>
         \/ /\ e \notin sdk.known \cup OwnEvents
            /\ add_pending_request(RoomOf[e])
            /\ End(h)
            /\ UNCHANGED handled
      /\ UNCHANGED <<flow, made, taken, sdk, service, count>>

\* The request is made, or the claim is given back.
Mint(h) ==
  LET e == hnd[h].ev
  IN  /\ hnd[h].pc = "mint"
      /\ \/ /\ made' = [made EXCEPT ![e] = @ + 1]
            /\ Go(h, "register")
            /\ UNCHANGED handled
         \/ /\ handled' = handled \ {e}
            /\ End(h)
            /\ UNCHANGED made
      /\ UNCHANGED <<hold, flow, taken, sdk, loop, service, count>>

\* A request made for an own event has an id of its own; the others are
\* registered once.
Register(h) ==
  LET e == hnd[h].ev
  IN  /\ hnd[h].pc = "register"
      /\ \/ /\ flow[e] # "none" /\ e \notin OwnEvents
            /\ End(h)
            /\ UNCHANGED <<flow, taken>>
         \/ /\ flow[e] = "none" \/ e \in OwnEvents
            /\ flow' = [flow EXCEPT ![e] = "live"]
            /\ taken' = taken \cup {e}
            /\ Go(h, IF e \in Starts THEN "wake" ELSE "clear")
      /\ UNCHANGED <<hold, made, handled, sdk, loop, service, count>>

\* mark and clear_candidate, once the flow stands.
clear_candidate(h) ==
  LET e == hnd[h].ev
  IN  /\ hnd[h].pc = "clear"
      /\ handled' = handled \cup {e}
      /\ hold' = [hold EXCEPT !.candidates = @ \ {RoomOf[e]},
                              !.pending = @ \ {RoomOf[e]}]
      /\ Go(h, "wake")
      /\ UNCHANGED <<flow, made, taken, sdk, loop, service, count>>

wake(h) ==
  /\ hnd[h].pc = "wake"
  /\ loop' = Woken
  /\ End(h)
  /\ UNCHANGED <<hold, flow, made, handled, taken, sdk, service, count>>

Handle(h) ==
  \/ seen(h) \/ Resolve(h) \/ Mint(h) \/ Register(h) \/ clear_candidate(h)
  \/ wake(h)

-----------------------------------------------------------------------------
(* The loop.                                                               *)

WakeUp ==
  /\ loop.pc = "wait" /\ loop.wake
  /\ loop' = [loop EXCEPT !.pc = "flows", !.wake = FALSE]
  /\ UNCHANGED <<hold, flow, made, handled, taken, sdk, hnd, service, count>>

Poll ==
  /\ loop.pc = "wait"
  /\ loop' = [loop EXCEPT !.pc = "poll", !.todo = sdk.invited,
                          !.joined = 0, !.entered = 0]
  /\ UNCHANGED <<hold, flow, made, handled, taken, sdk, hnd, service, count>>

Skip(r) == loop' = [loop EXCEPT !.todo = @ \ {r}]

\* The candidate is tracked; a new one wakes the loop.
add_candidate(r, counted, entered) ==
  /\ hold' = [hold EXCEPT !.candidates = @ \cup {r}]
  /\ loop' = [loop EXCEPT !.todo = @ \ {r}, !.joined = @ + counted,
                          !.entered = @ + entered,
                          !.wake = @ \/ r \notin hold.candidates]
  /\ sdk' = IF entered = 0 THEN sdk
            ELSE [sdk EXCEPT !.invited = @ \ {r}, !.joined = @ \cup {r}]

UnderCap == loop.joined < MaxJoins

\* join_candidate_invites, one invite: passed over, turned down, refused,
\* joined, or timed out, when the join may still happen.
join_candidate(r) ==
  /\ loop.pc = "poll" /\ r \in loop.todo
  /\ \/ /\ r \in hold.rejected
        /\ Skip(r)
        /\ UNCHANGED <<hold, sdk>>
     \/ /\ r \notin hold.rejected \cup sdk.contacts
        /\ hold' = [hold EXCEPT !.rejected = @ \cup {r}]
        /\ Skip(r)
        /\ UNCHANGED sdk
     \/ /\ r \in sdk.contacts \ hold.rejected
        /\ UnderCap
        /\ \/ Skip(r) /\ UNCHANGED <<hold, sdk>>
           \/ add_candidate(r, 1, 1)
           \/ add_candidate(r, 0, 1)
           \/ add_candidate(r, 0, 0)
  /\ UNCHANGED <<flow, made, handled, taken, hnd, service, count>>

\* The cap is reached, the gate is shut, or every invite has been seen.
PollEnds ==
  /\ loop.pc = "poll"
  /\ loop' = [loop EXCEPT !.pc = "flows", !.todo = {}]
  /\ UNCHANGED <<hold, flow, made, handled, taken, sdk, hnd, service, count>>

active_flow_rooms ==
  {RoomOf[e] : e \in {x \in Events \ OwnEvents : flow[x] = "live"}}
live_candidates == hold.candidates \cup hold.pending

\* maybe_resubscribe_verification_rooms reads the flows, then the held rooms,
\* each under its own lock, and tells the service what has changed.
ReadFlows ==
  /\ loop.pc = "flows"
  /\ loop' = [loop EXCEPT !.pc = "holds", !.desired = active_flow_rooms]
  /\ UNCHANGED <<hold, flow, made, handled, taken, sdk, hnd, service, count>>

ReadHolds ==
  LET desired == loop.desired \cup live_candidates
  IN  /\ loop.pc = "holds"
      /\ service' = IF desired = loop.subscribed THEN service ELSE desired
      /\ loop' = [loop EXCEPT !.pc = "wait", !.desired = {},
                              !.subscribed = desired]
      /\ UNCHANGED <<hold, flow, made, handled, taken, sdk, hnd, count>>

\* The run ends: its waker, its service and its handlers go, and its flows.
RunEnds ==
  /\ Up /\ count.restarts < MaxRestarts
  /\ loop' = [loop EXCEPT !.pc = "down", !.todo = {}, !.desired = {},
                          !.wake = FALSE]
  /\ service' = {}
  /\ hnd' = [h \in Handlers |->
               IF hnd[h].ev \in Starts THEN hnd[h] ELSE IdleHandler]
  /\ flow' = [e \in Events |-> IF flow[e] = "live" THEN "none" ELSE flow[e]]
  /\ count' = [count EXCEPT !.restarts = @ + 1]
  /\ UNCHANGED <<hold, made, handled, taken, sdk>>

\* register: a new run with an empty set, a wake and a fresh memory.
register ==
  /\ ~Up
  /\ loop' = IdleLoop
  /\ handled' = {}
  /\ taken' = {}
  /\ count' = [count EXCEPT !.lapses = [e \in Events |-> IF e \in handled THEN @[e] + 1
                                                       ELSE @[e]]]
  /\ UNCHANGED <<hold, flow, made, sdk, hnd, service>>

RunsLoop ==
  \/ WakeUp \/ PollEnds \/ ReadFlows \/ ReadHolds \/ register

Next ==
  \/ \E r \in Rooms : Invite(r) \/ Contact(r) \/ Expire(r) \/ join_candidate(r)
  \/ \E e \in Events : KeysArrive(e) \/ Lapse(e) \/ FlowEnds(e) \/ Swept(e)
  \/ \E h \in Handlers : Handle(h) \/ \E e \in Events : Deliver(h, e)
  \/ RunsLoop \/ Poll \/ RunEnds

Spec == Init /\ [][Next]_vars

\* The loop and the handlers go on, and the poll's timer fires.
Fairness ==
  /\ WF_vars(RunsLoop) /\ WF_vars(Poll)
  /\ \A h \in Handlers : WF_vars(Handle(h))

FairSpec == Spec /\ Fairness

-----------------------------------------------------------------------------
(* Properties.                                                             *)

\* The types of the state.
TypeOK ==
  /\ hold \in [candidates : SUBSET Rooms, pending : SUBSET Rooms,
               rejected : SUBSET Rooms]
  /\ flow \in [Events -> {"none", "live", "terminal"}]
  /\ made \in [Events -> Nat]
  /\ handled \subseteq Events /\ taken \subseteq Events
  /\ sdk.invited \subseteq Rooms /\ sdk.joined \subseteq Rooms
  /\ sdk.contacts \subseteq Rooms /\ sdk.known \subseteq Events
  /\ \A h \in Handlers :
       /\ hnd[h].pc \in {"idle", "seen", "resolve", "mint", "register", "clear",
                         "wake"}
       /\ (hnd[h].ev = None) = (hnd[h].pc = "idle")
       /\ hnd[h].ev \in Events \cup {None}
  /\ loop.pc \in {"wait", "poll", "flows", "holds", "down"}
  /\ loop.todo \subseteq sdk.invited
  /\ loop.joined \in 0..MaxJoins
  /\ loop.subscribed \subseteq Rooms
  /\ service \subseteq Rooms

\* What the loop should subscribe: rooms of live flows and held rooms.
Wanted == active_flow_rooms \cup live_candidates

\* A wanted room is eventually subscribed in the service itself, restarts and
\* half-seen handlers notwithstanding, unless it is no longer wanted
\* (maybe_resubscribe_verification_rooms, register).
WantedIsSubscribed ==
  \A r \in Rooms : []<>(r \in Wanted => r \in service)

\* A remembered event has led to a flow, or a handler is at it: the delivery
\* that failed is never the one that is remembered (HandledRoomEvents).
HandledIsTaken ==
  Up => \A e \in handled :
    e \in taken \/ \E h \in Handlers : hnd[h].ev = e /\ hnd[h].pc # "seen"

\* A room that is wanted is not unsubscribed while the run goes on
\* (on_incoming_room_request: clear_candidate after the registration).
WantedStaysStep ==
  \A r \in Rooms :
       r \in Wanted /\ r \in Wanted' /\ Up' /\ r \in service => r \in service'

\* WantedStaysStep, of every step.
WantedStays == [][WantedStaysStep]_vars

\* One event of our own user leads to one request at most for each time it is
\* remembered, however deliveries race and whichever attempts fail: the next one
\* needs its memory to lapse first, in time or with the run (mark_if_new, forget).
MintOnce == \A e \in Events : made[e] <= 1 + count.lapses[e]

\* At most MaxJoins invites are joined per poll (join_candidate_invites).
PollIsCapped == loop.entered <= MaxJoins

=============================================================================
