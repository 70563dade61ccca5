---------------------------- MODULE Verification ----------------------------
(***************************************************************************)
(* Interactive SAS verification of one account                             *)
(* (axon-sync/src/verification.rs): the registry of flows, the task that    *)
(* drives each one, the API's start, confirm and cancel, and the supervised *)
(* run (engine.rs) whose end must end the drivers.                          *)
(*                                                                          *)
(* The SDK is external: a request, and up to two SAS objects for it, ours   *)
(* and theirs, since both sides may start one and the peer's then replaces  *)
(* ours. A change stream holds the latest value only, so it is a flag that  *)
(* something changed. A stream cannot end before its driver, which holds    *)
(* the object, and peers keep to the SAS method, the only one offered.      *)
(***************************************************************************)
EXTENDS Naturals, Sequences, FiniteSets

CONSTANTS
  Flows,     \* flows, incoming or started through the API
  Outgoing,  \* those started through the API
  Calls,     \* confirm and cancel calls of the API
  FlowOf,    \* the flow a call names
  Confirms,  \* the confirm calls
  None,
  EarlyDone, \* whether a peer may send its done before its MAC
  MaxFails   \* failures of the supervised run

VerificationAssumption ==
  /\ Outgoing \subseteq Flows
  /\ FlowOf \in [Calls -> Flows]
  /\ Confirms \subseteq Calls
  /\ EarlyDone \in BOOLEAN
  /\ MaxFails \in Nat

VARIABLES
  sdk,    \* per flow, the SDK's request and SAS objects
  drv,    \* per flow, its driver
  reg,    \* per flow, its FlowEntry
  start,  \* per outgoing flow, its start call
  call,   \* the confirm and cancel calls
  acct,   \* row, lock, client slot, logout
  super   \* the supervised task

vars == <<sdk, drv, reg, start, call, acct, super>>

Objects == {"ours", "theirs"}

NewSdk ==
  [req |-> "none",      \* VerificationRequestState
   cur |-> None,        \* the SAS the request, or the SDK's cache, holds
   sas |-> [o \in Objects |-> "none"],
   mac |-> FALSE]       \* the peer's MAC has arrived

NewDriver ==
  [pc |-> "none", sas |-> None,
   look |-> FALSE,      \* pending_state
   news |-> FALSE,      \* the request has changed
   told |-> FALSE,      \* the SAS it drives has changed
   shown |-> None,      \* the outcome it published
   client |-> 0, aborted |-> FALSE]

NoEntry ==
  [in |-> FALSE, sas |-> None, terminal |-> None,
   stop |-> FALSE,      \* driver_cancel
   handle |-> FALSE]    \* driver_handle

Init ==
  /\ sdk = [f \in Flows |-> NewSdk]
  /\ drv = [f \in Flows |-> NewDriver]
  /\ reg = [f \in Flows |-> NoEntry]
  /\ start = [f \in Outgoing |-> "idle"]
  /\ call = [c \in Calls |-> [pc |-> "idle", sas |-> None]]
  /\ acct = [row |-> "active", lock |-> <<>>, client |-> 0, next |-> 1,
             logout |-> "idle"]
  /\ super = [pc |-> "connect", stop |-> FALSE, clean |-> FALSE, fails |-> 0,
              join |-> [f \in Flows |-> "none"]]

-----------------------------------------------------------------------------
(* The SDK.                                                                *)

Live(f) == sdk[f].req \in {"asked", "ready", "moved"}

\* The sync service hands the peer's events to the client of the current run.
Delivers(f) ==
  /\ super.pc = "up"
  /\ drv[f].pc # "none"
  /\ drv[f].client = acct.client

\* The driver has subscribed to the request since it was spawned, and to the
\* SAS object it drives.
Notified(f, s) ==
  [drv EXCEPT ![f].news = @ \/ s.req # sdk[f].req \/ s.cur # sdk[f].cur,
              ![f].told = @ \/ (/\ drv[f].sas # None
                                /\ s.sas[drv[f].sas] # sdk[f].sas[drv[f].sas])]

SdkStep(f, s) ==
  /\ Delivers(f)
  /\ sdk' = [sdk EXCEPT ![f] = s]
  /\ drv' = Notified(f, s)
  /\ UNCHANGED <<reg, start, call, acct, super>>

PeerReady(f) ==
  /\ sdk[f].req = "asked"
  /\ f \in Outgoing
  /\ SdkStep(f, [sdk[f] EXCEPT !.req = "ready"])

\* The peer starts a SAS: the first one, or one that wins over ours.
PeerStart(f) ==
  /\ \/ sdk[f].req = "ready"
     \/ sdk[f].req = "moved" /\ sdk[f].cur = "ours" /\ sdk[f].sas.ours = "new"
  /\ SdkStep(f, [sdk[f] EXCEPT !.req = "moved", !.cur = "theirs",
                               !.sas.theirs = "new"])

PeerAccept(f) ==
  /\ sdk[f].cur = "ours" /\ sdk[f].sas.ours = "new" /\ Live(f)
  /\ SdkStep(f, [sdk[f] EXCEPT !.sas.ours = "accepted"])

Keys(f) ==
  /\ Live(f) /\ sdk[f].cur # None /\ sdk[f].sas[sdk[f].cur] = "accepted"
  /\ SdkStep(f, [sdk[f] EXCEPT !.sas[sdk[f].cur] = "keys"])

PeerMac(f) ==
  /\ sdk[f].cur # None /\ ~sdk[f].mac
  /\ sdk[f].sas[sdk[f].cur] \in {"keys", "confirmed"}
  /\ SdkStep(f, [sdk[f] EXCEPT !.mac = TRUE])

\* The peer's done ends the request whatever its SAS says.
PeerDone(f) ==
  /\ sdk[f].req \in {"ready", "moved"}
  /\ EarlyDone \/ sdk[f].mac
  /\ SdkStep(f, [sdk[f] EXCEPT !.req = "done"])

\* A SAS is done once both MACs are in.
SasDone(f) ==
  /\ sdk[f].req = "done" /\ sdk[f].mac
  /\ sdk[f].cur # None /\ sdk[f].sas[sdk[f].cur] = "confirmed"
  /\ SdkStep(f, [sdk[f] EXCEPT !.sas[sdk[f].cur] = "done"])

\* A request, with its SAS, is cancelled: by the peer, by the SDK after ten
\* minutes, or by us. A SAS may be cancelled alone once its request is done.
CancelledSas(s, o) ==
  IF o = None \/ s.sas[o] \in {"none", "done"}
    THEN s ELSE [s EXCEPT !.sas[o] = "cancelled"]
Cancelled(f, o) ==
  LET s == CancelledSas(sdk[f], o)
  IN  IF Live(f) THEN [s EXCEPT !.req = "cancelled"] ELSE s

PeerCancel(f) ==
  /\ \/ Live(f)
     \/ /\ sdk[f].cur # None
        /\ sdk[f].sas[sdk[f].cur] \notin {"done", "cancelled"}
  /\ SdkStep(f, Cancelled(f, sdk[f].cur))

Peer(f) ==
  \/ PeerReady(f) \/ PeerStart(f) \/ PeerAccept(f) \/ Keys(f) \/ PeerMac(f)
  \/ PeerDone(f) \/ SasDone(f) \/ PeerCancel(f)

-----------------------------------------------------------------------------
(* Registering a flow. Entry, driver and handle appear under one lock.     *)

Registered(f, request, pc, client) ==
  /\ reg' = [reg EXCEPT ![f] = [NoEntry EXCEPT !.in = TRUE, !.handle = TRUE]]
  /\ sdk' = [sdk EXCEPT ![f].req = request]
  /\ drv' = [drv EXCEPT ![f] = [NewDriver EXCEPT !.pc = pc, !.look = TRUE,
                                                 !.client = client]]

\* on_incoming_request, on_incoming_room_request: once for a flow that is
\* tracked, and again for a redelivery after its entry is gone, when the SDK
\* still has the request.
on_incoming_request(f) ==
  /\ f \notin Outgoing
  /\ super.pc = "up"
  /\ ~reg[f].in
  /\ \/ drv[f].pc = "none" /\ Registered(f, "asked", "accept", acct.client)
     \/ /\ drv[f].pc = "ended" /\ drv[f].client = acct.client
        /\ Registered(f, sdk[f].req, "accept", acct.client)
  /\ UNCHANGED <<start, call, acct, super>>

-----------------------------------------------------------------------------
(* The driver. An aborted one gets no further than its next await.         *)

Running(f) == drv[f].pc \notin {"none", "ended"}
Goto(f, pc) == IF drv[f].aborted THEN "ended" ELSE pc

\* The account's token reaches the drivers of incoming flows only.
Stopped(f) == reg[f].stop \/ (super.stop /\ f \notin Outgoing)

mark_terminal(f, outcome) ==
  IF reg[f].in THEN [reg EXCEPT ![f].terminal = outcome] ELSE reg
remove_flow(f) == [reg EXCEPT ![f] = NoEntry]

finish_flow(f, outcome) ==
  /\ reg' = mark_terminal(f, outcome)
  /\ drv' = [drv EXCEPT ![f].pc = "ended", ![f].shown = outcome]
  /\ UNCHANGED sdk

\* cancel_verification_best_effort, whose send is then awaited; Removed follows.
Quit(f, o) ==
  /\ sdk' = [sdk EXCEPT ![f] = Cancelled(f, o)]
  /\ drv' = [drv EXCEPT ![f].pc = Goto(f, "quit")]
  /\ UNCHANGED reg

Removed(f) ==
  /\ drv[f].pc = "quit"
  /\ reg' = remove_flow(f)
  /\ drv' = [drv EXCEPT ![f].pc = "ended"]
  /\ UNCHANGED <<sdk, start, call, acct, super>>

\* An incoming request is accepted: sent, refused or timed out.
AcceptRequest(f) ==
  /\ drv[f].pc = "accept"
  /\ \/ /\ sdk' = IF sdk[f].req = "asked"
                    THEN [sdk EXCEPT ![f].req = "ready"] ELSE sdk
        /\ drv' = [drv EXCEPT ![f].pc = Goto(f, "loop"),
                              ![f].news = @ \/ sdk'[f].req # sdk[f].req]
        /\ UNCHANGED reg
     \/ /\ drv' = [drv EXCEPT ![f].pc = Goto(f, "loop")]
        /\ UNCHANGED <<sdk, reg>>
     \/ Quit(f, None)
  /\ UNCHANGED <<start, call, acct, super>>

\* sas_after_request_done: the entry's SAS, else the one the SDK still has.
sas_after_request_done(f) ==
  IF reg[f].in /\ reg[f].sas # None THEN reg[f].sas ELSE sdk[f].cur

Adopting(f, o) ==
  /\ drv' = [drv EXCEPT ![f].pc = Goto(f, "adopt"), ![f].sas = o,
                        ![f].news = IF drv[f].look THEN @ ELSE FALSE,
                        ![f].look = FALSE]
  /\ UNCHANGED <<sdk, reg>>

Waiting(f) ==
  /\ drv' = [drv EXCEPT ![f].pc = Goto(f, drv[f].pc),
                        ![f].news = IF drv[f].look THEN @ ELSE FALSE,
                        ![f].look = FALSE]
  /\ UNCHANGED <<sdk, reg>>

\* start_sas moves a ready request at once and then sends.
StartSas(f) ==
  /\ sdk' = [sdk EXCEPT ![f].req = "moved", ![f].cur = "ours",
                        ![f].sas.ours = "new"]
  /\ drv' = [drv EXCEPT ![f].pc = Goto(f, "start"), ![f].look = FALSE,
                        ![f].news = TRUE]
  /\ UNCHANGED reg

\* drive_request looks at the request's state.
RequestState(f) ==
  /\ drv[f].pc = "loop"
  /\ drv[f].look \/ drv[f].news
  /\ CASE sdk[f].req = "asked"     -> Waiting(f)
       [] sdk[f].req = "ready"     -> StartSas(f)
       [] sdk[f].req = "moved"     -> Adopting(f, sdk[f].cur)
       [] sdk[f].req = "cancelled" -> finish_flow(f, "cancelled")
       [] sdk[f].req = "done"      ->
            IF sas_after_request_done(f) # None
              THEN Adopting(f, sas_after_request_done(f))
              ELSE finish_flow(f, "cancelled")
  /\ UNCHANGED <<start, call, acct, super>>

\* The start was sent, was refused, or timed out.
SasStarted(f) ==
  /\ drv[f].pc = "start"
  /\ \/ /\ drv' = [drv EXCEPT ![f].pc = Goto(f, "adopt"), ![f].sas = "ours"]
        /\ UNCHANGED <<sdk, reg>>
     \/ /\ drv' = [drv EXCEPT ![f].pc = Goto(f, "loop")]
        /\ UNCHANGED <<sdk, reg>>
     \/ Quit(f, sdk[f].cur)
  /\ UNCHANGED <<start, call, acct, super>>

\* adopt_sas: the entry follows, and the peer's start is accepted.
adopt_sas(f) ==
  /\ drv[f].pc = "adopt"
  /\ reg' = IF reg[f].in THEN [reg EXCEPT ![f].sas = drv[f].sas] ELSE reg
  /\ sdk' = IF drv[f].sas = "theirs" /\ sdk[f].sas.theirs = "new"
              THEN [sdk EXCEPT ![f].sas.theirs = "accepted"] ELSE sdk
  /\ drv' = [drv EXCEPT ![f].pc = Goto(f, "accepting")]
  /\ UNCHANGED <<start, call, acct, super>>

\* The accept was sent or refused, or it timed out. drive_sas subscribes to
\* the SAS and reads its state; its subscription to the request is the old one.
Accepted(f) ==
  /\ drv[f].pc = "accepting"
  /\ \/ /\ drv' = [drv EXCEPT ![f].pc = Goto(f, "drive"), ![f].look = TRUE,
                              ![f].told = FALSE]
        /\ UNCHANGED <<sdk, reg>>
     \/ Quit(f, drv[f].sas)
  /\ UNCHANGED <<start, call, acct, super>>

Driven(f) == sdk[f].sas[drv[f].sas]

\* drive_sas looks at the state of its SAS.
SasState(f) ==
  /\ drv[f].pc = "drive"
  /\ drv[f].look \/ drv[f].told
  /\ CASE Driven(f) = "done"      -> finish_flow(f, "done")
       [] Driven(f) = "cancelled" -> finish_flow(f, "cancelled")
       [] OTHER -> /\ drv' = [drv EXCEPT ![f].pc = Goto(f, "drive"),
                                         ![f].told = drv[f].look /\ @,
                                         ![f].look = FALSE]
                   /\ UNCHANGED <<sdk, reg>>
  /\ UNCHANGED <<start, call, acct, super>>

request_done_is_verified(f) == Driven(f) = "done"

\* The two objects do not share a state, so another label is another object;
\* so may be the same one before the keys.
should_follow_sas_replacement(f) ==
  \/ Driven(f) # sdk[f].sas[sdk[f].cur]
  \/ Driven(f) = "new"

\* drive_sas looks at the request.
RequestChange(f) ==
  /\ drv[f].pc = "drive"
  /\ ~drv[f].look /\ drv[f].news
  /\ CASE sdk[f].req = "moved" ->
            IF should_follow_sas_replacement(f)
              THEN Adopting(f, sdk[f].cur) ELSE Waiting(f)
       [] sdk[f].req = "cancelled" -> finish_flow(f, "cancelled")
       [] sdk[f].req = "done" ->
            IF request_done_is_verified(f)
              THEN finish_flow(f, "done") ELSE Waiting(f)
  /\ UNCHANGED <<start, call, acct, super>>

\* The driver's token, seen only where the driver selects on it.
DriverCancelled(f) ==
  /\ Stopped(f)
  /\ \/ drv[f].pc = "loop" /\ ~drv[f].look /\ Quit(f, sdk[f].cur)
     \/ drv[f].pc = "drive" /\ ~drv[f].look /\ Quit(f, drv[f].sas)
  /\ UNCHANGED <<start, call, acct, super>>

Dropped(f) ==
  /\ Running(f) /\ drv[f].aborted
  /\ drv' = [drv EXCEPT ![f].pc = "ended"]
  /\ UNCHANGED <<sdk, reg, start, call, acct, super>>

DriverStep(f) ==
  \/ Removed(f) \/ AcceptRequest(f) \/ RequestState(f) \/ SasStarted(f)
  \/ adopt_sas(f) \/ Accepted(f) \/ SasState(f) \/ RequestChange(f)
  \/ DriverCancelled(f) \/ Dropped(f)

\* sweep_expired, by the verbs and by the reaper.
sweep_expired(f) ==
  /\ reg[f].in /\ reg[f].terminal # None
  /\ reg' = remove_flow(f)
  /\ UNCHANGED <<sdk, drv, start, call, acct, super>>

-----------------------------------------------------------------------------
(* The identity's lock, and the verbs that hold it.                        *)

Holds(who) == acct.lock # <<>> /\ Head(acct.lock) = who
Queue(who) == acct' = [acct EXCEPT !.lock = Append(@, who)]
Released(who) ==
  [acct EXCEPT !.lock = SelectSeq(@, LAMBDA x : x # who)]

\* get_or_connect: the slot's client, or a new one.
Connected(a) ==
  IF a.client # 0 THEN a
  ELSE [a EXCEPT !.client = a.next, !.next = a.next + 1]

StartCall(f) ==
  /\ start[f] = "idle"
  /\ start' = [start EXCEPT ![f] = "queued"]
  /\ Queue(<<"start", f>>)
  /\ UNCHANGED <<sdk, drv, reg, call, super>>

\* Under the lock: the account must be active, and its client is had.
StartLocked(f) ==
  /\ start[f] = "queued" /\ Holds(<<"start", f>>)
  /\ \/ /\ acct.row = "active"
        /\ start' = [start EXCEPT ![f] = "asking"]
        /\ acct' = Connected(acct)
        /\ drv' = [drv EXCEPT ![f].client = acct'.client]
     \/ /\ start' = [start EXCEPT ![f] = "refused"]
        /\ acct' = Released(<<"start", f>>)
        /\ UNCHANGED drv
  /\ UNCHANGED <<sdk, reg, call, super>>

\* The request has been sent, and the flow is registered with that client.
StartSent(f) ==
  /\ start[f] = "asking"
  /\ \/ /\ start' = [start EXCEPT ![f] = "started"]
        /\ Registered(f, "asked", "loop", drv[f].client)
     \/ /\ start' = [start EXCEPT ![f] = "refused"]
        /\ UNCHANGED <<sdk, drv, reg>>
  /\ acct' = Released(<<"start", f>>)
  /\ UNCHANGED <<call, super>>

CallQueue(c) ==
  /\ call[c].pc = "idle" /\ reg[FlowOf[c]].in
  /\ call' = [call EXCEPT ![c].pc = "queued"]
  /\ Queue(<<"call", c>>)
  /\ UNCHANGED <<sdk, drv, reg, start, super>>

\* lock_active: the row is read again under the lock, which is kept.
lock_active(c) ==
  /\ call[c].pc = "queued" /\ Holds(<<"call", c>>)
  /\ IF acct.row = "active"
       THEN /\ call' = [call EXCEPT ![c].pc = "active"]
            /\ UNCHANGED acct
       ELSE /\ call' = [call EXCEPT ![c].pc = "ended"]
            /\ acct' = Released(<<"call", c>>)
  /\ UNCHANGED <<sdk, drv, reg, start, super>>

\* The flow must be live, and a confirm needs its keys exchanged.
MaySend(c) ==
  LET f == FlowOf[c]
  IN  /\ reg[f].in /\ reg[f].terminal = None
      /\ c \in Confirms => /\ reg[f].sas # None
                           /\ sdk[f].sas[reg[f].sas] = "keys"

Confirmed(f, o) ==
  [sdk[f] EXCEPT !.sas[o] =
     IF o = sdk[f].cur /\ sdk[f].mac /\ sdk[f].req = "done"
       THEN "done" ELSE "confirmed"]

\* Our MAC or our cancel is sent.
CallSend(c) ==
  LET f == FlowOf[c]
      s == IF c \in Confirms THEN Confirmed(f, reg[f].sas)
                             ELSE Cancelled(f, reg[f].sas)
  IN  /\ call[c].pc = "active"
      /\ IF MaySend(c)
           THEN /\ sdk' = [sdk EXCEPT ![f] = s]
                /\ drv' = Notified(f, s)
                /\ call' = [call EXCEPT ![c] =
                              [pc |-> "sent", sas |-> reg[f].sas]]
                /\ UNCHANGED acct
           ELSE /\ call' = [call EXCEPT ![c].pc = "ended"]
                /\ acct' = Released(<<"call", c>>)
                /\ UNCHANGED <<sdk, drv>>
      /\ UNCHANGED <<reg, start, super>>

\* The send has ended. A confirm whose SAS is done by now says so itself.
CallSent(c) ==
  LET f == FlowOf[c]
  IN  /\ call[c].pc = "sent"
      /\ reg' = IF c \in Confirms /\ sdk[f].sas[call[c].sas] = "done"
                  THEN mark_terminal(f, "done") ELSE reg
      /\ call' = [call EXCEPT ![c].pc = "ended"]
      /\ acct' = Released(<<"call", c>>)
      /\ UNCHANGED <<sdk, drv, start, super>>

\* Logout: the row, the supervised task, then the client.
LogoutQueue ==
  /\ acct.logout = "idle"
  /\ acct' = [acct EXCEPT !.logout = "queued", !.lock = Append(@, <<"logout">>)]
  /\ UNCHANGED <<sdk, drv, reg, start, call, super>>

LogoutLocked ==
  /\ acct.logout = "queued" /\ Holds(<<"logout">>)
  /\ acct' = [acct EXCEPT !.logout = "reap", !.row = "off"]
  /\ super' = [super EXCEPT !.stop = TRUE]
  /\ UNCHANGED <<sdk, drv, reg, start, call>>

LogoutReaped ==
  /\ acct.logout = "reap" /\ super.pc = "ended"
  /\ acct' = [Released(<<"logout">>) EXCEPT !.logout = "ended", !.client = 0]
  /\ UNCHANGED <<sdk, drv, reg, start, call, super>>

-----------------------------------------------------------------------------
(* The supervised task.                                                    *)

\* supervise_account checks its token, then run_account takes the client.
RunConnect ==
  /\ super.pc = "connect"
  /\ \/ /\ super.stop
        /\ super' = [super EXCEPT !.pc = "ended"]
        /\ UNCHANGED acct
     \/ /\ ~super.stop
        /\ super' = [super EXCEPT !.pc = "build"]
        /\ acct' = Connected(acct)
  /\ UNCHANGED <<sdk, drv, reg, start, call>>

\* The sync service is built, or the run fails here without a sweep. A failed
\* run's task queues for the identity's lock.
RunBuilt ==
  /\ super.pc = "build"
  /\ \/ /\ super' = [super EXCEPT !.pc = "up"]
        /\ UNCHANGED acct
     \/ /\ super.fails < MaxFails
        /\ super' = [super EXCEPT !.pc = "evict", !.fails = @ + 1]
        /\ Queue(<<"super">>)
  /\ UNCHANGED <<sdk, drv, reg, start, call>>

\* The run's loop ends and its service stops, handlers included.
RunEnds ==
  /\ super.pc = "up"
  /\ \/ super.stop /\ super' = [super EXCEPT !.pc = "sweep", !.clean = TRUE]
     \/ /\ super.fails < MaxFails
        /\ super' = [super EXCEPT !.pc = "sweep", !.fails = @ + 1]
  /\ UNCHANGED <<sdk, drv, reg, start, call, acct>>

\* Mutant: the drivers are signalled and not waited for.
SignalOnly ==
  /\ super.pc = "sweep"
  /\ reg' = [f \in Flows |-> [reg[f] EXCEPT !.stop = @ \/ reg[f].in]]
  /\ super' = [super EXCEPT !.pc = "join"]
  /\ UNCHANGED <<sdk, drv, start, call, acct>>

\* cancel_account_flows: signal every live flow and take its handle.
cancel_account_flows ==
  LET live == {f \in Flows : reg[f].in /\ reg[f].terminal = None}
  IN  /\ super.pc = "sweep"
      /\ reg' = [f \in Flows |->
                   IF f \in live
                     THEN [reg[f] EXCEPT !.stop = TRUE, !.handle = FALSE]
                     ELSE reg[f]]
      /\ super' = [super EXCEPT
                     !.pc = "join",
                     !.join = [f \in Flows |->
                                 IF f \in live /\ reg[f].handle
                                   THEN "wait" ELSE "none"]]
      /\ UNCHANGED <<sdk, drv, start, call, acct>>

\* join_or_abort_drivers, per driver: it ends, or it is aborted in time.
Joined(f) ==
  /\ super.join[f] = "wait" /\ drv[f].pc = "ended"
  /\ super' = [super EXCEPT !.join[f] = "none"]
  /\ UNCHANGED <<sdk, drv, reg, start, call, acct>>

JoinTimeout(f) ==
  /\ super.join[f] = "wait" /\ Running(f)
  /\ drv' = [drv EXCEPT ![f].aborted = TRUE]
  /\ super' = [super EXCEPT !.join[f] = "aborted"]
  /\ UNCHANGED <<sdk, reg, start, call, acct>>

StillPending(f) ==
  /\ super.join[f] = "aborted"
  /\ super' = [super EXCEPT !.join[f] =
                 IF reg[f].in /\ reg[f].terminal = None
                   THEN "remove" ELSE "none"]
  /\ UNCHANGED <<sdk, drv, reg, start, call, acct>>

RemoveAborted(f) ==
  /\ super.join[f] = "remove"
  /\ reg' = remove_flow(f)
  /\ super' = [super EXCEPT !.join[f] = "none"]
  /\ UNCHANGED <<sdk, drv, start, call, acct>>

RunReturns ==
  /\ super.pc = "join"
  /\ \A f \in Flows : super.join[f] = "none"
  /\ \/ /\ super.clean
        /\ super' = [super EXCEPT !.pc = "ended"]
        /\ UNCHANGED acct
     \/ /\ ~super.clean
        /\ super' = [super EXCEPT !.pc = "evict"]
        /\ Queue(<<"super">>)
  /\ UNCHANGED <<sdk, drv, reg, start, call>>

\* The failed run's client is evicted under the identity's lock, unless the
\* task is stopped first.
Evict ==
  /\ super.pc = "evict"
  /\ \/ /\ super.stop
        /\ super' = [super EXCEPT !.pc = "ended"]
        /\ acct' = Released(<<"super">>)
     \/ /\ Holds(<<"super">>)
        /\ super' = [super EXCEPT !.pc = "connect"]
        /\ acct' = [Released(<<"super">>) EXCEPT !.client = 0]
  /\ UNCHANGED <<sdk, drv, reg, start, call>>

-----------------------------------------------------------------------------

Join(f) == Joined(f) \/ JoinTimeout(f) \/ StillPending(f) \/ RemoveAborted(f)
Supervise ==
  \/ RunConnect \/ RunBuilt \/ RunEnds \/ cancel_account_flows \/ RunReturns
  \/ Evict \/ \E f \in Flows : Join(f)
Logout == LogoutQueue \/ LogoutLocked \/ LogoutReaped
Start(f) == StartCall(f) \/ StartLocked(f) \/ StartSent(f)
Call(c) == CallQueue(c) \/ lock_active(c) \/ CallSend(c) \/ CallSent(c)

Next ==
  \/ \E f \in Flows : Peer(f) \/ on_incoming_request(f) \/ DriverStep(f)
                      \/ sweep_expired(f)
  \/ \E f \in Outgoing : Start(f)
  \/ \E c \in Calls : Call(c)
  \/ Logout \/ Supervise

Spec == Init /\ [][Next]_vars

\* Drivers, supervisor, API calls and logout go on; a request the peer forgot
\* is cancelled by the SDK while its client syncs; the reaper sweeps.
Fairness ==
  /\ \A f \in Flows : /\ WF_vars(DriverStep(f))
                       /\ WF_vars(sweep_expired(f))
                       /\ WF_vars(PeerCancel(f))
                       /\ WF_vars(Join(f))
  /\ \A f \in Outgoing : WF_vars(StartLocked(f) \/ StartSent(f))
  /\ \A c \in Calls : WF_vars(lock_active(c) \/ CallSend(c) \/ CallSent(c))
  /\ WF_vars(LogoutLocked \/ LogoutReaped)
  /\ WF_vars(RunConnect) /\ WF_vars(RunBuilt) /\ WF_vars(cancel_account_flows)
  /\ WF_vars(RunReturns) /\ WF_vars(Evict)
  /\ WF_vars(super.stop /\ RunEnds)

FairSpec == Spec /\ Fairness

-----------------------------------------------------------------------------
(* Properties.                                                             *)

Outcomes == {None, "done", "cancelled"}
SasObjects == Objects \cup {None}

\* The types of the state.
TypeOK ==
  /\ \A f \in Flows :
       /\ sdk[f].req \in {"none", "asked", "ready", "moved", "done", "cancelled"}
       /\ sdk[f].cur \in SasObjects /\ sdk[f].mac \in BOOLEAN
       /\ \A o \in Objects :
            sdk[f].sas[o] \in {"none", "new", "accepted", "keys", "confirmed",
                              "done", "cancelled"}
       /\ drv[f].pc \in {"none", "accept", "loop", "start", "adopt",
                         "accepting", "drive", "quit", "ended"}
       /\ drv[f].sas \in SasObjects /\ drv[f].shown \in Outcomes
       /\ {drv[f].look, drv[f].news, drv[f].told, drv[f].aborted} \subseteq BOOLEAN
       /\ drv[f].client \in 0..(acct.next - 1)
       /\ {reg[f].in, reg[f].stop, reg[f].handle} \subseteq BOOLEAN
       /\ reg[f].sas \in SasObjects /\ reg[f].terminal \in Outcomes
       /\ super.join[f] \in {"none", "wait", "aborted", "remove"}
  /\ start \in [Outgoing -> {"idle", "queued", "asking", "started", "refused"}]
  /\ \A c \in Calls : /\ call[c].pc \in {"idle", "queued", "active", "sent", "ended"}
                       /\ call[c].sas \in SasObjects
  /\ acct.row \in {"active", "off"}
  /\ acct.logout \in {"idle", "queued", "reap", "ended"}
  /\ acct.client \in 0..(acct.next - 1)
  /\ super.pc \in {"connect", "build", "up", "sweep", "join", "evict", "ended"}
  /\ {super.stop, super.clean} \subseteq BOOLEAN
  /\ super.fails \in 0..MaxFails

\* A flow is shown as done, in its entry or in a frame, only when one of its
\* SAS objects is done: the peer's m.key.verification.done alone proves
\* nothing (request_done_is_verified, drive_request's Done).
DoneIsVerified ==
  \A f \in Flows :
    "done" \in {reg[f].terminal, drv[f].shown} =>
      \E o \in Objects : sdk[f].sas[o] = "done"

\* A driver that has seen everything drives the SAS the SDK drives, and
\* confirm reads the same one from the entry: a replacement after a dual
\* start is never missed (drive_sas).
DrivesCurrent ==
  \A f \in Flows :
    drv[f].pc = "drive" /\ ~drv[f].look =>
      /\ ~drv[f].news /\ sdk[f].req = "moved" => drv[f].sas = sdk[f].cur
      /\ reg[f].in => reg[f].sas = drv[f].sas

\* Every live entry has a driver, or an aborting join that will remove it: an
\* entry without one would never be swept (remove_flow,
\* join_or_abort_drivers).
EntryHasDriver ==
  \A f \in Flows :
    reg[f].in /\ reg[f].terminal = None =>
      Running(f) \/ super.join[f] \in {"aborted", "remove"}

\* A driver that is not being aborted belongs to the account's client: it
\* never outlives the run that owned it (cancel_account_flows, start).
DriverHasClient ==
  \A f \in Flows :
    Running(f) /\ ~drv[f].aborted => drv[f].client = acct.client

\* Only an entry without an outcome is removed behind an aborted driver
\* (join_or_abort_drivers).
RemovesPending ==
  \A f \in Flows : super.join[f] = "remove" => reg[f].terminal = None

\* Our MAC leaves only for an account that is active: confirm holds the lock
\* that logout holds (lock_active).
MacNeedsActiveStep ==
  \A f \in Flows, o \in Objects :
       sdk[f].sas[o] = "keys" /\ sdk'[f].sas[o] \in {"confirmed", "done"} =>
         acct.row = "active"

\* MacNeedsActiveStep, of every step.
MacNeedsActive == [][MacNeedsActiveStep]_vars

\* Every tracked flow is eventually dropped from the registry.
FlowEnds == \A f \in Flows : []<>~reg[f].in

=============================================================================
