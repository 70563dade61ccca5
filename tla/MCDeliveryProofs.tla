-------------------------- MODULE MCDeliveryProofs --------------------------
(***************************************************************************)
(* The scenes of push notifications and of live updates in MCDelivery,     *)
(* from the theorems of DeliveryProofs: what TLC checks of them on the     *)
(* instances of the run is what the inductive invariants say for every     *)
(* value of the constants. A step of MCDelivery is a step of its scene, so *)
(* that the invariant of the scene's component is kept.                    *)
(***************************************************************************)
EXTENDS MCDelivery, TLAPS

-----------------------------------------------------------------------------
(* The proofs, of the instances that the scenes are of.                      *)

\* Of "routing", "answering" and "fanning".
Routed == INSTANCE DeliveryProofs WITH
  Rooms <- {r1}, Accounts <- {a1}, Account <- [r \in {r1} |-> a1], Apns <- {ap},
  Fcm <- {fc}, Permits <- 1, Capacity <- 2, MaxCount <- 1, MaxHighlight <- 1, MaxObs <- 3,
  PushApns <- {ap}, PushFcm <- {}, Sessions <- {s1, s2}, Tasks <- {z1}, MaxClock <- 3,
  MaxBearer <- 0, MaxErrors <- 1,
  Listed <- {r1, r2}, Clients <- {c1}, MaxPending <- 2, Backlog <- 3, Busy <- FALSE,
  MaxChanges <- 2, MaxConnects <- 2, MaxFaults <- 1

\* Of "badging" and "sending".
Badged == INSTANCE DeliveryProofs WITH
  Rooms <- {r1}, Accounts <- {a1}, Account <- [r \in {r1} |-> a1], Apns <- {ap}, Fcm <- {},
  Permits <- 1, Capacity <- 2, MaxCount <- 1, MaxHighlight <- 1, MaxObs <- 4,
  PushApns <- {ap}, PushFcm <- {}, Sessions <- {s1, s2}, Tasks <- {t1, t2}, MaxClock <- 2,
  MaxBearer <- 0, MaxErrors <- 1,
  Listed <- {}, Clients <- {}, MaxPending <- 1, Backlog <- 1, Busy <- FALSE,
  MaxChanges <- 0, MaxConnects <- 0, MaxFaults <- 0

\* Of "ordering" and "bearing".
Ordered == INSTANCE DeliveryProofs WITH
  Rooms <- {r1}, Accounts <- {a1}, Account <- [r \in {r1} |-> a1], Apns <- {}, Fcm <- {fc},
  Permits <- 2, Capacity <- 2, MaxCount <- 1, MaxHighlight <- 1, MaxObs <- 4,
  PushApns <- {}, PushFcm <- {fc}, Sessions <- {z1}, Tasks <- {t1, t2}, MaxClock <- 1,
  MaxBearer <- 3, MaxErrors <- 1,
  Listed <- {}, Clients <- {}, MaxPending <- 1, Backlog <- 1, Busy <- FALSE,
  MaxChanges <- 0, MaxConnects <- 0, MaxFaults <- 0

-----------------------------------------------------------------------------
(* The instances of the scenes and of the proofs have the same steps: the    *)
(* definitions are the same, expanded with the same values.                  *)

LEMMA RoutingSteps == (Routing!Init => Routed!Init) /\ (Routing!Next => Routed!Next)
<1>1. /\ \A q, keep : Routing!retain(q, keep) = Routed!retain(q, keep)
      /\ \A o, d : Routing!jobs_for(o, d) = Routed!jobs_for(o, d)
      /\ \A S : Routing!Cardinality(S) = Routed!Cardinality(S)
  BY Zenon DEF Routing!retain, Routed!retain, Routing!Cardinality, Routed!Cardinality,
     Routing!jobs_for, Routed!jobs_for, Routing!Devices, Routed!Devices
<1>2. \A m, o : Routing!decide(m, o) = Routed!decide(m, o)
  BY DEF Routing!decide, Routed!decide, Routing!NoPair, Routed!NoPair, Routing!Stored,
     Routed!Stored, Routing!Decision, Routed!Decision, Routing!Absent, Routed!Absent,
     Routing!Rose, Routed!Rose, Routing!Release, Routed!Release, Routing!Fell, Routed!Fell
<1>3. Routing!Init => Routed!Init
  BY DEF Routing!Init, Routed!Init, Routing!Absent, Routed!Absent, Routing!Idle, Routed!Idle,
     Routing!NoControl, Routed!NoControl, Routing!Keys, Routed!Keys, Routing!NoPair,
     Routed!NoPair, Routing!Devices, Routed!Devices
<1>4. Routing!Next => Routed!Next
  BY <1>1, <1>2 DEF Routing!Next, Routed!Next, Routing!Produce, Routed!Produce, Routing!Route,
     Routed!Route, Routing!Expire, Routed!Expire, Routing!Check, Routed!Check, Routing!Finish,
     Routed!Finish, Routing!Pairs, Routed!Pairs, Routing!Count, Routed!Count, Routing!Message,
     Routed!Message, Routing!RoomDropped, Routed!RoomDropped, Routing!Lagged, Routed!Lagged,
     Routing!AccountRemoved, Routed!AccountRemoved, Routing!ApplyObservation,
     Routed!ApplyObservation, Routing!EnqueueJob, Routed!EnqueueJob, Routing!ApplyControl,
     Routed!ApplyControl, Routing!Finished, Routed!Finished, Routing!Pump, Routed!Pump,
     Routing!Idle, Routed!Idle, Routing!NoPair, Routed!NoPair, Routing!producers,
     Routed!producers, Routing!scheduler, Routed!scheduler, Routing!history, Routed!history,
     Routing!KeyOf, Routed!KeyOf, Routing!observe, Routed!observe, Routing!NoControl,
     Routed!NoControl, Routing!enqueue, Routed!enqueue, Routing!Absent, Routed!Absent,
     Routing!KeptJob, Routed!KeptJob, Routing!Dropped, Routed!Dropped, Routing!Without,
     Routed!Without, Routing!Keys, Routed!Keys, Routing!Devices, Routed!Devices, Routing!With,
     Routed!With, Routing!Queued, Routed!Queued, Routing!start_job, Routed!start_job
<1> QED
  BY <1>3, <1>4

LEMMA BadgingSteps == (Badging!Init => Badged!Init) /\ (Badging!Next => Badged!Next)
<1>1. /\ \A q, keep : Badging!retain(q, keep) = Badged!retain(q, keep)
      /\ \A o, d : Badging!jobs_for(o, d) = Badged!jobs_for(o, d)
      /\ \A S : Badging!Cardinality(S) = Badged!Cardinality(S)
  BY Zenon DEF Badging!retain, Badged!retain, Badging!Cardinality, Badged!Cardinality,
     Badging!jobs_for, Badged!jobs_for, Badging!Devices, Badged!Devices
<1>2. \A m, o : Badging!decide(m, o) = Badged!decide(m, o)
  BY DEF Badging!decide, Badged!decide, Badging!NoPair, Badged!NoPair, Badging!Stored,
     Badged!Stored, Badging!Decision, Badged!Decision, Badging!Absent, Badged!Absent,
     Badging!Rose, Badged!Rose, Badging!Release, Badged!Release, Badging!Fell, Badged!Fell
<1>3. Badging!Init => Badged!Init
  BY DEF Badging!Init, Badged!Init, Badging!Absent, Badged!Absent, Badging!Idle, Badged!Idle,
     Badging!NoControl, Badged!NoControl, Badging!Keys, Badged!Keys, Badging!NoPair,
     Badged!NoPair, Badging!Devices, Badged!Devices
<1>4. Badging!Next => Badged!Next
  BY <1>1, <1>2 DEF Badging!Next, Badged!Next, Badging!Produce, Badged!Produce, Badging!Route,
     Badged!Route, Badging!Expire, Badged!Expire, Badging!Check, Badged!Check, Badging!Finish,
     Badged!Finish, Badging!Pairs, Badged!Pairs, Badging!Count, Badged!Count, Badging!Message,
     Badged!Message, Badging!RoomDropped, Badged!RoomDropped, Badging!Lagged, Badged!Lagged,
     Badging!AccountRemoved, Badged!AccountRemoved, Badging!ApplyObservation,
     Badged!ApplyObservation, Badging!EnqueueJob, Badged!EnqueueJob, Badging!ApplyControl,
     Badged!ApplyControl, Badging!Finished, Badged!Finished, Badging!Pump, Badged!Pump,
     Badging!Idle, Badged!Idle, Badging!NoPair, Badged!NoPair, Badging!producers,
     Badged!producers, Badging!scheduler, Badged!scheduler, Badging!history, Badged!history,
     Badging!KeyOf, Badged!KeyOf, Badging!observe, Badged!observe, Badging!NoControl,
     Badged!NoControl, Badging!enqueue, Badged!enqueue, Badging!Absent, Badged!Absent,
     Badging!KeptJob, Badged!KeptJob, Badging!Dropped, Badged!Dropped, Badging!Without,
     Badged!Without, Badging!Keys, Badged!Keys, Badging!Devices, Badged!Devices, Badging!With,
     Badged!With, Badging!Queued, Badged!Queued, Badging!start_job, Badged!start_job
<1> QED
  BY <1>3, <1>4

LEMMA OrderingSteps == (Ordering!Init => Ordered!Init) /\ (Ordering!Next => Ordered!Next)
<1>1. /\ \A q, keep : Ordering!retain(q, keep) = Ordered!retain(q, keep)
      /\ \A o, d : Ordering!jobs_for(o, d) = Ordered!jobs_for(o, d)
      /\ \A S : Ordering!Cardinality(S) = Ordered!Cardinality(S)
  BY Zenon DEF Ordering!retain, Ordered!retain, Ordering!Cardinality, Ordered!Cardinality,
     Ordering!jobs_for, Ordered!jobs_for, Ordering!Devices, Ordered!Devices
<1>2. \A m, o : Ordering!decide(m, o) = Ordered!decide(m, o)
  BY DEF Ordering!decide, Ordered!decide, Ordering!NoPair, Ordered!NoPair, Ordering!Stored,
     Ordered!Stored, Ordering!Decision, Ordered!Decision, Ordering!Absent, Ordered!Absent,
     Ordering!Rose, Ordered!Rose, Ordering!Release, Ordered!Release, Ordering!Fell,
     Ordered!Fell
<1>3. Ordering!Init => Ordered!Init
  BY DEF Ordering!Init, Ordered!Init, Ordering!Absent, Ordered!Absent, Ordering!Idle,
     Ordered!Idle, Ordering!NoControl, Ordered!NoControl, Ordering!Keys, Ordered!Keys,
     Ordering!NoPair, Ordered!NoPair, Ordering!Devices, Ordered!Devices
<1>4. Ordering!Next => Ordered!Next
  BY <1>1, <1>2 DEF Ordering!Next, Ordered!Next, Ordering!Produce, Ordered!Produce,
     Ordering!Route, Ordered!Route, Ordering!Expire, Ordered!Expire, Ordering!Check,
     Ordered!Check, Ordering!Finish, Ordered!Finish, Ordering!Pairs, Ordered!Pairs,
     Ordering!Count, Ordered!Count, Ordering!Message, Ordered!Message, Ordering!RoomDropped,
     Ordered!RoomDropped, Ordering!Lagged, Ordered!Lagged, Ordering!AccountRemoved,
     Ordered!AccountRemoved, Ordering!ApplyObservation, Ordered!ApplyObservation,
     Ordering!EnqueueJob, Ordered!EnqueueJob, Ordering!ApplyControl, Ordered!ApplyControl,
     Ordering!Finished, Ordered!Finished, Ordering!Pump, Ordered!Pump, Ordering!Idle,
     Ordered!Idle, Ordering!NoPair, Ordered!NoPair, Ordering!producers, Ordered!producers,
     Ordering!scheduler, Ordered!scheduler, Ordering!history, Ordered!history, Ordering!KeyOf,
     Ordered!KeyOf, Ordering!observe, Ordered!observe, Ordering!NoControl, Ordered!NoControl,
     Ordering!enqueue, Ordered!enqueue, Ordering!Absent, Ordered!Absent, Ordering!KeptJob,
     Ordered!KeptJob, Ordering!Dropped, Ordered!Dropped, Ordering!Without, Ordered!Without,
     Ordering!Keys, Ordered!Keys, Ordering!Devices, Ordered!Devices, Ordering!With,
     Ordered!With, Ordering!Queued, Ordered!Queued, Ordering!start_job, Ordered!start_job
<1> QED
  BY <1>3, <1>4

LEMMA SendingSteps == (Sending!Init => Badged!Push!Init) /\ (Sending!Next => Badged!Push!Next)
  BY Zenon DEF Sending!Init, Badged!Push!Init, Sending!live, Badged!Push!live,
     Sending!Devices, Badged!Push!Devices, Sending!NoRow, Badged!Push!NoRow, Sending!NoTask,
     Badged!Push!NoTask, Sending!Next, Badged!Push!Next, Sending!Client, Badged!Push!Client,
     Sending!Reap, Badged!Push!Reap, Sending!Reload, Badged!Push!Reload, Sending!ReloadTick,
     Badged!Push!ReloadTick, Sending!BearerAges, Badged!Push!BearerAges, Sending!KeyRotates,
     Badged!Push!KeyRotates, Sending!Start, Badged!Push!Start, Sending!Send, Badged!Push!Send,
     Sending!PutRegistration, Badged!Push!PutRegistration, Sending!DeleteRegistration,
     Badged!Push!DeleteRegistration, Sending!Die, Badged!Push!Die, Sending!RevokeSession,
     Badged!Push!RevokeSession, Sending!ExpireSession, Badged!Push!ExpireSession,
     Sending!OfSessions, Badged!Push!OfSessions, Sending!fcm, Badged!Push!fcm, Sending!Listed,
     Badged!Push!Listed, Sending!Fail, Badged!Push!Fail, Sending!store, Badged!Push!store,
     Sending!Started, Badged!Push!Started, Sending!Check, Badged!Push!Check, Sending!Cancel,
     Badged!Push!Cancel, Sending!Bearer, Badged!Push!Bearer, Sending!Refresh,
     Badged!Push!Refresh, Sending!Mint, Badged!Push!Mint, Sending!Keep, Badged!Push!Keep,
     Sending!Sent, Badged!Push!Sent, Sending!BearerRejected, Badged!Push!BearerRejected,
     Sending!Unregistered, Badged!Push!Unregistered, Sending!Rejected, Badged!Push!Rejected,
     Sending!Delete, Badged!Push!Delete, Sending!Upserted, Badged!Push!Upserted,
     Sending!IsRow, Badged!Push!IsRow, Sending!TargetOf, Badged!Push!TargetOf,
     Sending!Current, Badged!Push!Current, Sending!End, Badged!Push!End, Sending!Next_phase,
     Badged!Push!Next_phase, Sending!Goto, Badged!Push!Goto, Sending!Refreshing,
     Badged!Push!Refreshing

LEMMA BearingSteps == (Bearing!Init => Ordered!Push!Init) /\ (Bearing!Next => Ordered!Push!Next)
  BY Zenon DEF Bearing!Init, Ordered!Push!Init, Bearing!live, Ordered!Push!live,
     Bearing!Devices, Ordered!Push!Devices, Bearing!NoRow, Ordered!Push!NoRow, Bearing!NoTask,
     Ordered!Push!NoTask, Bearing!Next, Ordered!Push!Next, Bearing!Client,
     Ordered!Push!Client, Bearing!Reap, Ordered!Push!Reap, Bearing!Reload,
     Ordered!Push!Reload, Bearing!ReloadTick, Ordered!Push!ReloadTick, Bearing!BearerAges,
     Ordered!Push!BearerAges, Bearing!KeyRotates, Ordered!Push!KeyRotates, Bearing!Start,
     Ordered!Push!Start, Bearing!Send, Ordered!Push!Send, Bearing!PutRegistration,
     Ordered!Push!PutRegistration, Bearing!DeleteRegistration,
     Ordered!Push!DeleteRegistration, Bearing!Die, Ordered!Push!Die, Bearing!RevokeSession,
     Ordered!Push!RevokeSession, Bearing!ExpireSession, Ordered!Push!ExpireSession,
     Bearing!OfSessions, Ordered!Push!OfSessions, Bearing!fcm, Ordered!Push!fcm,
     Bearing!Listed, Ordered!Push!Listed, Bearing!Fail, Ordered!Push!Fail, Bearing!store,
     Ordered!Push!store, Bearing!Started, Ordered!Push!Started, Bearing!Check,
     Ordered!Push!Check, Bearing!Cancel, Ordered!Push!Cancel, Bearing!Bearer,
     Ordered!Push!Bearer, Bearing!Refresh, Ordered!Push!Refresh, Bearing!Mint,
     Ordered!Push!Mint, Bearing!Keep, Ordered!Push!Keep, Bearing!Sent, Ordered!Push!Sent,
     Bearing!BearerRejected, Ordered!Push!BearerRejected, Bearing!Unregistered,
     Ordered!Push!Unregistered, Bearing!Rejected, Ordered!Push!Rejected, Bearing!Delete,
     Ordered!Push!Delete, Bearing!Upserted, Ordered!Push!Upserted, Bearing!IsRow,
     Ordered!Push!IsRow, Bearing!TargetOf, Ordered!Push!TargetOf, Bearing!Current,
     Ordered!Push!Current, Bearing!End, Ordered!Push!End, Bearing!Next_phase,
     Ordered!Push!Next_phase, Bearing!Goto, Ordered!Push!Goto, Bearing!Refreshing,
     Ordered!Push!Refreshing

LEMMA AnsweringSteps == (Answering!Init => Routed!Push!Init) /\ (Answering!Next => Routed!Push!Next)
  BY Zenon DEF Answering!Init, Routed!Push!Init, Answering!live, Routed!Push!live,
     Answering!Devices, Routed!Push!Devices, Answering!NoRow, Routed!Push!NoRow,
     Answering!NoTask, Routed!Push!NoTask, Answering!Next, Routed!Push!Next, Answering!Client,
     Routed!Push!Client, Answering!Reap, Routed!Push!Reap, Answering!Reload,
     Routed!Push!Reload, Answering!ReloadTick, Routed!Push!ReloadTick, Answering!BearerAges,
     Routed!Push!BearerAges, Answering!KeyRotates, Routed!Push!KeyRotates, Answering!Start,
     Routed!Push!Start, Answering!Send, Routed!Push!Send, Answering!PutRegistration,
     Routed!Push!PutRegistration, Answering!DeleteRegistration,
     Routed!Push!DeleteRegistration, Answering!Die, Routed!Push!Die, Answering!RevokeSession,
     Routed!Push!RevokeSession, Answering!ExpireSession, Routed!Push!ExpireSession,
     Answering!OfSessions, Routed!Push!OfSessions, Answering!fcm, Routed!Push!fcm,
     Answering!Listed, Routed!Push!Listed, Answering!Fail, Routed!Push!Fail, Answering!store,
     Routed!Push!store, Answering!Started, Routed!Push!Started, Answering!Check,
     Routed!Push!Check, Answering!Cancel, Routed!Push!Cancel, Answering!Bearer,
     Routed!Push!Bearer, Answering!Refresh, Routed!Push!Refresh, Answering!Mint,
     Routed!Push!Mint, Answering!Keep, Routed!Push!Keep, Answering!Sent, Routed!Push!Sent,
     Answering!BearerRejected, Routed!Push!BearerRejected, Answering!Unregistered,
     Routed!Push!Unregistered, Answering!Rejected, Routed!Push!Rejected, Answering!Delete,
     Routed!Push!Delete, Answering!Upserted, Routed!Push!Upserted, Answering!IsRow,
     Routed!Push!IsRow, Answering!TargetOf, Routed!Push!TargetOf, Answering!Current,
     Routed!Push!Current, Answering!End, Routed!Push!End, Answering!Next_phase,
     Routed!Push!Next_phase, Answering!Goto, Routed!Push!Goto, Answering!Refreshing,
     Routed!Push!Refreshing

LEMMA FanningSteps == (Fanning!Init => Routed!Fanout!Init) /\ (Fanning!Next => Routed!Fanout!Next)
  BY Zenon DEF Fanning!Init, Routed!Fanout!Init, Fanning!Next, Routed!Fanout!Next,
     Fanning!Change, Routed!Fanout!Change, Fanning!Mark, Routed!Fanout!Mark,
     Fanning!MarkWakes, Routed!Fanout!MarkWakes, Fanning!MarkPublishes,
     Routed!Fanout!MarkPublishes, Fanning!FlusherStep, Routed!Fanout!FlusherStep,
     Fanning!MaxDelayPasses, Routed!Fanout!MaxDelayPasses, Fanning!Cancel,
     Routed!Fanout!Cancel, Fanning!Verify, Routed!Fanout!Verify, Fanning!Subscribe,
     Routed!Fanout!Subscribe, Fanning!Recv, Routed!Fanout!Recv, Fanning!Beat,
     Routed!Fanout!Beat, Fanning!Delivered, Routed!Fanout!Delivered, Fanning!WriteTimesOut,
     Routed!Fanout!WriteTimesOut, Fanning!Revalidate, Routed!Fanout!Revalidate,
     Fanning!HangUp, Routed!Fanout!HangUp, Fanning!Stall, Routed!Fanout!Stall, Fanning!Revoke,
     Routed!Fanout!Revoke, Fanning!Read, Routed!Fanout!Read, Fanning!coalescer,
     Routed!Fanout!coalescer, Fanning!sockets, Routed!Fanout!sockets, Fanning!channel,
     Routed!Fanout!channel, Fanning!Full, Routed!Fanout!Full, Fanning!Wakes,
     Routed!Fanout!Wakes, Fanning!screens, Routed!Fanout!screens, Fanning!count,
     Routed!Fanout!count, Fanning!Published, Routed!Fanout!Published, Fanning!FlusherWakes,
     Routed!Fanout!FlusherWakes, Fanning!FlusherTicks, Routed!Fanout!FlusherTicks,
     Fanning!Close, Routed!Fanout!Close, Fanning!FlusherPublishes,
     Routed!Fanout!FlusherPublishes, Fanning!producers, Routed!Fanout!producers,
     Fanning!TimedOut, Routed!Fanout!TimedOut, Fanning!Closed, Routed!Fanout!Closed,
     Fanning!Live, Routed!Fanout!Live, Fanning!Due, Routed!Fanout!Due, Fanning!Cardinality,
     Routed!Fanout!Cardinality

\* The constants of the proofs are those of the scenes.
LEMMA ProofAssumptions ==
  /\ Routed!PushAssumption /\ Badged!PushAssumption /\ Ordered!PushAssumption
  /\ Badged!Push!DeliveryAssumption /\ Ordered!Push!DeliveryAssumption
  /\ Routed!Push!DeliveryAssumption /\ Routed!Fanout!LiveFanoutBounds
  BY EveryInstance DEF Routing!PushAssumption, Routed!PushAssumption, Badging!PushAssumption,
     Badged!PushAssumption, Ordering!PushAssumption, Ordered!PushAssumption,
     Sending!DeliveryAssumption, Badged!Push!DeliveryAssumption, Bearing!DeliveryAssumption,
     Ordered!Push!DeliveryAssumption, Answering!DeliveryAssumption,
     Routed!Push!DeliveryAssumption, Fanning!LiveFanoutBounds, Routed!Fanout!LiveFanoutBounds

-----------------------------------------------------------------------------
(* The scenes.                                                               *)

\* The invariants of the router and of the sends, each in its scenes.
Scheduled ==
  /\ scene = "routing" => Routed!RouterInv
  /\ scene = "badging" => Badged!RouterInv
  /\ scene = "ordering" => Ordered!RouterInv

Registered ==
  /\ scene = "sending" => Badged!PushInv
  /\ scene = "bearing" => Ordered!PushInv
  /\ scene = "answering" => Routed!PushInv

Signalling == scene = "fanning" => Routed!ScreenInv

SceneInv == Scheduled /\ Registered /\ Signalling

\* A step of the run is a step of its scene.
LEMMA SceneSteps ==
  ASSUME [Next]_vars
  PROVE  /\ scene' = scene
         /\ scene = "routing" => [Routing!Next]_Routing!vars
         /\ scene = "badging" => [Badging!Next]_Badging!vars
         /\ scene = "ordering" => [Ordering!Next]_Ordering!vars
         /\ scene = "sending" => [Sending!Next]_Sending!vars
         /\ scene = "bearing" => [Bearing!Next]_Bearing!vars
         /\ scene = "answering" => [Answering!Next]_Answering!vars
         /\ scene = "fanning" => [Fanning!Next]_Fanning!vars
<1>1. CASE UNCHANGED vars
  BY <1>1 DEF vars, Routing!vars, Badging!vars, Ordering!vars, Sending!vars, Bearing!vars,
     Answering!vars, Fanning!vars, Fanning!producers, Fanning!coalescer, Fanning!sockets,
     Fanning!channel, Fanning!screens, Fanning!count
<1>2. CASE Next
  <2>1. /\ UNCHANGED pushRouterElse => UNCHANGED scene
        /\ UNCHANGED pushDeliveryElse => UNCHANGED scene
        /\ UNCHANGED liveFanoutElse => UNCHANGED scene
        /\ UNCHANGED draftSyncElse => UNCHANGED scene
        /\ UNCHANGED mediaCacheElse => UNCHANGED scene
        /\ UNCHANGED stagedUploadsElse => UNCHANGED scene
    BY DEF pushRouterElse, pushDeliveryElse, liveFanoutElse, draftSyncElse, mediaCacheElse,
       stagedUploadsElse
  <2>2. \/ UNCHANGED pushRouterElse
        \/ UNCHANGED pushDeliveryElse
        \/ UNCHANGED liveFanoutElse
        \/ UNCHANGED draftSyncElse
        \/ UNCHANGED mediaCacheElse
        \/ UNCHANGED stagedUploadsElse
    BY <1>2 DEF Next
  <2> QED
    BY <1>2, <2>1, <2>2 DEF Next
<1> QED
  BY <1>1, <1>2

LEMMA SceneStarts == Init => SceneInv
<1> SUFFICES ASSUME Init PROVE SceneInv
  OBVIOUS
<1>1. /\ scene = "routing" => Routing!Init
      /\ scene = "badging" => Badging!Init
      /\ scene = "ordering" => Ordering!Init
      /\ scene = "sending" => Sending!Init
      /\ scene = "bearing" => Bearing!Init
      /\ scene = "answering" => Answering!Init
      /\ scene = "fanning" => Fanning!Init
  BY DEF Init
<1> QED
  BY <1>1, ProofAssumptions, RoutingSteps, BadgingSteps, OrderingSteps, SendingSteps,
     BearingSteps, AnsweringSteps, FanningSteps, Routed!RouterStarts, Badged!RouterStarts,
     Ordered!RouterStarts, Badged!PushStarts, Ordered!PushStarts, Routed!PushStarts,
     Routed!ScreenStarts DEF SceneInv, Scheduled, Registered, Signalling

\* Every step keeps the invariants, delivers in order and follows current answers.
LEMMA SceneKeeps ==
  SceneInv /\ [Next]_vars =>
    /\ SceneInv'
    /\ scene = "ordering" => Ordering!InOrderStep
    /\ scene = "answering" => Answering!AnswersAreCurrentStep
<1> SUFFICES ASSUME SceneInv, [Next]_vars
             PROVE  /\ SceneInv'
                    /\ scene = "ordering" => Ordering!InOrderStep
                    /\ scene = "answering" => Answering!AnswersAreCurrentStep
  OBVIOUS
<1>0. scene' = scene
  BY SceneSteps
<1>1. scene = "routing" => [Routed!Next]_Routed!vars
  BY SceneSteps, RoutingSteps DEF Routing!vars, Routed!vars
<1>2. scene = "badging" => [Badged!Next]_Badged!vars
  BY SceneSteps, BadgingSteps DEF Badging!vars, Badged!vars
<1>3. scene = "ordering" => [Ordered!Next]_Ordered!vars
  BY SceneSteps, OrderingSteps DEF Ordering!vars, Ordered!vars
<1>4. scene = "sending" => [Badged!Push!Next]_Badged!Push!vars
  BY SceneSteps, SendingSteps DEF Sending!vars, Badged!Push!vars
<1>5. scene = "bearing" => [Ordered!Push!Next]_Ordered!Push!vars
  BY SceneSteps, BearingSteps DEF Bearing!vars, Ordered!Push!vars
<1>6. scene = "answering" => [Routed!Push!Next]_Routed!Push!vars
  BY SceneSteps, AnsweringSteps DEF Answering!vars, Routed!Push!vars
<1>7. Scheduled' /\ (scene = "ordering" => Ordered!InOrderStep)
  BY <1>0, <1>1, <1>2, <1>3, ProofAssumptions, Routed!RouterKeeps, Badged!RouterKeeps,
     Ordered!RouterKeeps DEF SceneInv, Scheduled
<1>8. Registered' /\ (scene = "answering" => Routed!Push!AnswersAreCurrentStep)
  BY <1>0, <1>4, <1>5, <1>6, ProofAssumptions, Badged!PushNextKeeps, Ordered!PushNextKeeps,
     Routed!PushNextKeeps, Routed!AnswersKeepCurrent DEF SceneInv, Registered
<1>9. /\ Ordered!InOrderStep => Ordering!InOrderStep
      /\ Routed!Push!AnswersAreCurrentStep => Answering!AnswersAreCurrentStep
  BY DEF Ordered!InOrderStep, Ordering!InOrderStep, Ordered!Keys, Ordering!Keys,
     Ordered!Devices, Ordering!Devices, Routed!Push!AnswersAreCurrentStep,
     Answering!AnswersAreCurrentStep, Routed!Push!NoTask, Answering!NoTask, Routed!Push!IsRow,
     Answering!IsRow, Routed!Push!NoRow, Answering!NoRow
<1>10. Signalling'
  <2>1. scene = "fanning" => [Routed!Fanout!Next]_Routed!Fanout!vars
    BY SceneSteps, FanningSteps DEF Fanning!vars, Routed!Fanout!vars, Fanning!producers,
       Fanning!coalescer, Fanning!sockets, Fanning!channel, Fanning!screens, Fanning!count,
       Routed!Fanout!producers, Routed!Fanout!coalescer, Routed!Fanout!sockets,
       Routed!Fanout!channel, Routed!Fanout!screens, Routed!Fanout!count
  <2> QED
    BY <1>0, <2>1, ProofAssumptions, Routed!ScreenKeeps DEF SceneInv, Signalling
<1> QED
  BY <1>7, <1>8, <1>9, <1>10 DEF SceneInv

LEMMA SceneHolds == Spec => []SceneInv
<1>1. SceneInv /\ [Next]_vars => SceneInv'
  BY SceneKeeps
<1> QED
  BY <1>1, SceneStarts, PTL DEF Spec

-----------------------------------------------------------------------------
(* What the run checks of the scenes.                                        *)

\* The router starts no two sends of a key and none too many, strands no job, wakes once per
\* message, and its badges and counts catch up (Scheduler::enqueue, finished and pump,
\* apply_observation, apply_control, decide).
THEOREM ScheduledCorrect == Spec => []SendsAreScheduled
<1>1. ASSUME SceneInv PROVE SendsAreScheduled
  <2>1. /\ scene = "routing" => /\ Routed!OneSendPerKey /\ Routed!NoneStranded
                                /\ Routed!SentOnce /\ Routed!CountsFollow
        /\ scene = "badging" => Badged!BadgeFollows
    BY <1>1, ProofAssumptions, Routed!RouterMeans, Badged!RouterMeans DEF SceneInv, Scheduled
  <2>2. \A S : Routing!Cardinality(S) = Routed!Cardinality(S)
    BY Zenon DEF Routing!Cardinality, Routed!Cardinality
  <2> QED
    BY <2>1, <2>2 DEF SendsAreScheduled, OneSendPerKey, NoneStranded, SentOnce, CountsFollow,
       BadgeFollows, Routing!OneSendPerKey, Routed!OneSendPerKey, Routing!KeyOf, Routed!KeyOf, Routing!NoneStranded, Routed!NoneStranded, Routing!Idle, Routed!Idle, Routing!Queued, Routed!Queued, Routing!SentOnce, Routed!SentOnce, Routing!CountsFollow, Routed!CountsFollow, Routing!NoPair, Routed!NoPair, Badging!BadgeFollows, Badged!BadgeFollows
<1> QED
  BY <1>1, SceneHolds, PTL

\* Registrations, sends and bearers follow the sessions and the answers they depend on
\* (put_registration, revoke_session, resolve_target, fcm_bearer, the answers of a send).
THEOREM RegistrationsCorrect == Spec => []RegistrationsAreCurrent
<1>1. ASSUME SceneInv PROVE RegistrationsAreCurrent
  <2>1. /\ scene = "sending" => Badged!Push!RevokedOwnsNothing /\ Badged!Push!EndedIsNotSent
        /\ scene = "bearing" => Ordered!Push!MintsAreEarned /\ Ordered!Push!RefusedIsDropped
    BY <1>1, ProofAssumptions, Badged!PushMeans, Ordered!PushMeans DEF SceneInv, Registered
  <2> QED
    BY <2>1 DEF RegistrationsAreCurrent, RevokedOwnsNothing, EndedIsNotSent, MintsAreEarned,
       RefusedIsDropped, Sending!RevokedOwnsNothing, Badged!Push!RevokedOwnsNothing, Sending!Devices, Badged!Push!Devices, Sending!IsRow, Badged!Push!IsRow, Sending!NoRow, Badged!Push!NoRow, Sending!EndedIsNotSent, Badged!Push!EndedIsNotSent, Sending!Live, Badged!Push!Live, Sending!NoTask, Badged!Push!NoTask, Bearing!MintsAreEarned, Ordered!Push!MintsAreEarned, Bearing!RefusedIsDropped, Ordered!Push!RefusedIsDropped
<1> QED
  BY <1>1, SceneHolds, PTL

\* A connected client's screen is out of date only while a signal is on its way to it, and a
\* pending change has a flusher that is awake or about to be (Coalescer::mark, flush and
\* close, the socket task of ws.rs).
THEOREM ScreensCorrect == Spec => []ScreensAreSignalled
<1>1. ASSUME SceneInv PROVE ScreensAreSignalled
  <2>1. scene = "fanning" => Routed!Fanout!StaleIsSignalled /\ Routed!Fanout!PendingIsWatched
    BY <1>1, Routed!ScreenMeans DEF SceneInv, Signalling
  <2>2. /\ \A f : Fanning!Range(f) = Routed!Fanout!Range(f)
        /\ \A q : Fanning!ToSet(q) = Routed!Fanout!ToSet(q)
    BY Zenon DEF Fanning!Range, Routed!Fanout!Range, Fanning!ToSet, Routed!Fanout!ToSet
  <2> QED
    BY <2>1, <2>2 DEF ScreensAreSignalled, StaleIsSignalled, PendingIsWatched,
       Fanning!StaleIsSignalled, Routed!Fanout!StaleIsSignalled, Fanning!PendingIsWatched,
       Routed!Fanout!PendingIsWatched, Fanning!Live, Routed!Fanout!Live
<1> QED
  BY <1>1, SceneHolds, PTL

\* A device hears of a room in the order the router decided, and a provider's answer removes
\* only the registration it is about, however late sends and answers are.
THEOREM InOrderCorrect == Spec => DeliveredInOrder
<1>1. SceneInv /\ [Next]_vars =>
        /\ [scene = "ordering" => Ordering!InOrderStep]_vars
        /\ [scene = "answering" => Answering!AnswersAreCurrentStep]_vars
  BY SceneKeeps
<1> QED
  BY <1>1, SceneHolds, PTL DEF Spec, DeliveredInOrder, InOrder, AnswersAreCurrent
=============================================================================
