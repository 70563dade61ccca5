----------------------------- MODULE PushDelivery -----------------------------
(***************************************************************************)
(* Push registrations and the sends that read them: the push_registrations   *)
(* table (crates/axon-store/src/push.rs) as the HTTP routes, the session       *)
(* revocations and the reaper write it; the router's in-memory snapshot and    *)
(* its reload (crates/axon-sync/src/push/router.rs); and one spawned send with  *)
(* its liveness check, FCM bearer, provider answer and the row it may delete   *)
(* (push/deliver.rs).                                                          *)
(*                                                                         *)
(* `clock` counts the moments that matter: writes of a registration and device  *)
(* tokens that die at the provider.  It dates rows (updated_at) and APNs       *)
(* answers (timestamp) alike, so the two machines' clocks are taken to agree.   *)
(***************************************************************************)
EXTENDS Integers, FiniteSets

CONSTANTS
  Apns, Fcm,   \* device tokens of each provider; a row is keyed by one
  Sessions,    \* credential sessions
  Tasks,       \* the sends that may run at once: SEND_PERMITS
  MaxClock,    \* bound: dated moments
  MaxBearer,   \* bound: FCM access tokens minted
  MaxErrors    \* bound: store calls that fail or time out

DeliveryAssumption ==
  /\ Apns \cap Fcm = {}
  /\ MaxClock \in Nat /\ MaxBearer \in Nat /\ MaxErrors \in Nat

VARIABLES
  clock,
  session,   \* the state of each credential session
  rows,      \* push_registrations, by device token
  died,      \* when the provider last saw each device token die
  gone,      \* the device tokens that are not valid now
  snap,      \* the router's snapshot of the rows
  changed,   \* the permit of the `changed` Notify
  errors,    \* store calls that have failed so far
  task,      \* the spawned sends
  bearer,    \* LiveTransport.fcm_token: the cached bearer, 0 when there is none
  minted,    \* bearers minted so far; the newest has this number
  refused,   \* bearers FCM answers 401 to
  lapses,    \* history: cached bearers that were dropped or aged out
  refusals   \* history: bearers whose 401 has been handled

store == <<clock, session, rows, died, gone>>
fcm == <<bearer, minted, refused, lapses, refusals>>
vars == <<clock, session, rows, died, gone, snap, changed, errors, task, bearer, minted, refused,
          lapses, refusals>>

Devices == Apns \cup Fcm
live == {s \in Sessions : session[s] = "live"}   \* those with a live credential
Times == 0..MaxClock
Bearers == 0..MaxBearer

\* PushTarget, with the session the check reads beside it.  A row's id is the moment
\* of its insertion, which no other row of that device token shares.
Targets == [device : Devices, id : Times, at : Times, session : Sessions]

NoRow == [id |-> 0]
IsRow(d) == rows[d] # NoRow
TargetOf(d) == [device |-> d, id |-> rows[d].id, at |-> rows[d].at, session |-> rows[d].session]

\* `checked`: the liveness read answered; `ended`: the sessions that were over when the
\* send started; `stamp`: the moment the provider's answer is about;
\* `dated`: that answer was a 410, which carries it.
NoTask == [phase |-> "idle"]
Live == {t \in Tasks : task[t] # NoTask}
Phases == {"check", "bearer", "refresh", "mint", "post", "forget", "delete"}
Started(d) == [phase |-> "check", target |-> d, checked |-> FALSE, ended |-> Sessions \ live,
               bearer |-> 0, stamp |-> 0, dated |-> FALSE]

TypeOK ==
  /\ clock \in Times /\ session \in [Sessions -> {"live", "expired", "revoked"}]
  /\ \A d \in Devices : IsRow(d) => TargetOf(d) \in Targets
  /\ DOMAIN rows = Devices /\ died \in [Devices -> Times] /\ gone \subseteq Devices
  /\ snap \subseteq Targets
  /\ changed \in BOOLEAN /\ errors \in 0..MaxErrors
  /\ DOMAIN task = Tasks
  /\ \A t \in Live : /\ task[t].phase \in Phases /\ task[t].target \in Targets
                     /\ task[t].bearer \in Bearers /\ task[t].stamp \in Times
  /\ bearer \in Bearers /\ minted \in Bearers
  /\ refused \subseteq Bearers /\ refusals \subseteq Bearers
  /\ lapses \in Nat

Init ==
  /\ clock = 0 /\ session = [s \in Sessions |-> "live"]
  /\ rows = [d \in Devices |-> NoRow]
  /\ died = [d \in Devices |-> 0] /\ gone = {}
  /\ snap = {} /\ changed = FALSE /\ errors = 0
  /\ task = [t \in Tasks |-> NoTask]
  /\ bearer = 0 /\ minted = 0 /\ refused = {} /\ lapses = 0 /\ refusals = {}

-----------------------------------------------------------------------------
(* The table *)

\* ON CONFLICT (provider, token): the row keeps its id, moves to the session, and the
\* trigger sets updated_at.
Upserted(d, s) ==
  [id |-> IF IsRow(d) THEN rows[d].id ELSE clock + 1, at |-> clock + 1, session |-> s]

\* PUT /v1/push/registrations.  The write and its liveness gate are one statement under
\* the credential lock.  The provider may have revived the token or still call it dead.
PutRegistration(d, s) ==
  /\ s \in live /\ clock < MaxClock
  /\ clock' = clock + 1
  /\ rows' = [rows EXCEPT ![d] = Upserted(d, s)]
  /\ gone' \in {gone, gone \ {d}}
  /\ changed' = TRUE
  /\ UNCHANGED <<session, died, snap, errors, task, fcm>>

\* DELETE /v1/push/registrations/{id}, by the session that owns the row.
DeleteRegistration(d) ==
  /\ IsRow(d) /\ rows[d].session \in live
  /\ rows' = [rows EXCEPT ![d] = NoRow]
  /\ changed' = TRUE
  /\ UNCHANGED <<clock, session, died, gone, snap, errors, task, fcm>>

OfSessions(over) == {d \in Devices : IsRow(d) /\ rows[d].session \in over}

\* Mutant: the rows of a revoked session are left for the reaper.
RevokeSession_KeepsRows(s) ==
  /\ session[s] # "revoked"
  /\ session' = [session EXCEPT ![s] = "revoked"]
  /\ UNCHANGED <<clock, rows, died, gone, snap, changed, errors, task, fcm>>

\* remove_token, revoke_refresh_sessions and delete_identity: the rows go in the
\* transaction that ends the session.  The router is not notified.
RevokeSession(s) ==
  /\ session[s] # "revoked"
  /\ session' = [session EXCEPT ![s] = "revoked"]
  /\ rows' = [d \in Devices |-> IF d \in OfSessions({s}) THEN NoRow ELSE rows[d]]
  /\ UNCHANGED <<clock, died, gone, snap, changed, errors, task, fcm>>

\* The session's last credential expires; its rows stay.
ExpireSession(s) ==
  /\ s \in live
  /\ session' = [session EXCEPT ![s] = "expired"]
  /\ UNCHANGED <<clock, rows, died, gone, snap, changed, errors, task, fcm>>

\* reap_loop's tick, and the boot's reap: rows of sessions with no live credential go.
Reap ==
  LET over == OfSessions(Sessions \ live)
  IN /\ over # {}
     /\ rows' = [d \in Devices |-> IF d \in over THEN NoRow ELSE rows[d]]
     /\ changed' = TRUE
     /\ UNCHANGED <<clock, session, died, gone, snap, errors, task, fcm>>

\* The app is removed or the token rotated; the provider dates it.
Die(d) ==
  /\ clock < MaxClock /\ d \notin gone
  /\ clock' = clock + 1
  /\ died' = [died EXCEPT ![d] = clock + 1] /\ gone' = gone \cup {d}
  /\ UNCHANGED <<session, rows, snap, changed, errors, task, fcm>>

-----------------------------------------------------------------------------
(* The snapshot *)

Listed == {TargetOf(d) : d \in {e \in Devices : IsRow(e)}}

Fail == errors < MaxErrors /\ errors' = errors + 1

\* reload_loop's notified arm: the permit is spent even when the read fails.
Reload ==
  /\ changed
  /\ changed' = FALSE
  /\ \/ snap' = Listed /\ UNCHANGED errors
     \/ Fail /\ UNCHANGED snap
  /\ UNCHANGED <<store, task, fcm>>

\* reload_loop's tick arm, every SLOT_TTL.
ReloadTick ==
  /\ \/ snap' = Listed /\ UNCHANGED errors
     \/ Fail /\ UNCHANGED snap
  /\ UNCHANGED <<store, changed, task, fcm>>

-----------------------------------------------------------------------------
(* One send *)

Goto(t, phase) == task' = [task EXCEPT ![t].phase = phase]
End(t) == task' = [task EXCEPT ![t] = NoTask]

Start(t) ==
  /\ task[t] = NoTask
  /\ \E target \in snap : task' = [task EXCEPT ![t] = Started(target)]
  /\ UNCHANGED <<store, snap, changed, errors, fcm>>

\* After the check an FCM send needs a bearer and an APNs one signs its own.
Next_phase(target) == IF target.device \in Fcm THEN "bearer" ELSE "post"

Current(t) ==
  /\ IsRow(task[t].target.device)
  /\ rows[task[t].target.device].id = task[t].target.id

\* resolve_target: a row that is gone ends the send, an ended session has its row
\* deleted, a failed or slow read sends to the snapshot's target.
Check(t) ==
  LET read == TargetOf(task[t].target.device)
  IN /\ task[t].phase = "check"
     /\ \/ ~Current(t) /\ End(t) /\ UNCHANGED errors
        \/ /\ Current(t) /\ read.session \notin live
           /\ task' = [task EXCEPT ![t].phase = "forget", ![t].target = read]
           /\ UNCHANGED errors
        \/ /\ Current(t) /\ read.session \in live
           /\ task' = [task EXCEPT ![t].phase = Next_phase(read), ![t].target = read,
                                   ![t].checked = TRUE]
           /\ UNCHANGED errors
        \/ Fail /\ Goto(t, Next_phase(task[t].target))
     /\ UNCHANGED <<store, snap, changed, fcm>>

\* The cancelled checks around resolve_target: the account or the process is going.
Cancel(t) ==
  /\ task[t].phase \in {"check", "bearer", "post"}
  /\ End(t)
  /\ UNCHANGED <<store, snap, changed, errors, fcm>>

\* The holder of fcm_refresh.
Refreshing == {t \in Tasks : task[t].phase = "mint"}

\* fcm_bearer's first read of the cache.
Bearer(t) ==
  /\ task[t].phase = "bearer"
  /\ task' = [task EXCEPT ![t].phase = IF bearer # 0 THEN "post" ELSE "refresh",
                          ![t].bearer = bearer]
  /\ UNCHANGED <<store, snap, changed, errors, fcm>>

\* fcm_refresh is taken and the cache read again.
Refresh(t) ==
  /\ task[t].phase = "refresh" /\ Refreshing = {}
  /\ task' = [task EXCEPT ![t].phase = IF bearer # 0 THEN "post" ELSE "mint",
                          ![t].bearer = bearer]
  /\ UNCHANGED <<store, snap, changed, errors, fcm>>

\* The token endpoint answers: the bearer is cached and used.
Mint(t) ==
  /\ task[t].phase = "mint" /\ minted < MaxBearer
  /\ minted' = minted + 1 /\ bearer' = minted + 1
  /\ task' = [task EXCEPT ![t].phase = "post", ![t].bearer = minted + 1]
  /\ UNCHANGED <<store, snap, changed, errors, refused, lapses, refusals>>

\* The cached bearer comes within FCM_REFRESH_SLACK of its end.
BearerAges ==
  /\ bearer # 0
  /\ bearer' = 0 /\ lapses' = lapses + 1
  /\ UNCHANGED <<store, snap, changed, errors, task, minted, refused, refusals>>

\* The service-account key rotates: FCM refuses every bearer minted so far.
KeyRotates ==
  /\ 1..minted # refused
  /\ refused' = 1..minted
  /\ UNCHANGED <<store, snap, changed, errors, task, bearer, minted, lapses, refusals>>

\* PROVIDER_TIMEOUT, a transport error, or any answer that keeps the row: fcm_refresh
\* is let go with the dropped future.
Keep(t) ==
  /\ task[t].phase \in {"bearer", "refresh", "mint", "post"}
  /\ End(t)
  /\ UNCHANGED <<store, snap, changed, errors, fcm>>

\* A 2xx: the token is valid and so is the bearer.
Sent(t) ==
  /\ task[t].phase = "post"
  /\ task[t].target.device \notin gone /\ task[t].bearer \notin refused
  /\ End(t)
  /\ UNCHANGED <<store, snap, changed, errors, fcm>>

\* fcm_bearer_rejected and invalidate_fcm_token: whatever is cached is dropped.
BearerRejected(t) ==
  /\ task[t].phase = "post" /\ task[t].bearer \in refused
  /\ bearer' = 0
  /\ lapses' = IF bearer # 0 THEN lapses + 1 ELSE lapses
  /\ refusals' = refusals \cup {task[t].bearer}
  /\ End(t)
  /\ UNCHANGED <<store, snap, changed, errors, minted, refused>>

\* apns_verdict of a 410: its timestamp against the updated_at the send read.
Unregistered(t) ==
  LET d == task[t].target.device
  IN /\ task[t].phase = "post" /\ d \in Apns \cap gone
     /\ task' = IF died[d] > task[t].target.at
                THEN [task EXCEPT ![t].phase = "delete", ![t].stamp = died[d], ![t].dated = TRUE]
                ELSE [task EXCEPT ![t] = NoTask]
     /\ UNCHANGED <<store, snap, changed, errors, fcm>>

\* An APNs BadDeviceToken, or FCM's UNREGISTERED, which carry no time.
Rejected(t) ==
  LET d == task[t].target.device
  IN /\ task[t].phase = "post" /\ d \in gone /\ task[t].bearer \notin refused
     /\ task' = [task EXCEPT ![t].phase = "delete", ![t].stamp = clock]
     /\ UNCHANGED <<store, snap, changed, errors, fcm>>

\* Mutant: the row is found by its device token.
Delete_ByToken(t) ==
  /\ task[t].phase \in {"forget", "delete"}
  /\ rows' = [rows EXCEPT ![task[t].target.device] = NoRow]
  /\ End(t)
  /\ UNCHANGED <<clock, session, died, gone, snap, changed, errors, fcm>>

\* delete_push_registration_id: by id alone, and the router is not notified.
Delete(t) ==
  /\ task[t].phase \in {"forget", "delete"}
  /\ \/ /\ rows' = IF Current(t) THEN [rows EXCEPT ![task[t].target.device] = NoRow] ELSE rows
        /\ UNCHANGED errors
     \/ Fail /\ UNCHANGED rows
  /\ End(t)
  /\ UNCHANGED <<clock, session, died, gone, snap, changed, fcm>>

-----------------------------------------------------------------------------

Client ==
  \/ \E d \in Devices : \/ \E s \in Sessions : PutRegistration(d, s)
                        \/ DeleteRegistration(d) \/ Die(d)
  \/ \E s \in Sessions : RevokeSession(s) \/ ExpireSession(s)

Send(t) ==
  \/ Check(t) \/ Cancel(t) \/ Bearer(t) \/ Refresh(t) \/ Mint(t) \/ Keep(t) \/ Sent(t)
  \/ BearerRejected(t) \/ Unregistered(t) \/ Rejected(t) \/ Delete(t)

Next ==
  \/ Client \/ Reap \/ Reload \/ ReloadTick \/ BearerAges \/ KeyRotates
  \/ \E t \in Tasks : Start(t) \/ Send(t)

Spec == Init /\ [][Next]_vars

\* The two interval loops keep ticking, and a store that fails does so a bounded
\* number of times.
Fairness == WF_vars(Reap) /\ WF_vars(ReloadTick) /\ \A t \in Tasks : WF_vars(Send(t))

FairSpec == Spec /\ Fairness
-----------------------------------------------------------------------------
(* Properties *)

\* A revoked session owns no registration again, whatever registration raced its
\* revocation: the gate of the write and the delete of the revocation are serialised.
RevokedOwnsNothing ==
  \A d \in Devices : IsRow(d) => session[rows[d].session] # "revoked"

\* A send that started after the session of its device was over, and whose liveness
\* read answered, never reaches the provider: however stale the snapshot it was
\* started from, the row it re-reads decides (resolve_target).
EndedIsNotSent ==
  \A t \in Live :
    task[t].checked => task[t].target.session \notin task[t].ended

\* A provider's answer never removes a registration newer than what it is about: a
\* late answer to a send to an earlier registration of the token finds another id, and
\* an old 410 finds a later updated_at.
AnswersAreCurrentStep ==
  \A t \in Tasks :
       LET d == task[t].target.device
       IN /\ task[t].phase = "delete" /\ task'[t] = NoTask
          /\ IsRow(d) /\ rows'[d] = NoRow
          => task[t].stamp >= rows[d].id

\* AnswersAreCurrentStep, of every step.
AnswersAreCurrent == [][AnswersAreCurrentStep]_vars

\* What ADR 0113 says of a device that registers the same token again: a 410 does not
\* remove a row written at or after its timestamp.
ReRegisteredStaysStep ==
  \A t \in Tasks :
       LET d == task[t].target.device
       IN /\ task[t].phase = "delete" /\ task[t].dated /\ task'[t] = NoTask
          /\ IsRow(d) /\ rows'[d] = NoRow
          => task[t].stamp > rows[d].at

\* ReRegisteredStaysStep, of every step.
ReRegisteredStays == [][ReRegisteredStaysStep]_vars

\* A bearer is minted only to replace one that lapsed: sends that find the cache empty
\* together share one mint (fcm_refresh and the second read under it).
MintsAreEarned == minted <= lapses + 1

\* The bearer of an answered 401 is not in the cache for the next send to take, however
\* the answer interleaves with the mints of other sends.
RefusedIsDropped == bearer \notin refusals

\* Once the table stops changing the snapshot agrees with it: revocations and the sends'
\* own deletes notify nobody, and a failed reload has spent its permit.
SnapshotFollows == <>[](snap = Listed)

\* The registration of a session that is over goes, even if nothing is ever sent to it.
EndedRowsGo == \A d \in Devices : []<>(d \notin OfSessions(Sessions \ live))

=============================================================================
