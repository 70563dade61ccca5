--------------------------- MODULE StagedUploads ---------------------------
(***************************************************************************)
(* Staged uploads of one account (axon-server/src/uploads.rs over          *)
(* axon-store/src/media_uploads.rs): the files of the staging directory,   *)
(* the rows that index them, the requests that stage, send and discard,    *)
(* the expiry sweep, and the reconciliation at boot. An upload id is fresh *)
(* for every request, so an id stands for the request that stages it too.  *)
(***************************************************************************)
EXTENDS Naturals, Sequences, FiniteSets

CONSTANTS
  Uploads,       \* upload ids
  Previews,      \* those staged by generated previews, which have a quota
  Senders,       \* requests that consume staged uploads
  None,          \* no owner, no holder
  MaxPreviews,   \* the quota of generated previews
  MaxWriters,    \* max_concurrent_uploads
  MaxFaults,     \* failing statements, reads, writes and unlinks
  MaxDrops,      \* requests dropped by their connection or their timeout
  MaxCrashes,    \* process crashes
  MaxSends,      \* send requests
  AccountLeaves  \* whether the account may be deleted

ASSUME StagedUploadsBounds ==
  /\ Previews \subseteq Uploads /\ IsFiniteSet(Uploads)
  /\ None \notin Uploads \cup Senders
  /\ {MaxPreviews, MaxWriters} \subseteq Nat \ {0}
  /\ {MaxFaults, MaxDrops, MaxCrashes, MaxSends} \subseteq Nat
  /\ AccountLeaves \in BOOLEAN

VARIABLES
  row,       \* media_uploads.state, "none" without a row
  expired,   \* uploads whose expires_at has passed
  file,      \* "none", the partial "tmp" file or the "final" one
  stage,     \* where the staging request of an upload is
  quota,     \* the holder of the advisory lock of the preview quota
  seen,      \* the previews the holder of the quota has counted
  send,      \* the send requests
  unlinks,   \* files whose removal is on its way
  sent,      \* Matrix events that carry an upload, but for those in `doubted`
  doubted,   \* those whose request timed out and reported a failure
  account,   \* the account has a row
  boot,      \* "up", or the step of the boot
  faults, drops, crashes, sends

files == <<file, unlinks>>
rows  == <<row, expired, account>>
lock  == <<quota, seen>>
outs  == <<sent, doubted>>
count == <<faults, drops, crashes, sends>>
vars  == <<rows, files, stage, lock, send, outs, boot, count>>

IdleSend == [pc |-> "idle", bundled |-> FALSE, want |-> <<>>, got |-> <<>>,
             ok |-> FALSE]

Init ==
  /\ row = [u \in Uploads |-> "none"]
  /\ expired = {}
  /\ file = [u \in Uploads |-> "none"]
  /\ stage = [u \in Uploads |-> "new"]
  /\ quota = None /\ seen = 0
  /\ send = [s \in Senders |-> IdleSend]
  /\ unlinks = {}
  /\ sent = [u \in Uploads |-> 0] /\ doubted = [u \in Uploads |-> 0]
  /\ account = TRUE
  /\ boot = "up"
  /\ faults = 0 /\ drops = 0 /\ crashes = 0 /\ sends = 0

Serving == boot = "up"

-----------------------------------------------------------------------------
(* Staging.                                                                *)

Writing == {"write", "insert", "quota", "counted"}
Writers == {u \in Uploads : stage[u] \in Writing}

\* stage_upload and stage_generated_preview: a permit, the account's row, and
\* the partial file under its cleanup guard.
StageStart(u) ==
  /\ Serving /\ stage[u] = "new" /\ account
  /\ Cardinality(Writers) < MaxWriters
  /\ stage' = [stage EXCEPT ![u] = "write"]
  /\ file' = [file EXCEPT ![u] = "tmp"]
  /\ UNCHANGED <<rows, unlinks, lock, send, outs, boot, count>>

\* The bytes are written and synced, the file renamed and the guard moved to it.
StageRename(u) ==
  /\ stage[u] = "write"
  /\ file' = [file EXCEPT ![u] = "final"]
  /\ stage' = [stage EXCEPT ![u] = IF u \in Previews THEN "quota" ELSE "insert"]
  /\ UNCHANGED <<rows, unlinks, lock, send, outs, boot, count>>

Inserted(u) == row' = [row EXCEPT ![u] = "staged"]

\* insert_media_upload; the guard is disarmed.
StageInsert(u) ==
  /\ stage[u] = "insert" /\ account
  /\ Inserted(u)
  /\ stage' = [stage EXCEPT ![u] = "done"]
  /\ UNCHANGED <<expired, account, files, lock, send, outs, boot, count>>

Generated == {u \in Previews : row[u] # "none"}

\* insert_generated_preview_upload takes the account's advisory lock and counts.
StageCount(u) ==
  /\ stage[u] = "quota"
  /\ quota = None
  /\ quota' = u
  /\ seen' = Cardinality(Generated)
  /\ stage' = [stage EXCEPT ![u] = "counted"]
  /\ UNCHANGED <<rows, files, send, outs, boot, count>>

\* It inserts below the quota, and the end of the transaction frees the lock.
StagePreview(u) ==
  /\ stage[u] = "counted" /\ account /\ seen < MaxPreviews
  /\ Inserted(u)
  /\ quota' = None /\ seen' = 0
  /\ stage' = [stage EXCEPT ![u] = "done"]
  /\ UNCHANGED <<expired, account, files, send, outs, boot, count>>

\* What an armed guard does when its future ends: it schedules the removal.
Abandoned(u) ==
  /\ stage' = [stage EXCEPT ![u] = "failed"]
  /\ unlinks' = unlinks \cup {u}
  /\ IF stage[u] = "counted" THEN quota' = None /\ seen' = 0 ELSE UNCHANGED lock

\* Over the quota, or the account is gone: the foreign key refuses the row.
StageRefused(u) ==
  /\ \/ stage[u] = "counted" /\ (seen >= MaxPreviews \/ ~account)
     \/ stage[u] = "insert" /\ ~account
  /\ Abandoned(u)
  /\ UNCHANGED <<rows, file, send, outs, boot, count>>

\* A bad body, a write or a statement that fails.
StageFails(u) ==
  /\ faults < MaxFaults /\ stage[u] \in Writing
  /\ faults' = faults + 1
  /\ Abandoned(u)
  /\ UNCHANGED <<rows, file, send, outs, boot, drops, crashes, sends>>

\* The request is dropped, or its timeout fires. A rename in flight goes on on
\* the blocking pool, under a guard that names the partial file; an insert in
\* flight may commit, and the guard removes its file.
StageDropped(u) ==
  /\ drops < MaxDrops /\ stage[u] \in Writing
  /\ drops' = drops + 1
  /\ \/ Abandoned(u) /\ UNCHANGED <<row, file>>
     \/ /\ stage[u] = "write"
        /\ file' = [file EXCEPT ![u] = "final"]
        /\ stage' = [stage EXCEPT ![u] = "failed"]
        /\ UNCHANGED <<row, unlinks, lock>>
     \/ /\ stage[u] = "insert" /\ account
        /\ Inserted(u)
        /\ Abandoned(u)
        /\ UNCHANGED file
  /\ UNCHANGED <<expired, account, send, outs, boot, faults, crashes, sends>>

\* A removal happens, or fails and is only logged.
Unlink(u) ==
  /\ u \in unlinks
  /\ unlinks' = unlinks \ {u}
  /\ \/ file' = [file EXCEPT ![u] = "none"] /\ UNCHANGED faults
     \/ faults < MaxFaults /\ faults' = faults + 1 /\ UNCHANGED file
  /\ UNCHANGED <<rows, stage, lock, send, outs, boot, drops, crashes, sends>>

-----------------------------------------------------------------------------
(* Sending. with_staged_upload and send_media claim one upload in their    *)
(* handler; a send with bundled previews claims several in a task of its   *)
(* own, which no disconnect cancels.                                       *)

Requests == {<<u>> : u \in Uploads} \cup
            {q \in Uploads \X Uploads : q[1] # q[2]}

SendStart(s, want) ==
  /\ Serving /\ send[s].pc = "idle" /\ sends < MaxSends
  /\ sends' = sends + 1
  /\ send' = [send EXCEPT ![s] = [IdleSend EXCEPT !.pc = "claim", !.want = want,
                                    !.bundled = Len(want) > 1]]
  /\ UNCHANGED <<rows, files, stage, lock, outs, boot, faults, drops, crashes>>

Wanted(s) == send[s].want[Len(send[s].got) + 1]

\* Mutant: a row that is being sent is claimed again.
Claimable_Any(u) == row[u] # "none" /\ u \notin expired

Claimable(u) == row[u] = "staged" /\ u \notin expired

\* claim_staged_media_upload: one statement, so that two senders cannot both.
Claim(s) ==
  /\ send[s].pc = "claim"
  /\ Claimable(Wanted(s))
  /\ row' = [row EXCEPT ![Wanted(s)] = "sending"]
  /\ send' = [send EXCEPT ![s].pc = "read",
                          ![s].got = Append(@, Wanted(s))]
  /\ UNCHANGED <<expired, account, files, stage, lock, outs, boot, count>>

\* Nothing to claim: what is claimed already is released.
ClaimNothing(s) ==
  /\ send[s].pc = "claim"
  /\ ~Claimable(Wanted(s))
  /\ send' = [send EXCEPT ![s].pc = "settle"]
  /\ UNCHANGED <<rows, files, stage, lock, outs, boot, count>>

\* read_bounded: the bytes, and the next claim if the request has one.
Read(s) == LET u == send[s].got[Len(send[s].got)] IN
  /\ send[s].pc = "read"
  /\ file[u] = "final"
  /\ send' = [send EXCEPT ![s].pc =
               IF Len(send[s].got) < Len(send[s].want) THEN "claim" ELSE "send"]
  /\ UNCHANGED <<rows, files, stage, lock, outs, boot, count>>

\* The file is missing, or does not read as it should: that claim is released
\* first, and then the earlier ones.
ReadFails(s) == LET q == send[s].got IN
  /\ send[s].pc = "read"
  /\ \/ file[q[Len(q)]] # "final" /\ UNCHANGED faults
     \/ faults < MaxFaults /\ faults' = faults + 1
  /\ send' = [send EXCEPT ![s].pc = "settle",
                          ![s].got = <<q[Len(q)]>> \o SubSeq(q, 1, Len(q) - 1)]
  /\ UNCHANGED <<rows, files, stage, lock, outs, boot, drops, crashes, sends>>

\* The Matrix event is sent, or the gateway refuses it.
Send(s) ==
  /\ send[s].pc = "send"
  /\ \/ /\ sent' = [u \in Uploads |->
                     IF \E i \in DOMAIN send[s].got : send[s].got[i] = u
                       THEN sent[u] + 1 ELSE sent[u]]
        /\ send' = [send EXCEPT ![s].pc = "settle", ![s].ok = TRUE]
     \/ send' = [send EXCEPT ![s].pc = "settle"] /\ UNCHANGED sent
  /\ UNCHANGED <<doubted, rows, files, stage, lock, boot, count>>

\* run_bounded's timeout ends the wait and not the homeserver's work: the event goes
\* out and the request goes on as if it had failed.
SendTimesOut(s) ==
  /\ send[s].pc = "send"
  /\ doubted' = [u \in Uploads |->
                   IF \E i \in DOMAIN send[s].got : send[s].got[i] = u
                     THEN doubted[u] + 1 ELSE doubted[u]]
  /\ send' = [send EXCEPT ![s].pc = "settle"]
  /\ UNCHANGED <<sent, rows, files, stage, lock, boot, count>>

\* complete_upload or release_upload of each claim in turn; a failing one is
\* only logged.
Settle(s) == LET u == Head(send[s].got) IN
  /\ send[s].pc = "settle" /\ send[s].got # <<>>
  /\ send' = [send EXCEPT ![s].got = Tail(@)]
  /\ \/ /\ row[u] = "sending"
        /\ row' = [row EXCEPT ![u] = IF send[s].ok THEN "none" ELSE "staged"]
        /\ unlinks' = IF send[s].ok THEN unlinks \cup {u} ELSE unlinks
        /\ UNCHANGED faults
     \/ row[u] # "sending" /\ UNCHANGED <<row, unlinks, faults>>
     \/ /\ faults < MaxFaults /\ faults' = faults + 1
        /\ UNCHANGED <<row, unlinks>>
  /\ UNCHANGED <<expired, account, file, stage, lock, outs, boot, drops,
                 crashes, sends>>

SendEnd(s) ==
  /\ send[s].pc = "settle" /\ send[s].got = <<>>
  /\ send' = [send EXCEPT ![s] = IdleSend]
  /\ UNCHANGED <<rows, files, stage, lock, outs, boot, count>>

\* The connection of a handler ends while it awaits. The gateway may have sent.
SendDropped(s) ==
  /\ drops < MaxDrops /\ send[s].pc # "idle" /\ ~send[s].bundled
  /\ drops' = drops + 1
  /\ send' = [send EXCEPT ![s] = IdleSend]
  /\ \/ UNCHANGED sent
     \/ /\ send[s].pc = "send"
        /\ sent' = [sent EXCEPT ![send[s].want[1]] = @ + 1]
  /\ UNCHANGED <<doubted, rows, files, stage, lock, boot, faults, crashes, sends>>

-----------------------------------------------------------------------------
(* Discarding, expiry, and the account.                                    *)

\* delete_upload removes a staged row and then its file.
DeleteUpload(u) ==
  /\ Serving /\ row[u] = "staged"
  /\ row' = [row EXCEPT ![u] = "none"]
  /\ unlinks' = unlinks \cup {u}
  /\ UNCHANGED <<expired, account, file, stage, lock, send, outs, boot, count>>

Expire(u) ==
  /\ row[u] # "none" /\ u \notin expired
  /\ expired' = expired \cup {u}
  /\ UNCHANGED <<row, account, files, stage, lock, send, outs, boot, count>>

\* delete_expired_media_uploads: staged rows only.
Swept == {u \in Uploads : row[u] = "staged" /\ u \in expired}

Sweeps ==
  /\ row' = [u \in Uploads |-> IF u \in Swept THEN "none" ELSE row[u]]
  /\ unlinks' = unlinks \cup Swept

\* sweep_expired, from the periodic task.
Sweep ==
  /\ Serving /\ Swept # {}
  /\ Sweeps
  /\ UNCHANGED <<expired, account, file, stage, lock, send, outs, boot, count>>

\* The account is deleted, and its upload rows with it.
DeleteAccount ==
  /\ AccountLeaves /\ Serving /\ account
  /\ account' = FALSE
  /\ row' = [u \in Uploads |-> "none"]
  /\ UNCHANGED <<expired, files, stage, lock, send, outs, boot, count>>

-----------------------------------------------------------------------------
(* Crash and reconcile_boot, before the listener binds.                    *)

Crash ==
  /\ crashes < MaxCrashes
  /\ crashes' = crashes + 1
  /\ boot' = "reset"
  /\ stage' = [u \in Uploads |-> IF stage[u] \in Writing THEN "failed" ELSE stage[u]]
  /\ quota' = None /\ seen' = 0
  /\ send' = [s \in Senders |-> IdleSend]
  /\ unlinks' = {}
  /\ UNCHANGED <<rows, file, outs, faults, drops, sends>>

\* A failing step of the boot is skipped.
Skips(next) ==
  /\ faults < MaxFaults /\ faults' = faults + 1
  /\ boot' = next
  /\ UNCHANGED <<rows, files, stage, lock, send, outs, drops, crashes, sends>>

\* reconcile_sending_media_uploads
BootReset ==
  /\ boot = "reset"
  /\ \/ /\ row' = [u \in Uploads |-> IF row[u] = "sending" THEN "staged" ELSE row[u]]
        /\ boot' = "prune"
        /\ UNCHANGED <<expired, account, files, stage, lock, send, outs, count>>
     \/ Skips("prune")

\* Mutant: only finished files are looked at.
Orphans_Finished == {u \in Uploads : row[u] = "none" /\ file[u] = "final"}

\* Mutant: only staged rows keep their files.
Orphans_Unstaged == {u \in Uploads : row[u] # "staged"}

\* prune_orphan_files removes finished and partial files alike, by row.
Orphans == {u \in Uploads : row[u] = "none"}
BootPrune ==
  /\ boot = "prune"
  /\ \/ /\ file' = [u \in Uploads |-> IF u \in Orphans THEN "none" ELSE file[u]]
        /\ boot' = "sweep"
        /\ UNCHANGED <<rows, unlinks, stage, lock, send, outs, count>>
     \/ Skips("sweep")

BootSweep ==
  /\ boot = "sweep"
  /\ \/ /\ Sweeps
        /\ boot' = "up"
        /\ UNCHANGED <<expired, account, file, stage, lock, send, outs, count>>
     \/ Skips("up")

-----------------------------------------------------------------------------
StageNext(u) ==
  \/ StageStart(u) \/ StageRename(u) \/ StageInsert(u) \/ StageCount(u)
  \/ StagePreview(u) \/ StageRefused(u) \/ StageFails(u) \/ StageDropped(u)

SendStep(s) ==
  \/ Claim(s) \/ ClaimNothing(s) \/ Read(s) \/ ReadFails(s) \/ Send(s) \/ SendTimesOut(s)
  \/ Settle(s) \/ SendEnd(s)

BootNext == BootReset \/ BootPrune \/ BootSweep

Next ==
  \/ \E u \in Uploads :
       StageNext(u) \/ Unlink(u) \/ DeleteUpload(u) \/ Expire(u)
  \/ \E s \in Senders :
       SendStep(s) \/ SendDropped(s) \/ \E want \in Requests : SendStart(s, want)
  \/ Sweep \/ DeleteAccount \/ Crash \/ BootNext

Spec == Init /\ [][Next]_vars

\* Handlers and the sweeper are polled; requests, faults, drops, expiries and
\* crashes are not assumed.
Fairness ==
  /\ \A s \in Senders : WF_vars(SendStep(s))
  /\ \A u \in Uploads : WF_vars(Unlink(u))
  /\ WF_vars(Sweep) /\ WF_vars(BootNext)

FairSpec == Spec /\ Fairness

-----------------------------------------------------------------------------
(* Properties.                                                             *)

\* The variables keep their types.
TypeOK ==
  /\ row \in [Uploads -> {"none", "staged", "sending"}]
  /\ expired \subseteq Uploads /\ unlinks \subseteq Uploads
  /\ file \in [Uploads -> {"none", "tmp", "final"}]
  /\ stage \in [Uploads -> Writing \cup {"new", "done", "failed"}]
  /\ quota \in Uploads \cup {None} /\ seen \in 0..Cardinality(Previews)
  /\ \A s \in Senders :
       /\ send[s].pc \in {"idle", "claim", "read", "send", "settle"}
       /\ Len(send[s].got) <= Len(send[s].want)
  /\ sent \in [Uploads -> Nat] /\ doubted \in [Uploads -> Nat]
  /\ account \in BOOLEAN
  /\ boot \in {"up", "reset", "prune", "sweep"}

Holds(s, u) == \E i \in DOMAIN send[s].got : send[s].got[i] = u

\* A claim is exclusive, and what a request releases or consumes is its own:
\* no two requests hold one upload, across expiry, discard and failed claims.
OneSender ==
  \A s, r \in Senders, u \in Uploads : Holds(s, u) /\ Holds(r, u) => s = r

\* The file of a claimed upload is there until its request is done with it: no
\* sweep, discard, failed unlink or account deletion takes it away. An upload
\* whose staging was cut off while its insert committed has no file; its id was
\* never returned, so no client can ask for it.
ClaimedIsReadable ==
  \A s \in Senders, u \in Uploads :
    Holds(s, u) /\ send[s].pc \in {"claim", "read", "send"} /\ stage[u] = "done"
      => file[u] = "final"

\* The row of an upload whose id a client was given names a durable file, after
\* any crash: the file is renamed before its row is inserted and removed after
\* its row is.
StagedHasFile ==
  \A u \in Uploads : row[u] # "none" /\ stage[u] = "done" => file[u] = "final"

\* Whatever statement fails and whoever hangs up, as long as the process lives an
\* upload goes out at most once, but for sends that were reported as failed after a
\* timeout: those are answered with the outcome unknown, and release the upload.
SentOnce == crashes = 0 => \A u \in Uploads : sent[u] <= 1

\* A staged upload has one sender at most, its file for as long as it is offered or
\* claimed, and one delivery besides those in doubt.
UploadsAreKept == OneSender /\ ClaimedIsReadable /\ StagedHasFile /\ SentOnce

\* While the process serves, a row in `sending` belongs to a request in flight
\* that will release or consume it.
SendingIsOwned ==
  Serving => \A u \in Uploads : row[u] = "sending" => \E s \in Senders : Holds(s, u)

\* The generated previews of an account stay within the quota, however many
\* requests count at the same time.
QuotaHolds == Cardinality(Generated) <= MaxPreviews

\* A file without a row, and without someone who is about to give it one or remove it.
Stray(u) ==
  file[u] # "none" /\ row[u] = "none" /\ stage[u] \notin Writing /\ u \notin unlinks

\* A serving process has no file that nobody will give a row or remove, after a crash
\* at any point of staging, sending and sweeping.
NoStrays == Serving => \A u \in Uploads : ~Stray(u)

\* What a crash strands is removed by the boot that follows.
StraysArePruned == \A u \in Uploads : []<>~Stray(u)

Expired(u) == u \in expired /\ row[u] # "none"

\* An expired upload goes away, one that is being sent after its send fails.
ExpiredGoes == \A u \in Uploads : []<>~Expired(u)

\* What an upload is to a caller, and the request that has it.
OfferState ==
  [u \in Uploads |->
     CASE row[u] = "staged" -> "offered"
       [] row[u] = "sending" -> "taken"
       [] row[u] = "none" -> IF stage[u] \in {"done", "failed"} THEN "gone" ELSE "absent"]

OfferHolder ==
  [u \in Uploads |-> IF \E s \in Senders : Holds(s, u)
                      THEN CHOOSE s \in Senders : Holds(s, u) ELSE None]

Restarted == crashes > 0

\* Rows, files, requests and boots as UploadOffers sees them.
Offers == INSTANCE UploadOffers WITH
  state <- OfferState, holder <- OfferHolder, delivered <- sent, forgot <- Restarted

\* The staging directory, its table and its boot keep the promise to their
\* callers, under failing statements, dropped requests, crashes and the
\* deletion of the account.
ImplementsOffers == Offers!Spec
=============================================================================
