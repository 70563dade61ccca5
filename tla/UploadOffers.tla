---------------------------- MODULE UploadOffers ----------------------------
(***************************************************************************)
(* What the staging of uploads promises its callers, without files, rows,  *)
(* locks or requests: an upload is offered at most once, one request at a  *)
(* time may take it, everything a request has taken goes out in one event, *)
(* and an upload that went out is not offered again, except by a restart,  *)
(* which cannot know, and after an event whose fate the request could not  *)
(* tell, which it reports as a failure.                                    *)
(***************************************************************************)
EXTENDS Naturals

CONSTANTS Uploads, Senders, None

VARIABLES
  state,      \* "absent", "offered", "taken" or "gone"
  holder,     \* the request that has taken the upload
  delivered,  \* events that carry the upload
  doubted,    \* events that carry it and were reported as failures
  forgot      \* the process has restarted

offers == <<state, holder, delivered, doubted, forgot>>

Init ==
  /\ state = [u \in Uploads |-> "absent"]
  /\ holder = [u \in Uploads |-> None]
  /\ delivered = [u \in Uploads |-> 0]
  /\ doubted = [u \in Uploads |-> 0]
  /\ forgot = FALSE

\* An upload no event carries yet, as far as the process was told.
Fresh(u) == delivered[u] = 0 \/ forgot

\* An upload becomes available, once.
Offer(u) ==
  /\ state[u] = "absent"
  /\ state' = [state EXCEPT ![u] = "offered"]
  /\ UNCHANGED <<holder, delivered, forgot, doubted>>

\* Uploads go away unsent: refused, discarded, expired, or with their account.
Withdraw(W) ==
  /\ W # {}
  /\ state' = [u \in Uploads |-> IF u \in W THEN "gone" ELSE state[u]]
  /\ UNCHANGED <<holder, delivered, forgot, doubted>>

WithdrawFree == \E W \in SUBSET {u \in Uploads : state[u] \in {"absent", "offered"}} : Withdraw(W)

\* With the account, whatever has been offered.
WithdrawAll == Withdraw({u \in Uploads : state[u] \in {"offered", "taken", "gone"}})

Take(s, u) ==
  /\ state[u] = "offered" /\ Fresh(u) /\ holder[u] = None
  /\ state' = [state EXCEPT ![u] = "taken"]
  /\ holder' = [holder EXCEPT ![u] = s]
  /\ UNCHANGED <<delivered, forgot, doubted>>

\* What a request holds and was not told it sent becomes available again.
GiveBack(u) ==
  /\ state[u] = "taken" /\ holder[u] # None /\ Fresh(u)
  /\ state' = [state EXCEPT ![u] = "offered"]
  /\ holder' = [holder EXCEPT ![u] = None]
  /\ UNCHANGED <<delivered, forgot, doubted>>

Delivers(s) ==
  /\ \A u \in Uploads : holder[u] = s => Fresh(u)
  /\ delivered' = [u \in Uploads |-> IF holder[u] = s THEN delivered[u] + 1
                                                      ELSE delivered[u]]

\* One event carries everything the request has taken.
Deliver(s) == Delivers(s) /\ UNCHANGED <<state, holder, forgot, doubted>>

\* One event carries it all, and the request is told that it failed.
Doubt(s) ==
  /\ \A u \in Uploads : holder[u] = s => Fresh(u)
  /\ doubted' = [u \in Uploads |-> IF holder[u] = s THEN doubted[u] + 1 ELSE doubted[u]]
  /\ UNCHANGED <<state, holder, delivered, forgot>>

\* An upload that went out is used up.
Spend(u) ==
  /\ state[u] = "taken" /\ holder[u] # None /\ delivered[u] > 0
  /\ state' = [state EXCEPT ![u] = "gone"]
  /\ holder' = [holder EXCEPT ![u] = None]
  /\ UNCHANGED <<delivered, forgot, doubted>>

\* A request is gone, or could not say how it ended: its uploads stay taken.
Lose(s, L) ==
  /\ L \subseteq {u \in Uploads : holder[u] = s}
  /\ holder' = [u \in Uploads |-> IF u \in L THEN None ELSE holder[u]]
  /\ delivered' = delivered \/ Delivers(s)
  /\ UNCHANGED <<state, forgot, doubted>>

Restart ==
  /\ forgot' = TRUE
  /\ holder' = [u \in Uploads |-> None]
  /\ \E W \in SUBSET {u \in Uploads : state[u] = "absent"} :
       state' = [u \in Uploads |-> IF u \in W THEN "gone" ELSE state[u]]
  /\ UNCHANGED <<delivered, doubted>>

\* What nobody holds any more is offered again, after a restart.
Recover ==
  /\ forgot /\ \A u \in Uploads : holder[u] = None
  /\ state' = [u \in Uploads |-> IF state[u] = "taken" THEN "offered" ELSE state[u]]
  /\ UNCHANGED <<holder, delivered, forgot, doubted>>

Next ==
  \/ WithdrawFree \/ WithdrawAll \/ Restart \/ Recover
  \/ \E u \in Uploads : Offer(u) \/ GiveBack(u) \/ Spend(u)
  \/ \E s \in Senders :
       \/ Deliver(s) \/ Doubt(s)
       \/ \E u \in Uploads : Take(s, u)
       \/ \E L \in SUBSET Uploads : Lose(s, L)

Spec == Init /\ [][Next]_offers
=============================================================================
