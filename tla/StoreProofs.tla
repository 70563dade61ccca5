------------------------------ MODULE StoreProofs ------------------------------
(***************************************************************************)
(* The files and the credentials of the server.                            *)
(*                                                                         *)
(* StagedUploads, for any uploads, requests, faults, dropped requests and  *)
(* crashes: an upload has one sender at most, its file while it is offered *)
(* or claimed, and one delivery besides those reported as failed; and the  *)
(* staging implements UploadOffers.                                        *)
(*                                                                         *)
(* MediaCache, for any accounts, objects and requests: one download of an  *)
(* object at a time, no slot of the flight map without a user, and purged  *)
(* and orphaned accounts that stay without a directory.                    *)
(*                                                                         *)
(* Credentials, for any numbers of identities, requests and tokens: the    *)
(* types, one bootstrap, one rotation of a refresh token, the owner's way  *)
(* to sign in, what an unbind leaves behind and what backs a registration. *)
(***************************************************************************)
EXTENDS StagedUploads, FiniteSetTheorems, SequenceTheorems, TLAPS

CONSTANTS Accounts, Keys, AccountOf, Size, MaxBytes, Downloads, Callers, Faults, MaxDeaths,
          Deletable, FromBoot

VARIABLES dirs, disk, lru, total, flight, caller, detached, purged, purge, owners, scan, gc,
          orphans, deaths

CONSTANTS Identities, CallIds, NoIdentity, Calls, MaxTokens, MaxRefresh
VARIABLES bound, ever, tokens, refresh, regs, credLock, bootLock, req

\* The media cache shares no state with the staging.
Media == INSTANCE MediaCache WITH MaxCrashes <- MaxDeaths, rows <- owners, crashes <- deaths

\* The credentials share no state with either.
Logins == INSTANCE Credentials WITH Requests <- CallIds, None <- NoIdentity

\* A sequence of uploads has u in it.
Carries(q, u) == \E i \in DOMAIN q : q[i] = u

Settled == {"done", "failed"}

Steps == {"idle", "claim", "read", "send", "settle"}

SendRecords ==
  [pc : Steps, bundled : BOOLEAN, want : Seq(Uploads), got : Seq(Uploads), ok : BOOLEAN]

Types ==
  /\ row \in [Uploads -> {"none", "staged", "sending"}]
  /\ file \in [Uploads -> {"none", "tmp", "final"}]
  /\ stage \in [Uploads -> Writing \cup {"new", "done", "failed"}]
  /\ send \in [Senders -> SendRecords]
  /\ sent \in [Uploads -> Nat] /\ doubted \in [Uploads -> Nat]
  /\ unlinks \subseteq Uploads
  /\ boot \in {"up", "reset", "prune", "sweep"}
  /\ crashes \in Nat

\* The locals of a send: it has claimed the first of the uploads it wants, in order and
\* each once, until it settles them one by one.
Distinct(q) == \A i, j \in DOMAIN q : q[i] = q[j] => i = j

Local(t) ==
  /\ Distinct(t.got)
  /\ Len(t.got) <= Len(t.want)
  /\ t.pc = "idle" => t.got = <<>>
  /\ t.pc # "idle" => Len(t.want) > 0
  /\ t.pc # "idle" /\ ~t.bundled => Len(t.want) = 1
  /\ t.pc = "claim" => Len(t.got) < Len(t.want)
  /\ t.pc = "read" => Len(t.got) > 0
  /\ t.pc = "send" => Len(t.got) = Len(t.want)
  /\ t.pc \in {"claim", "read", "send"}
       => \A i \in DOMAIN t.got : t.got[i] = t.want[i]
  /\ t.ok => t.pc = "settle"

Locals == \A s \in Senders : Local(send[s])

\* A row is inserted when its staging ends, and never again.
RowsAreStaged == \A u \in Uploads : row[u] # "none" => stage[u] \in Settled

\* A claimed upload is not on offer, so nobody else can claim it.
HeldIsClaimed ==
  \A s \in Senders, u \in Uploads : Carries(send[s].got, u) => row[u] # "staged" /\ stage[u] \in Settled

OneHolder ==
  \A s, r \in Senders, u \in Uploads :
    Carries(send[s].got, u) /\ Carries(send[r].got, u) => s = r

\* The boot runs alone.
BootIsAlone ==
  boot # "up" =>
    /\ crashes > 0
    /\ \A s \in Senders : send[s].pc = "idle"
    /\ \A u \in Uploads : stage[u] \notin Writing

\* The file precedes the row, and is removed after the row and after its last reader.
FilesWait ==
  \A u \in Uploads :
    /\ stage[u] \in {"insert", "quota", "counted"} => file[u] = "final"
    /\ u \in unlinks => stage[u] \in Settled
    /\ u \in unlinks /\ stage[u] = "done" => row[u] = "none" /\ \A s \in Senders : ~Carries(send[s].got, u)

HeldHasFile ==
  \A s \in Senders, u \in Uploads : Carries(send[s].got, u) /\ stage[u] = "done" => file[u] = "final"

\* What went out is not offered again while the process lives: its row is not staged,
\* and the request that may still hold it knows that it was sent.
SentIsSpent ==
  \A u \in Uploads : sent[u] > 0 =>
    /\ stage[u] \in Settled
    /\ crashes = 0 => /\ sent[u] = 1
                      /\ row[u] # "staged"
                      /\ \A s \in Senders : Carries(send[s].got, u) => send[s].ok

\* A request that says it was sent was.
OkIsSent == \A s \in Senders, u \in Uploads : send[s].ok /\ Carries(send[s].got, u) => sent[u] > 0

Kept ==
  /\ RowsAreStaged /\ HeldIsClaimed /\ OneHolder /\ BootIsAlone /\ FilesWait /\ HeldHasFile
  /\ StagedHasFile /\ SentIsSpent /\ OkIsSent

IInv == Types /\ Locals /\ Kept

\* The deliveries are two variables.
USE DEF outs

\* The invariant says what the run checks.
LEMMA IInvImplies == IInv => UploadsAreKept
<1> SUFFICES ASSUME IInv PROVE UploadsAreKept
  OBVIOUS
<1>1. \A s \in Senders, u \in Uploads : Holds(s, u) <=> Carries(send[s].got, u)
  BY DEF Holds, Carries
<1>2. OneSender
  BY <1>1 DEF IInv, Kept, OneHolder, OneSender
<1>3. ClaimedIsReadable
  BY <1>1 DEF IInv, Kept, HeldHasFile, ClaimedIsReadable
<1>4. SentOnce
  BY DEF IInv, Kept, SentIsSpent, SentOnce, Types
<1> QED
  BY <1>2, <1>3, <1>4 DEF IInv, Kept, UploadsAreKept

LEMMA InitIInv == Init => IInv
<1> SUFFICES ASSUME Init PROVE IInv
  OBVIOUS
<1>1. \A s \in Senders : send[s] = IdleSend
  BY DEF Init
<1>2. IdleSend \in SendRecords /\ IdleSend.got = <<>> /\ Len(IdleSend.got) = 0 /\ IdleSend.pc = "idle"
      /\ Len(IdleSend.want) = 0 /\ IdleSend.ok = FALSE
  BY DEF IdleSend, SendRecords, Steps
<1>3. Types
  BY <1>1, <1>2 DEF Init, Types
<1>4. \A s \in Senders, u \in Uploads : ~Carries(send[s].got, u)
  BY <1>1, <1>2 DEF Carries
<1>5. Locals
  BY <1>1, <1>2 DEF Locals, Local, Distinct
<1> QED
  BY <1>3, <1>4, <1>5 DEF Init, IInv, Kept, RowsAreStaged, HeldIsClaimed, OneHolder, BootIsAlone,
     FilesWait, HeldHasFile, StagedHasFile, SentIsSpent, OkIsSent

-----------------------------------------------------------------------------
(* What a step of a send does to what it holds *)

LEMMA Appended ==
  ASSUME NEW q \in Seq(Uploads), NEW u \in Uploads, Distinct(q), ~Carries(q, u)
  PROVE  /\ Append(q, u) \in Seq(Uploads)
         /\ Distinct(Append(q, u))
         /\ Len(Append(q, u)) = Len(q) + 1
         /\ \A i \in DOMAIN q : Append(q, u)[i] = q[i]
         /\ Append(q, u)[Len(q) + 1] = u
         /\ \A x \in Uploads : Carries(Append(q, u), x) <=> Carries(q, x) \/ x = u
<1>1. /\ Append(q, u) \in Seq(Uploads) /\ Len(Append(q, u)) = Len(q) + 1
      /\ \A i \in 1..Len(q) : Append(q, u)[i] = q[i]
      /\ Append(q, u)[Len(q) + 1] = u
  OBVIOUS
<1>2. DOMAIN q = 1..Len(q) /\ DOMAIN Append(q, u) = 1..(Len(q) + 1) /\ Len(q) \in Nat
  OBVIOUS
<1>3. Distinct(Append(q, u))
  BY <1>1, <1>2 DEF Distinct, Carries
<1>4. \A x \in Uploads : Carries(Append(q, u), x) <=> Carries(q, x) \/ x = u
  BY <1>1, <1>2 DEF Carries
<1> QED
  BY <1>1, <1>2, <1>3, <1>4

LEMMA Tailed ==
  ASSUME NEW q \in Seq(Uploads), Distinct(q), q # <<>>
  PROVE  /\ Head(q) \in Uploads /\ Carries(q, Head(q))
         /\ Tail(q) \in Seq(Uploads) /\ Distinct(Tail(q)) /\ Len(Tail(q)) <= Len(q)
         /\ \A x \in Uploads : Carries(Tail(q), x) <=> Carries(q, x) /\ x # Head(q)
<1>1. /\ Tail(q) \in Seq(Uploads) /\ Len(Tail(q)) = Len(q) - 1
      /\ \A i \in 1..(Len(q) - 1) : Tail(q)[i] = q[i + 1]
      /\ Len(q) \in Nat /\ Len(q) > 0
      /\ Head(q) = q[1] /\ Head(q) \in Uploads
  OBVIOUS
<1>2. DOMAIN q = 1..Len(q) /\ DOMAIN Tail(q) = 1..(Len(q) - 1)
  BY <1>1
<1>3. Distinct(Tail(q))
  BY <1>1, <1>2 DEF Distinct
<1>4. ASSUME NEW x \in Uploads
      PROVE  Carries(Tail(q), x) <=> Carries(q, x) /\ x # Head(q)
  <2>1. ASSUME Carries(Tail(q), x) PROVE Carries(q, x) /\ x # Head(q)
    <3>1. PICK i \in 1..(Len(q) - 1) : q[i + 1] = x
      BY <1>1, <1>2, <2>1 DEF Carries
    <3>2. i + 1 \in DOMAIN q /\ 1 \in DOMAIN q /\ i + 1 # 1
      BY <1>1, <1>2
    <3> QED
      BY <1>1, <3>1, <3>2 DEF Carries, Distinct
  <2>2. ASSUME Carries(q, x), x # Head(q) PROVE Carries(Tail(q), x)
    <3>1. PICK i \in 1..Len(q) : q[i] = x
      BY <1>2, <2>2 DEF Carries
    <3>2. i - 1 \in DOMAIN Tail(q) /\ Tail(q)[i - 1] = q[i]
      BY <1>1, <1>2, <2>2, <3>1
    <3> QED
      BY <3>1, <3>2 DEF Carries
  <2> QED
    BY <2>1, <2>2
<1>5. Carries(q, Head(q))
  BY <1>1, <1>2 DEF Carries
<1> QED
  BY <1>1, <1>3, <1>4, <1>5

LEMMA Fronted ==
  ASSUME NEW q \in Seq(Uploads), Distinct(q), Len(q) > 0
  PROVE  LET f == SubSeq(q, 1, Len(q) - 1) IN
         /\ q[Len(q)] \in Uploads /\ Carries(q, q[Len(q)])
         /\ f \in Seq(Uploads) /\ Distinct(f) /\ Len(f) = Len(q) - 1
         /\ \A x \in Uploads : Carries(f, x) <=> Carries(q, x) /\ x # q[Len(q)]
<1> DEFINE f == SubSeq(q, 1, Len(q) - 1)
<1>1. /\ f \in Seq(Uploads) /\ Len(f) = Len(q) - 1
      /\ \A i \in 1..(Len(q) - 1) : f[i] = q[i]
      /\ Len(q) \in Nat /\ q[Len(q)] \in Uploads
  <2>1. Len(q) \in Nat /\ q[Len(q)] \in Uploads /\ \A i \in 1..(Len(q) - 1) : q[i] \in Uploads
    OBVIOUS
  <2>2. /\ f \in Seq(Uploads)
        /\ Len(f) = IF 1 <= Len(q) - 1 THEN (Len(q) - 1) - 1 + 1 ELSE 0
        /\ \A i \in 1..((Len(q) - 1) - 1 + 1) : f[i] = q[1 + i - 1]
    BY <2>1, SubSeqProperties
  <2> HIDE DEF f
  <2>3. Len(f) = Len(q) - 1
    <3> DEFINE n == Len(q)
               m == Len(f)
    <3>1. n \in Nat /\ n > 0 /\ m = IF 1 <= n - 1 THEN (n - 1) - 1 + 1 ELSE 0
      BY <2>1, <2>2
    <3> HIDE DEF n, m
    <3>2. m = n - 1
      BY <3>1
    <3> QED
      BY <3>2 DEF n, m
  <2>4. \A i \in 1..(Len(q) - 1) : f[i] = q[i]
    BY <2>1, <2>2
  <2> QED
    BY <2>1, <2>2, <2>3, <2>4
<1>2. DOMAIN q = 1..Len(q) /\ DOMAIN f = 1..(Len(q) - 1)
  BY <1>1
<1> HIDE DEF f
<1>3. Distinct(f)
  BY <1>1, <1>2 DEF Distinct
<1>4. \A x \in Uploads : Carries(f, x) <=> Carries(q, x) /\ x # q[Len(q)]
  BY <1>1, <1>2 DEF Carries, Distinct
<1>5. Carries(q, q[Len(q)])
  BY <1>1, <1>2 DEF Carries
<1> QED
  BY <1>1, <1>3, <1>4, <1>5 DEF f

\* The last of a sequence put first.
Rotated(q) == <<q[Len(q)]>> \o SubSeq(q, 1, Len(q) - 1)

LEMMA RotatedIs ==
  ASSUME NEW q \in Seq(Uploads), Distinct(q), Len(q) > 0
  PROVE  /\ Rotated(q) \in Seq(Uploads) /\ Distinct(Rotated(q)) /\ Len(Rotated(q)) = Len(q)
         /\ \A x \in Uploads : Carries(Rotated(q), x) <=> Carries(q, x)
<1> DEFINE f == SubSeq(q, 1, Len(q) - 1)
           l == q[Len(q)]
           h == <<l>>
           p == h \o f
<1>1. /\ l \in Uploads /\ Carries(q, l)
      /\ f \in Seq(Uploads) /\ Distinct(f) /\ Len(f) = Len(q) - 1
      /\ \A x \in Uploads : Carries(f, x) <=> Carries(q, x) /\ x # l
  BY Fronted
<1>2. h \in Seq(Uploads) /\ Len(h) = 1 /\ h[1] = l
  BY <1>1
<1>3. Rotated(q) = p /\ Len(q) \in Nat
  BY DEF Rotated
<1> HIDE DEF f, h, l
<1>4. /\ p \in Seq(Uploads) /\ Len(p) = Len(h) + Len(f)
      /\ \A i \in 1..(Len(h) + Len(f)) : p[i] = IF i <= Len(h) THEN h[i] ELSE f[i - Len(h)]
  BY <1>1, <1>2, ConcatProperties, Zenon
<1> HIDE DEF p
<1>5. /\ p \in Seq(Uploads) /\ Len(p) = Len(q) /\ p[1] = l
      /\ \A i \in 2..Len(q) : p[i] = f[i - 1]
  BY <1>1, <1>2, <1>3, <1>4
<1>6. DOMAIN p = 1..Len(q) /\ DOMAIN f = 1..(Len(q) - 1)
  BY <1>1, <1>3, <1>5
<1>7. ~Carries(f, l)
  BY <1>1
<1>8. \A i \in 2..Len(q) : i - 1 \in DOMAIN f /\ p[i] # l
  BY <1>3, <1>5, <1>6, <1>7 DEF Carries
<1>9. Distinct(p)
  <2> SUFFICES ASSUME NEW i \in DOMAIN p, NEW j \in DOMAIN p, p[i] = p[j] PROVE i = j
    BY DEF Distinct
  <2>1. CASE i = 1 \/ j = 1
    BY <1>3, <1>5, <1>6, <1>8, <2>1
  <2>2. CASE i # 1 /\ j # 1
    <3>1. i \in 2..Len(q) /\ j \in 2..Len(q)
      BY <1>3, <1>6, <2>2
    <3>2. f[i - 1] = f[j - 1] /\ i - 1 \in DOMAIN f /\ j - 1 \in DOMAIN f
      BY <1>5, <1>8, <3>1
    <3>3. i - 1 = j - 1
      BY <1>1, <3>2 DEF Distinct
    <3> QED
      BY <3>1, <3>3
  <2> QED
    BY <2>1, <2>2
<1>10. ASSUME NEW x \in Uploads PROVE Carries(p, x) <=> Carries(q, x)
  <2>1. Carries(p, x) => x = l \/ Carries(f, x)
    BY <1>3, <1>5, <1>6, <1>8 DEF Carries
  <2>2. Carries(p, l)
    BY <1>3, <1>5, <1>6 DEF Carries
  <2>3. ASSUME Carries(f, x) PROVE Carries(p, x)
    <3>1. PICK i \in DOMAIN f : f[i] = x
      BY <2>3 DEF Carries
    <3>2. i + 1 \in 2..Len(q) /\ (i + 1) - 1 = i
      BY <1>3, <1>6
    <3>3. p[i + 1] = x
      BY <1>5, <3>1, <3>2
    <3>4. i + 1 \in DOMAIN p
      BY <1>3, <1>6, <3>2
    <3> QED
      BY <3>3, <3>4 DEF Carries
  <2> QED
    BY <1>1, <2>1, <2>2, <2>3
<1> QED
  BY <1>3, <1>5, <1>9, <1>10

\* Steps that leave alone what is held.
HoldsKept == \A r \in Senders, u \in Uploads : Carries(send'[r].got, u) <=> Carries(send[r].got, u)

\* The step of s that drops its hold of x.
HoldsLess(s, x) ==
  \A r \in Senders, u \in Uploads : Carries(send'[r].got, u) <=> Carries(send[r].got, u) /\ ~(r = s /\ u = x)

LEMMA SendUnchanged == ASSUME UNCHANGED send PROVE HoldsKept
BY DEF HoldsKept

\* One request takes a step: what the others hold is as it was.
LEMMA OneRecord ==
  ASSUME IInv, NEW s \in Senders, NEW t \in SendRecords, Local(t),
         send' = [send EXCEPT ![s] = t]
  PROVE  /\ send' \in [Senders -> SendRecords] /\ Locals'
         /\ send'[s] = t /\ \A r \in Senders \ {s} : send'[r] = send[r]
         /\ \A r \in Senders, u \in Uploads :
              Carries(send'[r].got, u) <=> IF r = s THEN Carries(t.got, u) ELSE Carries(send[r].got, u)
<1>1. send \in [Senders -> SendRecords] /\ \A r \in Senders : Local(send[r])
  BY DEF IInv, Types, Locals
<1>2. send' \in [Senders -> SendRecords] /\ send'[s] = t
      /\ \A r \in Senders \ {s} : send'[r] = send[r]
  BY <1>1
<1>3. Locals'
  BY <1>1, <1>2 DEF Locals
<1>4. ASSUME NEW r \in Senders, NEW u \in Uploads
      PROVE  Carries(send'[r].got, u) <=> IF r = s THEN Carries(t.got, u) ELSE Carries(send[r].got, u)
  BY <1>2 DEF Carries
<1> QED
  BY <1>2, <1>3, <1>4

LEMMA LocalOf ==
  ASSUME IInv, NEW s \in Senders
  PROVE  /\ send[s] \in SendRecords /\ Local(send[s])
BY DEF IInv, Types, Locals

\* What a step of a request leaves: its own record and what it holds have changed.
SendsStep(s, t) ==
  /\ send' \in [Senders -> SendRecords] /\ Locals'
  /\ send'[s] = t /\ \A r \in Senders \ {s} : send'[r] = send[r]

\* Records of sends, field by field.
LEMMA NewPc ==
  ASSUME NEW t \in SendRecords, NEW x \in Steps
  PROVE  /\ [t EXCEPT !.pc = x] = [pc |-> x, bundled |-> t.bundled, want |-> t.want, got |-> t.got, ok |-> t.ok]
         /\ [t EXCEPT !.pc = x] \in SendRecords
<1>1. [t EXCEPT !.pc = x] \in SendRecords
  BY DEF SendRecords
<1>2. [t EXCEPT !.pc = x] = [pc |-> x, bundled |-> t.bundled, want |-> t.want, got |-> t.got, ok |-> t.ok]
  BY DEF SendRecords
<1> QED
  BY <1>1, <1>2

LEMMA NewGot ==
  ASSUME NEW t \in SendRecords, NEW x \in Seq(Uploads)
  PROVE  /\ [t EXCEPT !.got = x] = [pc |-> t.pc, bundled |-> t.bundled, want |-> t.want, got |-> x, ok |-> t.ok]
         /\ [t EXCEPT !.got = x] \in SendRecords
<1>1. [t EXCEPT !.got = x] \in SendRecords
  BY DEF SendRecords
<1>2. [t EXCEPT !.got = x] = [pc |-> t.pc, bundled |-> t.bundled, want |-> t.want, got |-> x, ok |-> t.ok]
  BY DEF SendRecords
<1> QED
  BY <1>1, <1>2

LEMMA NewOk ==
  ASSUME NEW t \in SendRecords, NEW x \in BOOLEAN
  PROVE  /\ [t EXCEPT !.ok = x] = [pc |-> t.pc, bundled |-> t.bundled, want |-> t.want, got |-> t.got, ok |-> x]
         /\ [t EXCEPT !.ok = x] \in SendRecords
<1>1. [t EXCEPT !.ok = x] \in SendRecords
  BY DEF SendRecords
<1>2. [t EXCEPT !.ok = x] = [pc |-> t.pc, bundled |-> t.bundled, want |-> t.want, got |-> t.got, ok |-> x]
  BY DEF SendRecords
<1> QED
  BY <1>1, <1>2

LEMMA NewWant ==
  ASSUME NEW t \in SendRecords, NEW x \in Seq(Uploads)
  PROVE  /\ [t EXCEPT !.want = x] = [pc |-> t.pc, bundled |-> t.bundled, want |-> x, got |-> t.got, ok |-> t.ok]
         /\ [t EXCEPT !.want = x] \in SendRecords
<1>1. [t EXCEPT !.want = x] \in SendRecords
  BY DEF SendRecords
<1>2. [t EXCEPT !.want = x] = [pc |-> t.pc, bundled |-> t.bundled, want |-> x, got |-> t.got, ok |-> t.ok]
  BY DEF SendRecords
<1> QED
  BY <1>1, <1>2

LEMMA NewBundled ==
  ASSUME NEW t \in SendRecords, NEW x \in BOOLEAN
  PROVE  /\ [t EXCEPT !.bundled = x] = [pc |-> t.pc, bundled |-> x, want |-> t.want, got |-> t.got, ok |-> t.ok]
         /\ [t EXCEPT !.bundled = x] \in SendRecords
BY DEF SendRecords

LEMMA NewPcGot ==
  ASSUME NEW t \in SendRecords, NEW x \in Steps, NEW y \in Seq(Uploads)
  PROVE  /\ [t EXCEPT !.pc = x, !.got = y] = [pc |-> x, bundled |-> t.bundled, want |-> t.want, got |-> y, ok |-> t.ok]
         /\ [t EXCEPT !.pc = x, !.got = y] \in SendRecords
<1> DEFINE r == [t EXCEPT !.pc = x]
<1>1. r \in SendRecords
  BY NewPc
<1>2. r.pc = x /\ r.bundled = t.bundled /\ r.want = t.want /\ r.ok = t.ok
  BY DEF SendRecords
<1>3. [t EXCEPT !.pc = x, !.got = y] = [r EXCEPT !.got = y]
  OBVIOUS
<1> HIDE DEF r
<1>4. /\ [r EXCEPT !.got = y] = [pc |-> r.pc, bundled |-> r.bundled, want |-> r.want, got |-> y, ok |-> r.ok]
      /\ [r EXCEPT !.got = y] \in SendRecords
  BY <1>1, NewGot
<1> QED
  BY <1>2, <1>3, <1>4

LEMMA NewPcOk ==
  ASSUME NEW t \in SendRecords, NEW x \in Steps, NEW y \in BOOLEAN
  PROVE  /\ [t EXCEPT !.pc = x, !.ok = y] = [pc |-> x, bundled |-> t.bundled, want |-> t.want, got |-> t.got, ok |-> y]
         /\ [t EXCEPT !.pc = x, !.ok = y] \in SendRecords
<1> DEFINE r == [t EXCEPT !.pc = x]
<1>1. r \in SendRecords
  BY NewPc
<1>2. r.pc = x /\ r.bundled = t.bundled /\ r.want = t.want /\ r.got = t.got
  BY DEF SendRecords
<1>3. [t EXCEPT !.pc = x, !.ok = y] = [r EXCEPT !.ok = y]
  OBVIOUS
<1> HIDE DEF r
<1>4. /\ [r EXCEPT !.ok = y] = [pc |-> r.pc, bundled |-> r.bundled, want |-> r.want, got |-> r.got, ok |-> y]
      /\ [r EXCEPT !.ok = y] \in SendRecords
  BY <1>1, NewOk
<1> QED
  BY <1>2, <1>3, <1>4

LEMMA NewPcWant ==
  ASSUME NEW t \in SendRecords, NEW x \in Steps, NEW y \in Seq(Uploads)
  PROVE  /\ [t EXCEPT !.pc = x, !.want = y] = [pc |-> x, bundled |-> t.bundled, want |-> y, got |-> t.got, ok |-> t.ok]
         /\ [t EXCEPT !.pc = x, !.want = y] \in SendRecords
<1> DEFINE r == [t EXCEPT !.pc = x]
<1>1. r \in SendRecords
  BY NewPc
<1>2. r.pc = x /\ r.bundled = t.bundled /\ r.got = t.got /\ r.ok = t.ok
  BY DEF SendRecords
<1>3. [t EXCEPT !.pc = x, !.want = y] = [r EXCEPT !.want = y]
  OBVIOUS
<1> HIDE DEF r
<1>4. /\ [r EXCEPT !.want = y] = [pc |-> r.pc, bundled |-> r.bundled, want |-> y, got |-> r.got, ok |-> r.ok]
      /\ [r EXCEPT !.want = y] \in SendRecords
  BY <1>1, NewWant
<1> QED
  BY <1>2, <1>3, <1>4

LEMMA Started ==
  ASSUME NEW want \in Seq(Uploads), NEW b \in BOOLEAN
  PROVE  LET t == [IdleSend EXCEPT !.pc = "claim", !.want = want, !.bundled = b] IN
         /\ t \in SendRecords
         /\ t.pc = "claim" /\ t.bundled = b /\ t.want = want /\ t.got = <<>> /\ t.ok = FALSE
<1> DEFINE r == [IdleSend EXCEPT !.pc = "claim", !.want = want]
<1>1. /\ IdleSend \in SendRecords
      /\ IdleSend.bundled = FALSE /\ IdleSend.got = <<>> /\ IdleSend.ok = FALSE
  BY DEF IdleSend, SendRecords, Steps
<1>2. /\ r \in SendRecords
      /\ r = [pc |-> "claim", bundled |-> IdleSend.bundled, want |-> want,
              got |-> IdleSend.got, ok |-> IdleSend.ok]
  BY <1>1, NewPcWant DEF Steps
<1>3. [IdleSend EXCEPT !.pc = "claim", !.want = want, !.bundled = b] = [r EXCEPT !.bundled = b]
  OBVIOUS
<1> HIDE DEF r
<1>4. /\ [r EXCEPT !.bundled = b] \in SendRecords
      /\ [r EXCEPT !.bundled = b] = [pc |-> r.pc, bundled |-> b, want |-> r.want,
                                     got |-> r.got, ok |-> r.ok]
  BY <1>2, NewBundled
<1> QED
  BY <1>1, <1>2, <1>3, <1>4

LEMMA RequestIs == ASSUME NEW want \in Requests PROVE want \in Seq(Uploads) /\ Len(want) \in {1, 2}
<1>1. CASE want \in {<<u>> : u \in Uploads}
  <2>1. PICK u \in Uploads : want = <<u>>
    BY <1>1
  <2> QED
    BY <2>1
<1>2. CASE want \in {q \in Uploads \X Uploads : q[1] # q[2]}
  <2>1. PICK u \in Uploads, v \in Uploads : want = <<u, v>>
    BY <1>2
  <2> QED
    BY <2>1
<1> QED
  BY <1>1, <1>2 DEF Requests

LEMMA StartHolds ==
  ASSUME IInv, NEW s \in Senders, NEW want \in Requests, SendStart(s, want)
  PROVE  SendsStep(s, send'[s]) /\ HoldsKept /\ ~send'[s].ok
<1> DEFINE t == [IdleSend EXCEPT !.pc = "claim", !.want = want, !.bundled = Len(want) > 1]
<1>1. want \in Seq(Uploads) /\ Len(want) \in {1, 2} /\ (Len(want) > 1) \in BOOLEAN
  BY RequestIs
<1>2. t.pc = "claim" /\ t.bundled = (Len(want) > 1) /\ t.want = want /\ t.got = <<>> /\ t.ok = FALSE
  BY <1>1, Started
<1>3. t \in SendRecords
  BY <1>1, Started
<1> HIDE DEF t
<1>4. Local(t)
  <2>1. Len(t.got) = 0 /\ DOMAIN t.got = {}
    BY <1>2
  <2>2. Len(t.want) > 0 /\ Len(t.got) < Len(t.want) /\ (~t.bundled => Len(t.want) = 1)
    <3> DEFINE n == Len(want)
    <3>1. n \in {1, 2} /\ Len(t.want) = n /\ (t.bundled <=> n > 1)
      BY <1>1, <1>2
    <3> HIDE DEF n
    <3>2. n > 0 /\ 0 < n /\ (~(n > 1) => n = 1)
      BY <3>1
    <3> QED
      BY <2>1, <3>1, <3>2
  <2>3. Len(t.got) <= Len(t.want) /\ Distinct(t.got) /\ ~t.ok
    BY <1>2, <2>1, <2>2 DEF Distinct
  <2> QED
    BY <1>2, <2>1, <2>2, <2>3 DEF Local
<1>5. send' = [send EXCEPT ![s] = t] /\ send[s].pc = "idle"
  BY DEF SendStart, t
<1>6. \A u \in Uploads : ~Carries(t.got, u) /\ ~Carries(send[s].got, u)
  BY <1>2, <1>5, LocalOf DEF Local, Carries
<1>7. HoldsKept
  BY <1>3, <1>4, <1>5, <1>6, OneRecord, LocalOf DEF HoldsKept
<1> QED
  BY <1>2, <1>3, <1>4, <1>5, <1>7, OneRecord DEF SendsStep

LEMMA ClaimHolds ==
  ASSUME IInv, NEW s \in Senders, Claim(s)
  PROVE  /\ Wanted(s) \in Uploads /\ SendsStep(s, send'[s]) /\ ~send'[s].ok
         /\ \A r \in Senders, u \in Uploads :
              Carries(send'[r].got, u) <=> Carries(send[r].got, u) \/ (r = s /\ u = Wanted(s))
<1> DEFINE t == [send[s] EXCEPT !.pc = "read", !.got = Append(@, Wanted(s))]
           q == send[s].got
           w == Wanted(s)
<1>1. /\ send[s] \in SendRecords /\ Local(send[s]) /\ send[s].pc = "claim"
  BY LocalOf DEF Claim
<1>2. /\ q \in Seq(Uploads) /\ send[s].want \in Seq(Uploads) /\ Len(q) < Len(send[s].want)
      /\ Distinct(q) /\ \A i \in DOMAIN q : q[i] = send[s].want[i]
      /\ Len(send[s].want) > 0 /\ (~send[s].bundled => Len(send[s].want) = 1)
      /\ send[s].ok = FALSE
  BY <1>1 DEF Local, SendRecords
<1>3. w \in Uploads /\ w = send[s].want[Len(q) + 1]
  BY <1>2 DEF Wanted
<1>4. row[w] = "staged"
  BY DEF Claim, Claimable
<1>5. ~Carries(q, w)
  BY <1>1, <1>3, <1>4 DEF IInv, Kept, HeldIsClaimed
<1>6. /\ Append(q, w) \in Seq(Uploads) /\ Distinct(Append(q, w))
      /\ Len(Append(q, w)) = Len(q) + 1 /\ Append(q, w)[Len(q) + 1] = w
      /\ \A i \in DOMAIN q : Append(q, w)[i] = q[i]
      /\ \A x \in Uploads : Carries(Append(q, w), x) <=> Carries(q, x) \/ x = w
  BY <1>2, <1>3, <1>5, Appended
<1>7. t = [pc |-> "read", bundled |-> send[s].bundled, want |-> send[s].want,
           got |-> Append(q, w), ok |-> send[s].ok]
  BY <1>1, <1>6, NewPcGot DEF Steps
<1>8. send' = [send EXCEPT ![s] = t]
  BY DEF Claim, IInv, Types
<1> HIDE DEF t, q, w
<1>9. t \in SendRecords
  BY <1>1, <1>6, <1>7 DEF SendRecords, Steps
<1>10. Local(t)
  <2>1. \A i \in DOMAIN Append(q, w) : Append(q, w)[i] = send[s].want[i]
    BY <1>2, <1>3, <1>6
  <2> QED
    BY <1>2, <1>6, <1>7, <2>1 DEF Local
<1>11. \A r \in Senders, u \in Uploads : Carries(send'[r].got, u) <=> Carries(send[r].got, u) \/ (r = s /\ u = w)
  BY <1>1, <1>6, <1>7, <1>8, <1>9, <1>10, OneRecord DEF q
<1>12. t.ok = FALSE
  BY <1>2, <1>7
<1>13. SendsStep(s, t) /\ send'[s] = t
  BY <1>8, <1>9, <1>10, OneRecord DEF SendsStep
<1> QED
  BY <1>3, <1>11, <1>12, <1>13 DEF w

LEMMA SameHolds ==
  ASSUME IInv, NEW s \in Senders, NEW t \in SendRecords, Local(t), t.got = send[s].got,
         send' = [send EXCEPT ![s] = t]
  PROVE  SendsStep(s, t) /\ HoldsKept
BY OneRecord, LocalOf DEF SendsStep, HoldsKept

LEMMA NothingHolds ==
  ASSUME IInv, NEW s \in Senders, ClaimNothing(s)
  PROVE  SendsStep(s, send'[s]) /\ HoldsKept /\ ~send'[s].ok
<1> DEFINE t == [send[s] EXCEPT !.pc = "settle"]
<1>1. send[s] \in SendRecords /\ Local(send[s]) /\ send[s].pc = "claim"
  BY LocalOf DEF ClaimNothing
<1>2. t = [pc |-> "settle", bundled |-> send[s].bundled, want |-> send[s].want,
           got |-> send[s].got, ok |-> send[s].ok]
  BY <1>1 DEF SendRecords
<1>3. t \in SendRecords /\ ~t.ok
  BY <1>1, <1>2 DEF SendRecords, Steps, Local
<1>4. Local(t)
  BY <1>1, <1>2 DEF Local
<1>5. send' = [send EXCEPT ![s] = t]
  BY DEF ClaimNothing
<1> HIDE DEF t
<1> QED
  BY <1>2, <1>3, <1>4, <1>5, SameHolds DEF SendsStep

LEMMA ReadHolds ==
  ASSUME IInv, NEW s \in Senders, Read(s)
  PROVE  SendsStep(s, send'[s]) /\ HoldsKept /\ ~send'[s].ok
<1> DEFINE p == IF Len(send[s].got) < Len(send[s].want) THEN "claim" ELSE "send"
           t == [send[s] EXCEPT !.pc = p]
<1>1. send[s] \in SendRecords /\ Local(send[s]) /\ send[s].pc = "read"
  BY LocalOf DEF Read
<1>2. t = [pc |-> p, bundled |-> send[s].bundled, want |-> send[s].want,
           got |-> send[s].got, ok |-> send[s].ok]
  BY <1>1 DEF SendRecords
<1>3. t \in SendRecords /\ ~t.ok
  BY <1>1, <1>2 DEF SendRecords, Steps, Local
<1>4. Len(send[s].got) \in Nat /\ Len(send[s].want) \in Nat
  BY <1>1 DEF SendRecords
<1>5. Local(t)
  BY <1>1, <1>2, <1>4 DEF Local
<1>6. send' = [send EXCEPT ![s] = t]
  BY DEF Read
<1> HIDE DEF t
<1> QED
  BY <1>2, <1>3, <1>5, <1>6, SameHolds DEF SendsStep

LEMMA SendHolds ==
  ASSUME IInv, NEW s \in Senders, Send(s)
  PROVE  /\ SendsStep(s, send'[s]) /\ HoldsKept
         /\ \/ send'[s].ok /\ sent' = [u \in Uploads |-> IF Carries(send[s].got, u) THEN sent[u] + 1 ELSE sent[u]]
            \/ ~send'[s].ok /\ sent' = sent
<1> DEFINE T(b) == [send[s] EXCEPT !.pc = "settle", !.ok = b]
<1>1. send[s] \in SendRecords /\ Local(send[s]) /\ send[s].pc = "send"
  BY LocalOf DEF Send
<1>2. \A b \in BOOLEAN : T(b) = [pc |-> "settle", bundled |-> send[s].bundled,
                                 want |-> send[s].want, got |-> send[s].got, ok |-> b]
  BY <1>1, NewPcOk DEF Steps
<1>3. \A b \in BOOLEAN : T(b) \in SendRecords
  BY <1>1, <1>2 DEF SendRecords, Steps
<1>4. \A b \in BOOLEAN : Local(T(b))
  BY <1>1, <1>2 DEF Local
<1>5. \/ /\ sent' = [u \in Uploads |-> IF Carries(send[s].got, u) THEN sent[u] + 1 ELSE sent[u]]
         /\ send' = [send EXCEPT ![s] = T(TRUE)]
      \/ sent' = sent /\ send' = [send EXCEPT ![s] = T(FALSE)]
  <2>1. send[s].ok = FALSE /\ send \in [Senders -> SendRecords]
    BY <1>1 DEF Local, SendRecords, IInv, Types
  <2>2. [send[s] EXCEPT !.pc = "settle"] = T(FALSE)
    BY <1>1, <2>1 DEF SendRecords
  <2>3. CASE send' = [send EXCEPT ![s].pc = "settle"] /\ UNCHANGED sent
    BY <2>2, <2>3
  <2>4. CASE /\ sent' = [u \in Uploads |->
                          IF \E i \in DOMAIN send[s].got : send[s].got[i] = u
                            THEN sent[u] + 1 ELSE sent[u]]
             /\ send' = [send EXCEPT ![s].pc = "settle", ![s].ok = TRUE]
    <3>1. send' = [send EXCEPT ![s] = T(TRUE)]
      BY <2>1, <2>4
    <3> QED
      BY <2>4, <3>1 DEF Carries
  <2> QED
    BY <2>3, <2>4 DEF Send
<1>6. \A b \in BOOLEAN : T(b).got = send[s].got /\ T(b).ok = b
  BY <1>2
<1> HIDE DEF T
<1>7. CASE /\ sent' = [u \in Uploads |-> IF Carries(send[s].got, u) THEN sent[u] + 1 ELSE sent[u]]
           /\ send' = [send EXCEPT ![s] = T(TRUE)]
  <2>1. SendsStep(s, T(TRUE)) /\ HoldsKept
    BY <1>3, <1>4, <1>6, <1>7, SameHolds
  <2> QED
    BY <1>6, <1>7, <2>1 DEF SendsStep
<1>8. CASE sent' = sent /\ send' = [send EXCEPT ![s] = T(FALSE)]
  <2>1. SendsStep(s, T(FALSE)) /\ HoldsKept
    BY <1>3, <1>4, <1>6, <1>8, SameHolds
  <2> QED
    BY <1>6, <1>8, <2>1 DEF SendsStep
<1> QED
  BY <1>5, <1>7, <1>8

LEMMA TimesOutHolds ==
  ASSUME IInv, NEW s \in Senders, SendTimesOut(s)
  PROVE  /\ SendsStep(s, send'[s]) /\ HoldsKept /\ ~send'[s].ok
         /\ doubted' = [u \in Uploads |-> IF Carries(send[s].got, u) THEN doubted[u] + 1 ELSE doubted[u]]
<1> DEFINE t == [send[s] EXCEPT !.pc = "settle"]
<1>1. send[s] \in SendRecords /\ Local(send[s]) /\ send[s].pc = "send"
  BY LocalOf DEF SendTimesOut
<1>2. t = [pc |-> "settle", bundled |-> send[s].bundled, want |-> send[s].want,
           got |-> send[s].got, ok |-> send[s].ok]
  BY <1>1 DEF SendRecords
<1>3. t \in SendRecords /\ ~t.ok
  BY <1>1, <1>2 DEF SendRecords, Steps, Local
<1>4. Local(t)
  BY <1>1, <1>2 DEF Local
<1>5. send' = [send EXCEPT ![s] = t]
  BY DEF SendTimesOut
<1>6. doubted' = [u \in Uploads |-> IF Carries(send[s].got, u) THEN doubted[u] + 1 ELSE doubted[u]]
  BY DEF SendTimesOut, Carries
<1> HIDE DEF t
<1> QED
  BY <1>2, <1>3, <1>4, <1>5, <1>6, SameHolds DEF SendsStep

LEMMA ReadFailsHolds ==
  ASSUME IInv, NEW s \in Senders, ReadFails(s)
  PROVE  SendsStep(s, send'[s]) /\ HoldsKept /\ ~send'[s].ok
<1> DEFINE q == send[s].got
           f == Rotated(q)
           t == [send[s] EXCEPT !.pc = "settle", !.got = f]
<1>1. /\ send[s] \in SendRecords /\ Local(send[s]) /\ send[s].pc = "read"
  BY LocalOf DEF ReadFails
<1>2. /\ q \in Seq(Uploads) /\ Distinct(q) /\ Len(q) > 0 /\ Len(q) <= Len(send[s].want)
      /\ Len(send[s].want) > 0 /\ (~send[s].bundled => Len(send[s].want) = 1)
      /\ send[s].ok = FALSE /\ send[s].want \in Seq(Uploads)
  BY <1>1 DEF Local, SendRecords
<1>3. /\ f \in Seq(Uploads) /\ Distinct(f) /\ Len(f) = Len(q)
      /\ \A x \in Uploads : Carries(f, x) <=> Carries(q, x)
  BY <1>2, RotatedIs
<1>4. send' = [send EXCEPT ![s] = t]
  BY DEF ReadFails, Rotated, IInv, Types
<1> HIDE DEF f
<1>5. t = [pc |-> "settle", bundled |-> send[s].bundled, want |-> send[s].want,
           got |-> f, ok |-> send[s].ok]
  BY <1>1, <1>3, NewPcGot DEF Steps
<1> HIDE DEF t
<1>6. t \in SendRecords
  BY <1>1, <1>3, <1>5 DEF SendRecords, Steps
<1>7. Local(t)
  BY <1>2, <1>3, <1>5 DEF Local
<1>8. HoldsKept
  BY <1>1, <1>3, <1>4, <1>5, <1>6, <1>7, OneRecord DEF HoldsKept
<1>9. SendsStep(s, t)
  BY <1>4, <1>6, <1>7, OneRecord DEF SendsStep
<1> QED
  BY <1>2, <1>5, <1>8, <1>9 DEF SendsStep

LEMMA SettleHolds ==
  ASSUME IInv, NEW s \in Senders, Settle(s)
  PROVE  LET u == Head(send[s].got) IN
         /\ u \in Uploads /\ Carries(send[s].got, u) /\ SendsStep(s, send'[s]) /\ HoldsLess(s, u)
         /\ send'[s].ok = send[s].ok
<1> DEFINE q == send[s].got
           t == [send[s] EXCEPT !.got = Tail(@)]
<1>1. /\ send[s] \in SendRecords /\ Local(send[s]) /\ send[s].pc = "settle" /\ q # <<>>
  BY LocalOf DEF Settle
<1>2. /\ q \in Seq(Uploads) /\ Distinct(q) /\ Len(q) <= Len(send[s].want)
      /\ Len(send[s].want) > 0 /\ (~send[s].bundled => Len(send[s].want) = 1)
      /\ send[s].want \in Seq(Uploads)
  BY <1>1 DEF Local, SendRecords
<1>3. /\ Head(q) \in Uploads /\ Carries(q, Head(q))
      /\ Tail(q) \in Seq(Uploads) /\ Distinct(Tail(q)) /\ Len(Tail(q)) <= Len(q)
      /\ \A x \in Uploads : Carries(Tail(q), x) <=> Carries(q, x) /\ x # Head(q)
  BY <1>1, <1>2, Tailed
<1>4. t = [pc |-> "settle", bundled |-> send[s].bundled, want |-> send[s].want,
           got |-> Tail(q), ok |-> send[s].ok]
  BY <1>1, <1>3, NewGot
<1>5. send' = [send EXCEPT ![s] = t]
  BY DEF Settle, IInv, Types
<1> HIDE DEF t
<1>6. t \in SendRecords
  BY <1>1, <1>3, <1>4 DEF SendRecords, Steps
<1>7. Local(t)
  <2>1. Len(Tail(q)) <= Len(send[s].want)
    BY <1>2, <1>3
  <2> QED
    BY <1>2, <1>3, <1>4, <2>1 DEF Local
<1>8. HoldsLess(s, Head(q))
  BY <1>1, <1>3, <1>4, <1>5, <1>6, <1>7, OneRecord DEF HoldsLess
<1>9. SendsStep(s, t)
  BY <1>5, <1>6, <1>7, OneRecord DEF SendsStep
<1> QED
  BY <1>1, <1>3, <1>4, <1>8, <1>9 DEF SendsStep

\* A request that has ended, or was dropped, holds nothing.
LEMMA IdleHolds ==
  ASSUME IInv, NEW s \in Senders, send' = [send EXCEPT ![s] = IdleSend]
  PROVE  /\ SendsStep(s, send'[s]) /\ ~send'[s].ok
         /\ \A r \in Senders, u \in Uploads : Carries(send'[r].got, u) <=> Carries(send[r].got, u) /\ r # s
<1>1. IdleSend \in SendRecords /\ IdleSend.got = <<>> /\ IdleSend.ok = FALSE
  BY DEF IdleSend, SendRecords, Steps
<1>2. Local(IdleSend)
  BY DEF IdleSend, Local, Distinct
<1>3. \A u : ~Carries(IdleSend.got, u)
  BY <1>1 DEF Carries
<1> QED
  BY <1>1, <1>2, <1>3, OneRecord DEF SendsStep

\* The one upload of a request that is dropped while it sends.
LEMMA DroppedSend ==
  ASSUME IInv, NEW s \in Senders, send[s].pc = "send", ~send[s].bundled
  PROVE  /\ send[s].want[1] \in Uploads
         /\ \A u \in Uploads : Carries(send[s].got, u) <=> u = send[s].want[1]
<1>1. send[s] \in SendRecords /\ Local(send[s])
  BY LocalOf
<1>2. /\ send[s].got \in Seq(Uploads) /\ send[s].want \in Seq(Uploads)
      /\ Len(send[s].want) = 1 /\ Len(send[s].got) = 1
      /\ \A i \in DOMAIN send[s].got : send[s].got[i] = send[s].want[i]
  BY <1>1 DEF SendRecords, Local
<1>3. DOMAIN send[s].got = {1} /\ send[s].want[1] \in Uploads
  BY <1>2
<1> QED
  BY <1>2, <1>3 DEF Carries

-----------------------------------------------------------------------------
(* Every step keeps the invariant *)

\* Staging: the file is there before the row, and the row before the end.
LEMMA StageKeeps ==
  ASSUME IInv, NEW u \in Uploads, StageNext(u)
  PROVE  IInv'
<1> USE DEF IInv, Types, Writing, Settled
<1>0. UNCHANGED <<send, sent, doubted, boot, crashes>>
  BY DEF StageNext, StageStart, StageRename, StageInsert, StageCount, StagePreview, StageRefused,
         StageFails, StageDropped, count
<1>1. Locals'
  BY <1>0 DEF Locals
<1>2. CASE StageStart(u)
  <2>1. Types'
    BY <1>0, <1>2 DEF StageStart, rows, files
  <2>2. Kept'
    BY <1>0, <1>2 DEF StageStart, rows, Serving, Kept, RowsAreStaged, HeldIsClaimed, OneHolder,
       BootIsAlone, FilesWait, HeldHasFile, StagedHasFile, SentIsSpent, OkIsSent
  <2> QED
    BY <1>1, <2>1, <2>2
<1>3. CASE StageRename(u)
  <2>1. Types'
    BY <1>0, <1>3 DEF StageRename, rows, files
  <2>2. Kept'
    BY <1>0, <1>3 DEF StageRename, rows, Kept, RowsAreStaged, HeldIsClaimed, OneHolder,
       BootIsAlone, FilesWait, HeldHasFile, StagedHasFile, SentIsSpent, OkIsSent
  <2> QED
    BY <1>1, <2>1, <2>2
<1>4. CASE StageCount(u)
  <2>1. Types'
    BY <1>0, <1>4 DEF StageCount, rows, files
  <2>2. Kept'
    BY <1>0, <1>4 DEF StageCount, rows, files, Kept, RowsAreStaged, HeldIsClaimed, OneHolder,
       BootIsAlone, FilesWait, HeldHasFile, StagedHasFile, SentIsSpent, OkIsSent
  <2> QED
    BY <1>1, <2>1, <2>2
\* The insert: a row of a staging that ends well, or of one that was dropped.
<1>5. ASSUME row' = [row EXCEPT ![u] = "staged"], stage[u] \in {"insert", "counted"},
             UNCHANGED file,
             \/ stage' = [stage EXCEPT ![u] = "done"] /\ UNCHANGED unlinks
             \/ stage' = [stage EXCEPT ![u] = "failed"] /\ unlinks' = unlinks \cup {u}
      PROVE  IInv'
  <2>1. Types'
    BY <1>0, <1>5
  <2>2. Kept'
    BY <1>0, <1>5 DEF Kept, RowsAreStaged, HeldIsClaimed, OneHolder,
       BootIsAlone, FilesWait, HeldHasFile, StagedHasFile, SentIsSpent, OkIsSent
  <2> QED
    BY <1>1, <2>1, <2>2
<1>6. ASSUME UNCHANGED row, stage[u] \in Writing, stage' = [stage EXCEPT ![u] = "failed"],
             unlinks' \in {unlinks, unlinks \cup {u}},
             file' \in {file, [file EXCEPT ![u] = "final"]}
      PROVE  IInv'
  <2>1. Types'
    BY <1>0, <1>6
  <2>2. Kept'
    BY <1>0, <1>6 DEF Kept, RowsAreStaged, HeldIsClaimed, OneHolder,
       BootIsAlone, FilesWait, HeldHasFile, StagedHasFile, SentIsSpent, OkIsSent
  <2> QED
    BY <1>1, <2>1, <2>2
<1>7. CASE StageInsert(u)
  BY <1>5, <1>7 DEF StageInsert, Inserted, files
<1>8. CASE StagePreview(u)
  BY <1>5, <1>8 DEF StagePreview, Inserted, files
<1>9. CASE StageRefused(u)
  BY <1>6, <1>9 DEF StageRefused, Abandoned, rows
<1>10. CASE StageFails(u)
  BY <1>6, <1>10 DEF StageFails, Abandoned, rows
<1>11. CASE StageDropped(u)
  BY <1>5, <1>6, <1>11 DEF StageDropped, Abandoned, Inserted
<1> QED
  BY <1>2, <1>3, <1>4, <1>7, <1>8, <1>9, <1>10, <1>11 DEF StageNext

\* Removals, discards, expiry, the account's deletion and the boot.
LEMMA StoreKeeps ==
  ASSUME IInv, \/ \E u \in Uploads : Unlink(u) \/ DeleteUpload(u) \/ Expire(u)
               \/ Sweep \/ DeleteAccount \/ BootNext
  PROVE  IInv'
<1> USE DEF IInv, Types, Settled
<1>0. UNCHANGED <<send, sent, doubted, stage, crashes>>
  BY DEF Unlink, DeleteUpload, Expire, Sweep, DeleteAccount, BootNext, BootReset, BootPrune,
         BootSweep, Skips, count
<1>1. Locals'
  BY <1>0 DEF Locals
<1>2. ASSUME NEW u \in Uploads, Unlink(u) PROVE IInv'
  <2>1. Types'
    BY <1>0, <1>2 DEF Unlink, rows
  <2>2. Kept'
    BY <1>0, <1>2 DEF Unlink, rows, Kept, RowsAreStaged, HeldIsClaimed, OneHolder,
       BootIsAlone, FilesWait, HeldHasFile, StagedHasFile, SentIsSpent, OkIsSent
  <2> QED
    BY <1>1, <2>1, <2>2
\* Rows that are withdrawn while they are on offer.
<1>3. ASSUME NEW W \in SUBSET Uploads, \A u \in W : row[u] = "staged", UNCHANGED file,
             row' = [u \in Uploads |-> IF u \in W THEN "none" ELSE row[u]],
             unlinks' = unlinks \cup W, boot' \in {boot, "up"}
      PROVE  IInv'
  <2>1. Types'
    BY <1>0, <1>3
  <2>2. Kept'
    BY <1>0, <1>3 DEF Kept, RowsAreStaged, HeldIsClaimed, OneHolder,
       BootIsAlone, FilesWait, HeldHasFile, StagedHasFile, SentIsSpent, OkIsSent
  <2> QED
    BY <1>1, <2>1, <2>2
<1>4. ASSUME NEW u \in Uploads, DeleteUpload(u) PROVE IInv'
  <2>1. row' = [v \in Uploads |-> IF v \in {u} THEN "none" ELSE row[v]]
    BY <1>4 DEF DeleteUpload
  <2> QED
    BY <1>3, <1>4, <2>1 DEF DeleteUpload
<1>5. ASSUME NEW u \in Uploads, Expire(u) PROVE IInv'
  <2>1. Types'
    BY <1>0, <1>5 DEF Expire, files
  <2>2. Kept'
    BY <1>0, <1>5 DEF Expire, files, Kept, RowsAreStaged, HeldIsClaimed, OneHolder,
       BootIsAlone, FilesWait, HeldHasFile, StagedHasFile, SentIsSpent, OkIsSent
  <2> QED
    BY <1>1, <2>1, <2>2
<1>6. CASE Sweep
  BY <1>3, <1>6 DEF Sweep, Sweeps, Swept
<1>7. CASE DeleteAccount
  <2>1. Types'
    BY <1>0, <1>7 DEF DeleteAccount, files
  <2>2. Kept'
    BY <1>0, <1>7 DEF DeleteAccount, files, Kept, RowsAreStaged, HeldIsClaimed, OneHolder,
       BootIsAlone, FilesWait, HeldHasFile, StagedHasFile, SentIsSpent, OkIsSent
  <2> QED
    BY <1>1, <2>1, <2>2
<1>8. ASSUME UNCHANGED <<row, file, unlinks>>, boot # "up", boot' \in {"up", "prune", "sweep"}
      PROVE  IInv'
  <2>1. Types'
    BY <1>0, <1>8
  <2>2. Kept'
    BY <1>0, <1>8 DEF Kept, RowsAreStaged, HeldIsClaimed, OneHolder,
       BootIsAlone, FilesWait, HeldHasFile, StagedHasFile, SentIsSpent, OkIsSent
  <2> QED
    BY <1>1, <2>1, <2>2
\* Nobody holds anything while the boot runs.
<1>9. ASSUME boot # "up", NEW s \in Senders, NEW u \in Uploads PROVE ~Carries(send[s].got, u)
  BY <1>9 DEF Kept, BootIsAlone, Locals, Local, Carries
<1>10. CASE BootReset
  <2>1. CASE Skips("prune")
    BY <1>8, <1>10, <2>1 DEF BootReset, Skips, rows, files
  <2>2. CASE /\ row' = [u \in Uploads |-> IF row[u] = "sending" THEN "staged" ELSE row[u]]
             /\ boot' = "prune"
             /\ UNCHANGED files
    <3>1. Types'
      BY <1>0, <2>2 DEF files
    <3>2. Kept'
      BY <1>0, <1>9, <1>10, <2>2 DEF BootReset, files, Kept, RowsAreStaged, HeldIsClaimed, OneHolder,
         BootIsAlone, FilesWait, HeldHasFile, StagedHasFile, SentIsSpent, OkIsSent
    <3> QED
      BY <1>1, <3>1, <3>2
  <2> QED
    BY <1>10, <2>1, <2>2 DEF BootReset
<1>11. CASE BootPrune
  <2>1. CASE Skips("sweep")
    BY <1>8, <1>11, <2>1 DEF BootPrune, Skips, rows, files
  <2>2. CASE /\ file' = [u \in Uploads |-> IF u \in Orphans THEN "none" ELSE file[u]]
             /\ boot' = "sweep"
             /\ UNCHANGED <<rows, unlinks>>
    <3>1. Types'
      BY <1>0, <2>2 DEF rows
    <3>2. Kept'
      BY <1>0, <1>9, <1>11, <2>2 DEF BootPrune, Orphans, Writing, rows, Kept, RowsAreStaged, HeldIsClaimed,
         OneHolder, BootIsAlone, FilesWait, HeldHasFile, StagedHasFile, SentIsSpent, OkIsSent
    <3> QED
      BY <1>1, <3>1, <3>2
  <2> QED
    BY <1>11, <2>1, <2>2 DEF BootPrune
<1>12. CASE BootSweep
  <2>1. CASE Skips("up")
    BY <1>8, <1>12, <2>1 DEF BootSweep, Skips, rows, files
  <2>2. CASE Sweeps /\ boot' = "up" /\ UNCHANGED file
    <3>1. Swept \in SUBSET Uploads /\ \A u \in Swept : row[u] = "staged"
      BY DEF Swept
    <3> QED
      BY <1>3, <2>2, <3>1 DEF Sweeps
  <2> QED
    BY <1>12, <2>1, <2>2 DEF BootSweep
<1> QED
  BY <1>2, <1>4, <1>5, <1>6, <1>7, <1>10, <1>11, <1>12 DEF BootNext

\* A request's steps.
LEMMA SendKeeps ==
  ASSUME IInv, NEW s \in Senders,
         \/ SendStep(s) \/ SendDropped(s) \/ \E want \in Requests : SendStart(s, want)
  PROVE  IInv'
<1> USE DEF Settled
<1>0. /\ Types /\ Locals /\ Kept
      /\ UNCHANGED <<file, stage, boot, crashes>>
      /\ doubted' \in [Uploads -> Nat]
  <2>1. /\ Types /\ Locals /\ Kept
        /\ UNCHANGED <<file, stage, boot, crashes>>
        /\ SendTimesOut(s) \/ UNCHANGED doubted
    BY DEF IInv, SendStep, Claim, ClaimNothing, Read, ReadFails, Send, SendTimesOut, Settle, SendEnd,
           SendDropped, SendStart, files, count
  <2>2. CASE SendTimesOut(s)
    <3>1. doubted' = [u \in Uploads |-> IF Carries(send[s].got, u) THEN doubted[u] + 1 ELSE doubted[u]]
      BY <2>2, TimesOutHolds
    <3> QED
      BY <2>1, <3>1 DEF Types
  <2>3. CASE UNCHANGED doubted
    BY <2>1, <2>3 DEF Types
  <2> QED
    BY <2>1, <2>2, <2>3
<1>1. send[s].pc # "idle" => boot = "up"
  BY <1>0 DEF Kept, BootIsAlone
\* A step that leaves rows, files and deliveries alone, and holds no more than before.
<1>2. ASSUME UNCHANGED <<row, unlinks, sent>>, SendsStep(s, send'[s]), boot = "up",
             send'[s].ok => send[s].ok,
             \A u \in Uploads : Carries(send'[s].got, u) => Carries(send[s].got, u),
             \A u \in Uploads : sent[u] > 0 /\ crashes = 0 /\ Carries(send[s].got, u)
               => send'[s].ok \/ ~Carries(send'[s].got, u)
      PROVE  IInv'
  <2>1. Types'
    BY <1>0, <1>2 DEF Types, SendsStep
  <2>2. \A r \in Senders, u \in Uploads : Carries(send'[r].got, u) => Carries(send[r].got, u)
    BY <1>2 DEF SendsStep
  <2>3. RowsAreStaged' /\ HeldIsClaimed' /\ OneHolder' /\ BootIsAlone'
    BY <1>0, <1>2, <2>2 DEF Kept, RowsAreStaged, HeldIsClaimed, OneHolder, BootIsAlone
  <2>4. FilesWait' /\ HeldHasFile' /\ StagedHasFile'
    BY <1>0, <1>2, <2>2 DEF Kept, FilesWait, HeldHasFile, StagedHasFile
  <2>5. SentIsSpent' /\ OkIsSent'
    BY <1>0, <1>2, <2>2 DEF Kept, SentIsSpent, OkIsSent, SendsStep
  <2> QED
    BY <1>2, <2>1, <2>3, <2>4, <2>5 DEF IInv, Kept, SendsStep
<1>3. ASSUME send[s].pc \in {"idle", "claim", "read", "send"}, NEW u \in Uploads, crashes = 0,
             Carries(send[s].got, u)
      PROVE  sent[u] = 0
  <2>1. ~send[s].ok
    BY <1>0, <1>3 DEF Locals, Local
  <2> QED
    BY <1>0, <1>3, <2>1 DEF Kept, SentIsSpent, Types
<1>4. ASSUME NEW want \in Requests, SendStart(s, want) PROVE IInv'
  <2>1. SendsStep(s, send'[s]) /\ HoldsKept /\ ~send'[s].ok
    BY <1>4, StartHolds
  <2>2. send[s].pc = "idle" /\ boot = "up" /\ UNCHANGED <<row, unlinks, sent>>
    BY <1>4 DEF SendStart, Serving, rows, files
  <2> QED
    BY <1>0, <1>2, <1>3, <2>1, <2>2 DEF HoldsKept
<1>5. CASE ClaimNothing(s)
  <2>1. SendsStep(s, send'[s]) /\ HoldsKept /\ ~send'[s].ok
    BY <1>5, NothingHolds
  <2>2. send[s].pc = "claim" /\ boot = "up" /\ UNCHANGED <<row, unlinks, sent>>
    BY <1>1, <1>5 DEF ClaimNothing, rows, files
  <2> QED
    BY <1>0, <1>2, <1>3, <2>1, <2>2 DEF HoldsKept
<1>6. CASE Read(s)
  <2>1. SendsStep(s, send'[s]) /\ HoldsKept /\ ~send'[s].ok
    BY <1>6, ReadHolds
  <2>2. send[s].pc = "read" /\ boot = "up" /\ UNCHANGED <<row, unlinks, sent>>
    BY <1>1, <1>6 DEF Read, rows, files
  <2> QED
    BY <1>0, <1>2, <1>3, <2>1, <2>2 DEF HoldsKept
<1>7. ASSUME send' = [send EXCEPT ![s] = IdleSend], UNCHANGED <<row, unlinks, sent>>, boot = "up"
      PROVE  IInv'
  BY <1>2, <1>7, IdleHolds
<1>8. CASE SendEnd(s)
  BY <1>1, <1>7, <1>8 DEF SendEnd, rows, files
<1>9. CASE Claim(s)
  <2> DEFINE w == Wanted(s)
  <2>1. /\ w \in Uploads /\ SendsStep(s, send'[s]) /\ ~send'[s].ok
        /\ \A r \in Senders, u \in Uploads :
             Carries(send'[r].got, u) <=> Carries(send[r].got, u) \/ (r = s /\ u = w)
    BY <1>9, ClaimHolds
  <2>2. /\ row[w] = "staged" /\ row' = [row EXCEPT ![w] = "sending"] /\ UNCHANGED <<unlinks, sent>>
        /\ send[s].pc = "claim" /\ boot = "up"
    BY <1>1, <1>9 DEF Claim, Claimable, files
  <2> HIDE DEF w
  <2>3. Types'
    BY <1>0, <2>1, <2>2 DEF Types, SendsStep
  <2>4. RowsAreStaged' /\ BootIsAlone' /\ OneHolder'
    BY <1>0, <2>1, <2>2 DEF Kept, Types, RowsAreStaged, HeldIsClaimed, OneHolder, BootIsAlone
  <2>5. HeldIsClaimed'
    BY <1>0, <2>1, <2>2 DEF Kept, Types, RowsAreStaged, HeldIsClaimed
  <2>6. FilesWait' /\ HeldHasFile' /\ StagedHasFile'
    BY <1>0, <2>1, <2>2 DEF Kept, Types, FilesWait, HeldHasFile, StagedHasFile
  <2>7. sent[w] > 0 => crashes > 0
    BY <1>0, <2>1, <2>2 DEF Kept, SentIsSpent, Types
  <2>8. SentIsSpent'
    BY <1>0, <1>3, <2>1, <2>2, <2>7 DEF Kept, Types, SentIsSpent, SendsStep
  <2>9. OkIsSent'
    BY <1>0, <2>1, <2>2 DEF Kept, OkIsSent, SendsStep
  <2> QED
    BY <2>1, <2>3, <2>4, <2>5, <2>6, <2>8, <2>9 DEF IInv, Kept, SendsStep
\* One upload is released or consumed.
<1>10. ASSUME NEW x \in Uploads, Carries(send[s].got, x), HoldsLess(s, x), SendsStep(s, send'[s]),
              UNCHANGED sent, boot = "up", send'[s].ok = send[s].ok,
              \/ UNCHANGED <<row, unlinks>>
              \/ /\ row' = [row EXCEPT ![x] = IF @ = "sending" THEN "staged" ELSE @]
                 /\ ~send[s].ok /\ UNCHANGED unlinks
              \/ row' = [row EXCEPT ![x] = "none"] /\ unlinks' = unlinks \cup {x}
       PROVE  IInv'
  <2>1. Types'
    BY <1>0, <1>10 DEF Types, SendsStep
  <2>2. \A r \in Senders : ~Carries(send'[r].got, x)
    BY <1>0, <1>10 DEF Kept, OneHolder, HoldsLess
  <2>3. \A r \in Senders, u \in Uploads : Carries(send'[r].got, u) => Carries(send[r].got, u)
    BY <1>10 DEF HoldsLess
  <2>4. \A u \in Uploads \ {x} : row'[u] = row[u] /\ (u \in unlinks' <=> u \in unlinks)
    BY <1>0, <1>10 DEF Types
  <2>5. stage[x] \in Settled /\ row[x] # "staged"
    BY <1>0, <1>10 DEF Kept, HeldIsClaimed
  <2>6. RowsAreStaged' /\ HeldIsClaimed' /\ OneHolder' /\ BootIsAlone'
    BY <1>0, <1>10, <2>2, <2>3, <2>4, <2>5
       DEF Kept, RowsAreStaged, HeldIsClaimed, OneHolder, BootIsAlone
  <2>7. row'[x] # "none" => row[x] # "none"
    BY <1>0, <1>10 DEF Types
  <2>8. StagedHasFile' /\ HeldHasFile'
    BY <1>0, <2>3, <2>4, <2>7 DEF Kept, HeldHasFile, StagedHasFile
  <2>9. FilesWait'
    <3>1. x \in unlinks' /\ stage[x] = "done" => row'[x] = "none"
      BY <1>0, <1>10 DEF Types, Kept, FilesWait
    <3> QED
      BY <1>0, <2>2, <2>3, <2>4, <2>5, <3>1 DEF Kept, FilesWait
  <2>10. SentIsSpent'
    <3>1. ASSUME sent[x] > 0, crashes = 0 PROVE row'[x] # "staged"
      <4>1. send[s].ok
        BY <1>0, <1>10, <3>1 DEF Kept, SentIsSpent
      <4> QED
        BY <1>0, <1>10, <2>5, <4>1 DEF Types
    <3>2. \A r \in Senders : send'[r].ok = send[r].ok
      BY <1>10 DEF SendsStep
    <3> QED
      BY <1>0, <1>10, <2>2, <2>3, <2>4, <2>5, <3>1, <3>2 DEF Kept, SentIsSpent
  <2>11. OkIsSent'
    BY <1>0, <1>10, <2>3 DEF Kept, OkIsSent, SendsStep
  <2> QED
    BY <1>10, <2>1, <2>6, <2>8, <2>9, <2>10, <2>11 DEF IInv, Kept, SendsStep
<1>11. CASE ReadFails(s)
  <2>1. SendsStep(s, send'[s]) /\ HoldsKept /\ ~send'[s].ok
    BY <1>11, ReadFailsHolds
  <2>2. send[s].pc = "read" /\ boot = "up" /\ UNCHANGED <<row, unlinks, sent>>
    BY <1>1, <1>11 DEF ReadFails, rows, files
  <2> QED
    BY <1>0, <1>2, <1>3, <2>1, <2>2 DEF HoldsKept
<1>12. CASE Settle(s)
  <2> DEFINE x == Head(send[s].got)
  <2>1. /\ x \in Uploads /\ Carries(send[s].got, x) /\ SendsStep(s, send'[s]) /\ HoldsLess(s, x)
        /\ send'[s].ok = send[s].ok
    BY <1>12, SettleHolds
  <2>2. UNCHANGED sent /\ boot = "up"
    BY <1>1, <1>12 DEF Settle
  <2>3. \/ UNCHANGED <<row, unlinks>>
        \/ /\ row[x] = "sending" /\ row' = [row EXCEPT ![x] = "staged"]
           /\ ~send[s].ok /\ UNCHANGED unlinks
        \/ row' = [row EXCEPT ![x] = "none"] /\ unlinks' = unlinks \cup {x}
    BY <1>12 DEF Settle
  <2> HIDE DEF x
  <2>4. row[x] = "sending" =>
          [row EXCEPT ![x] = "staged"] = [row EXCEPT ![x] = IF @ = "sending" THEN "staged" ELSE @]
    BY <2>1
  <2> QED
    BY <1>10, <2>1, <2>2, <2>3, <2>4
\* Deliveries.
<1>13. ASSUME NEW D \in SUBSET Uploads, UNCHANGED <<row, unlinks>>, SendsStep(s, send'[s]), boot = "up",
              send[s].pc = "send",
              \A u \in D : Carries(send[s].got, u),
              sent' = [u \in Uploads |-> IF u \in D THEN sent[u] + 1 ELSE sent[u]],
              \A u \in Uploads : Carries(send'[s].got, u) => Carries(send[s].got, u) /\ u \in D,
              (\E u \in Uploads : Carries(send'[s].got, u)) => send'[s].ok
       PROVE  IInv'
  <2>1. Types'
    <3>1. sent' \in [Uploads -> Nat]
      BY <1>0, <1>13 DEF Types
    <3> QED
      BY <1>0, <1>13, <3>1 DEF Types, SendsStep
  <2>2. \A r \in Senders, u \in Uploads : Carries(send'[r].got, u) => Carries(send[r].got, u)
    BY <1>13 DEF SendsStep
  <2>3. RowsAreStaged' /\ HeldIsClaimed' /\ OneHolder' /\ BootIsAlone'
    BY <1>0, <1>13, <2>2 DEF Kept, RowsAreStaged, HeldIsClaimed, OneHolder, BootIsAlone
  <2>4. FilesWait' /\ HeldHasFile' /\ StagedHasFile'
    BY <1>0, <1>13, <2>2 DEF Kept, FilesWait, HeldHasFile, StagedHasFile
  <2>5. \A u \in Uploads : sent[u] \in Nat /\ sent'[u] = IF u \in D THEN sent[u] + 1 ELSE sent[u]
    BY <1>0, <1>13 DEF Types
  <2>6. \A u \in D : /\ stage[u] \in Settled /\ row[u] # "staged"
                     /\ crashes = 0 => sent[u] = 0
                     /\ \A r \in Senders \ {s} : ~Carries(send[r].got, u)
    BY <1>0, <1>3, <1>13 DEF Kept, HeldIsClaimed, OneHolder
  <2>7. \A r \in Senders \ {s} : send'[r] = send[r]
    BY <1>13 DEF SendsStep
  <2>8. SentIsSpent'
    <3> SUFFICES ASSUME NEW u \in Uploads, sent'[u] > 0
                 PROVE  /\ stage'[u] \in Settled
                        /\ crashes' = 0 => /\ sent'[u] = 1
                                           /\ row'[u] # "staged"
                                           /\ \A r \in Senders : Carries(send'[r].got, u) => send'[r].ok
      BY DEF SentIsSpent
    <3>1. CASE u \in D
      BY <1>0, <1>13, <2>2, <2>5, <2>6, <2>7, <3>1
    <3>2. CASE u \notin D
      <4>1. sent[u] > 0 /\ sent'[u] = sent[u] /\ ~Carries(send'[s].got, u)
        BY <1>13, <2>5, <3>2
      <4> QED
        BY <1>0, <1>13, <2>2, <2>7, <4>1 DEF Kept, SentIsSpent
    <3> QED
      BY <3>1, <3>2
  <2>9. OkIsSent'
    <3> SUFFICES ASSUME NEW r \in Senders, NEW u \in Uploads, send'[r].ok, Carries(send'[r].got, u)
                 PROVE  sent'[u] > 0
      BY DEF OkIsSent
    <3>1. CASE r = s
      BY <1>13, <2>5, <3>1
    <3>2. CASE r # s
      <4>1. sent[u] > 0
        BY <1>0, <2>7, <3>2 DEF Kept, OkIsSent
      <4> QED
        BY <2>5, <4>1
    <3> QED
      BY <3>1, <3>2
  <2> QED
    BY <1>13, <2>1, <2>3, <2>4, <2>8, <2>9 DEF IInv, Kept, SendsStep
<1>14. CASE Send(s)
  <2>1. SendsStep(s, send'[s]) /\ HoldsKept
    BY <1>14, SendHolds
  <2>2. send[s].pc = "send" /\ boot = "up" /\ UNCHANGED <<row, unlinks>>
    BY <1>1, <1>14 DEF Send, rows, files
  <2>3. CASE ~send'[s].ok /\ sent' = sent
    BY <1>0, <1>2, <1>3, <2>1, <2>2, <2>3 DEF HoldsKept
  <2>4. CASE /\ send'[s].ok
             /\ sent' = [u \in Uploads |-> IF Carries(send[s].got, u) THEN sent[u] + 1 ELSE sent[u]]
    <3> DEFINE D == {u \in Uploads : Carries(send[s].got, u)}
    <3>1. sent' = [u \in Uploads |-> IF u \in D THEN sent[u] + 1 ELSE sent[u]]
      BY <2>4
    <3> QED
      BY <1>13, <2>1, <2>2, <2>4, <3>1 DEF HoldsKept
  <2> QED
    BY <1>14, <2>3, <2>4, SendHolds
<1>15. CASE SendDropped(s)
  <2>1. /\ send[s].pc # "idle" /\ ~send[s].bundled /\ send' = [send EXCEPT ![s] = IdleSend]
        /\ boot = "up" /\ UNCHANGED <<row, unlinks>>
    BY <1>1, <1>15 DEF SendDropped, rows, files
  <2>2. CASE UNCHANGED sent
    BY <1>7, <2>1, <2>2
  <2>3. CASE send[s].pc = "send" /\ sent' = [sent EXCEPT ![send[s].want[1]] = @ + 1]
    <3> DEFINE x == send[s].want[1]
               D == {x}
    <3>1. x \in Uploads /\ Carries(send[s].got, x)
      BY <2>1, <2>3, DroppedSend
    <3>2. sent' = [u \in Uploads |-> IF u \in D THEN sent[u] + 1 ELSE sent[u]]
      BY <1>0, <2>3, <3>1 DEF Types
    <3>3. SendsStep(s, send'[s]) /\ \A u \in Uploads : ~Carries(send'[s].got, u)
      BY <2>1, IdleHolds
    <3> HIDE DEF x
    <3> QED
      BY <1>13, <2>1, <2>3, <3>1, <3>2, <3>3
  <2> QED
    BY <1>15, <2>2, <2>3 DEF SendDropped
\* A send in doubt: the request takes it for a failure.
<1>16. CASE SendTimesOut(s)
  <2>1. SendsStep(s, send'[s]) /\ HoldsKept /\ ~send'[s].ok
    BY <1>16, TimesOutHolds
  <2>2. send[s].pc = "send" /\ boot = "up" /\ UNCHANGED <<row, unlinks, sent>>
    BY <1>1, <1>16 DEF SendTimesOut, rows, files
  <2> QED
    BY <1>0, <1>2, <1>3, <2>1, <2>2 DEF HoldsKept
<1> QED
  BY <1>4, <1>5, <1>6, <1>8, <1>9, <1>11, <1>12, <1>14, <1>15, <1>16 DEF SendStep

\* A crash: every request is gone, and what they held is nobody's.
LEMMA CrashKeeps == ASSUME IInv, Crash PROVE IInv'
<1>1. IdleSend \in SendRecords /\ IdleSend.got = <<>> /\ IdleSend.ok = FALSE /\ IdleSend.pc = "idle"
  BY DEF IdleSend, SendRecords, Steps
<1>2. Local(IdleSend)
  BY DEF IdleSend, Local, Distinct
<1>3. \A s \in Senders : send'[s] = IdleSend
  BY DEF Crash
<1>4. Types'
  BY <1>1 DEF IInv, Types, Crash, Writing, rows
<1>5. Locals'
  BY <1>2, <1>3 DEF Locals
<1>6. \A s \in Senders, u \in Uploads : ~Carries(send'[s].got, u) /\ send'[s].pc = "idle"
  BY <1>1, <1>3 DEF Carries
<1>7. crashes' > 0 /\ unlinks' = {} /\ UNCHANGED <<row, file, sent, doubted>> /\ crashes \in Nat
  BY DEF IInv, Types, Crash, rows
<1>8. \A u \in Uploads : stage'[u] = IF stage[u] \in Writing THEN "failed" ELSE stage[u]
  BY DEF Crash
<1>9. \A u \in Uploads : /\ stage'[u] \notin Writing
                         /\ stage[u] \in Settled => stage'[u] = stage[u]
                         /\ stage'[u] = "done" => stage[u] = "done"
  BY <1>8 DEF Writing, Settled
<1>10. RowsAreStaged' /\ HeldIsClaimed' /\ OneHolder' /\ BootIsAlone'
  <2>1. RowsAreStaged'
    BY <1>7, <1>9 DEF IInv, Kept, RowsAreStaged
  <2>2. HeldIsClaimed' /\ OneHolder'
    BY <1>6 DEF HeldIsClaimed, OneHolder
  <2>3. BootIsAlone'
    BY <1>1, <1>3, <1>7, <1>9 DEF BootIsAlone
  <2> QED
    BY <2>1, <2>2, <2>3
<1>11. FilesWait' /\ HeldHasFile' /\ StagedHasFile'
  BY <1>6, <1>7, <1>9 DEF IInv, Kept, FilesWait, HeldHasFile, StagedHasFile, Writing
<1>12. SentIsSpent' /\ OkIsSent'
  BY <1>6, <1>7, <1>9 DEF IInv, Kept, SentIsSpent, OkIsSent
<1> QED
  BY <1>4, <1>5, <1>10, <1>11, <1>12 DEF IInv, Kept

LEMMA NextKeeps == IInv /\ [Next]_vars => IInv'
<1> SUFFICES ASSUME IInv, [Next]_vars PROVE IInv'
  OBVIOUS
<1>1. CASE UNCHANGED vars
  BY <1>1 DEF IInv, Types, Locals, Kept, RowsAreStaged, HeldIsClaimed, OneHolder, BootIsAlone, FilesWait,
     HeldHasFile, StagedHasFile, SentIsSpent, OkIsSent, vars, rows, files, count
<1> QED
  BY <1>1, StageKeeps, StoreKeeps, SendKeeps, CrashKeeps DEF Next

\* One upload has one sender at most, is readable while it is claimed and on disk while it is
\* offered, and goes out once besides sends that timed out and were reported as failed: for any
\* numbers of uploads, requests, faults and crashes.
THEOREM KeptCorrect == Spec => []UploadsAreKept
BY InitIInv, NextKeeps, IInvImplies, PTL DEF Spec

-----------------------------------------------------------------------------
(* The staging implements the offers *)

\* The invariant makes the holder of an upload the one request that has it.
HolderMeans ==
  /\ OfferHolder \in [Uploads -> Senders \cup {None}]
  /\ \A s \in Senders, u \in Uploads : OfferHolder[u] = s <=> Carries(send[s].got, u)

StateMeans ==
  /\ OfferState \in [Uploads -> {"absent", "offered", "taken", "gone"}]
  /\ \A u \in Uploads :
       /\ OfferState[u] = "offered" <=> row[u] = "staged"
       /\ OfferState[u] = "taken" <=> row[u] = "sending"
       /\ OfferState[u] = "gone" <=> row[u] = "none" /\ stage[u] \in Settled
       /\ OfferState[u] = "absent" <=> row[u] = "none" /\ stage[u] \notin Settled

Means == HolderMeans /\ StateMeans

LEMMA HolderIs == IInv => HolderMeans
<1> SUFFICES ASSUME IInv PROVE HolderMeans
  OBVIOUS
<1>1. \A s \in Senders, u \in Uploads : Holds(s, u) <=> Carries(send[s].got, u)
  BY DEF Holds, Carries
<1>2. ASSUME NEW u \in Uploads
      PROVE  /\ OfferHolder[u] \in Senders \cup {None}
             /\ \A s \in Senders : OfferHolder[u] = s <=> Carries(send[s].got, u)
  <2>1. CASE \E s \in Senders : Holds(s, u)
    <3> DEFINE h == CHOOSE s \in Senders : Holds(s, u)
    <3>1. h \in Senders /\ Holds(h, u)
      BY <2>1
    <3>2. OfferHolder[u] = h
      BY <2>1 DEF OfferHolder
    <3> HIDE DEF h
    <3>3. \A s \in Senders : Carries(send[s].got, u) => s = h
      BY <1>1, <3>1 DEF IInv, Kept, OneHolder
    <3> QED
      BY <1>1, <3>1, <3>2, <3>3
  <2>2. CASE ~\E s \in Senders : Holds(s, u)
    <3>1. OfferHolder[u] = None
      BY <2>2 DEF OfferHolder
    <3> QED
      BY <1>1, <2>2, <3>1, StagedUploadsBounds
  <2> QED
    BY <2>1, <2>2
<1>3. OfferHolder \in [Uploads -> Senders \cup {None}]
  BY <1>2 DEF OfferHolder
<1> QED
  BY <1>2, <1>3 DEF HolderMeans

LEMMA StateIs == IInv => StateMeans
<1> SUFFICES ASSUME IInv PROVE StateMeans
  OBVIOUS
<1>1. ASSUME NEW u \in Uploads
      PROVE  /\ OfferState[u] \in {"absent", "offered", "taken", "gone"}
             /\ OfferState[u] = "offered" <=> row[u] = "staged"
             /\ OfferState[u] = "taken" <=> row[u] = "sending"
             /\ OfferState[u] = "gone" <=> row[u] = "none" /\ stage[u] \in Settled
             /\ OfferState[u] = "absent" <=> row[u] = "none" /\ stage[u] \notin Settled
  <2>1. row[u] \in {"none", "staged", "sending"}
    BY DEF IInv, Types
  <2>2. OfferState[u] = CASE row[u] = "staged" -> "offered"
                          [] row[u] = "sending" -> "taken"
                          [] row[u] = "none" -> IF stage[u] \in {"done", "failed"} THEN "gone" ELSE "absent"
    BY DEF OfferState
  <2> QED
    BY <2>1, <2>2 DEF Settled
<1>2. OfferState \in [Uploads -> {"absent", "offered", "taken", "gone"}]
  BY <1>1 DEF OfferState
<1> QED
  BY <1>1, <1>2 DEF StateMeans

LEMMA MappingIs == IInv => Means
BY HolderIs, StateIs DEF Means

LEMMA SameHolder == ASSUME Means, Means', HoldsKept PROVE OfferHolder' = OfferHolder
<1>1. ASSUME NEW u \in Uploads PROVE OfferHolder'[u] = OfferHolder[u]
  BY StagedUploadsBounds DEF Means, HolderMeans, HoldsKept
<1> QED
  BY <1>1 DEF Means, HolderMeans

LEMMA SameState ==
  ASSUME Means, Means',
         \A u \in Uploads : row'[u] = row[u] /\ (stage'[u] \in Settled <=> stage[u] \in Settled)
  PROVE  OfferState' = OfferState
<1>1. ASSUME NEW u \in Uploads PROVE OfferState'[u] = OfferState[u]
  BY DEF Means, StateMeans
<1> QED
  BY <1>1 DEF Means, StateMeans

\* The holder after s has taken x, and after s has lost x.
LEMMA TakenHolder ==
  ASSUME Means, Means', NEW s \in Senders, NEW x \in Uploads,
         \A r \in Senders, u \in Uploads :
           Carries(send'[r].got, u) <=> Carries(send[r].got, u) \/ (r = s /\ u = x)
  PROVE  OfferHolder' = [OfferHolder EXCEPT ![x] = s]
<1>1. OfferHolder'[x] = s
  BY DEF Means, HolderMeans
<1>2. ASSUME NEW u \in Uploads \ {x} PROVE OfferHolder'[u] = OfferHolder[u]
  BY StagedUploadsBounds DEF Means, HolderMeans
<1> QED
  BY <1>1, <1>2 DEF Means, HolderMeans

LEMMA LostHolder ==
  ASSUME Means, Means', NEW s \in Senders, NEW L \in SUBSET Uploads,
         \A u \in L : Carries(send[s].got, u),
         \A r \in Senders, u \in Uploads :
           Carries(send'[r].got, u) <=> Carries(send[r].got, u) /\ ~(r = s /\ u \in L)
  PROVE  OfferHolder' = [u \in Uploads |-> IF u \in L THEN None ELSE OfferHolder[u]]
<1>1. ASSUME NEW u \in L PROVE OfferHolder'[u] = None
  <2>1. OfferHolder[u] = s
    BY DEF Means, HolderMeans
  <2>2. \A r \in Senders : ~Carries(send'[r].got, u)
    BY <2>1 DEF Means, HolderMeans
  <2> QED
    BY <2>2 DEF Means, HolderMeans
<1>2. ASSUME NEW u \in Uploads \ L PROVE OfferHolder'[u] = OfferHolder[u]
  BY StagedUploadsBounds DEF Means, HolderMeans
<1> QED
  BY <1>1, <1>2 DEF Means, HolderMeans

Step == Offers!Next \/ UNCHANGED Offers!offers

LEMMA Stutters ==
  ASSUME Means, Means', HoldsKept, UNCHANGED <<sent, doubted, crashes>>,
         \A u \in Uploads : row'[u] = row[u] /\ (stage'[u] \in Settled <=> stage[u] \in Settled)
  PROVE  Step
BY SameHolder, SameState DEF Step, Offers!offers, Restarted

LEMMA Withdraws ==
  ASSUME Means, Means', HoldsKept, UNCHANGED <<sent, doubted, crashes>>, NEW W \in SUBSET Uploads,
         \A u \in W : row[u] = "staged" \/ stage[u] \notin Settled,
         \A u \in W : row'[u] = "none" /\ stage'[u] \in Settled,
         \A u \in Uploads \ W : row'[u] = row[u] /\ (stage'[u] \in Settled <=> stage[u] \in Settled),
         \A u \in Uploads : row[u] # "none" => stage[u] \in Settled
  PROVE  Step
<1>1. OfferHolder' = OfferHolder /\ Restarted' = Restarted
  BY SameHolder DEF Restarted
<1>2. OfferState' = [u \in Uploads |-> IF u \in W THEN "gone" ELSE OfferState[u]]
  <2>1. \A u \in W : OfferState'[u] = "gone"
    BY DEF Means, StateMeans
  <2>2. \A u \in Uploads \ W : OfferState'[u] = OfferState[u]
    BY DEF Means, StateMeans
  <2> QED
    BY <2>1, <2>2 DEF Means, StateMeans
<1>3. W \in SUBSET {u \in Uploads : OfferState[u] \in {"absent", "offered"}}
  BY DEF Means, StateMeans
<1>4. CASE W = {}
  <2>1. OfferState' = OfferState
    BY <1>2, <1>4 DEF Means, StateMeans
  <2> QED
    BY <1>1, <2>1 DEF Step, Offers!offers
<1>5. CASE W # {}
  <2>1. Offers!Withdraw(W)
    BY <1>1, <1>2, <1>5 DEF Offers!Withdraw
  <2>2. Offers!WithdrawFree
    BY <1>3, <2>1 DEF Offers!WithdrawFree
  <2> QED
    BY <2>2 DEF Step, Offers!Next
<1> QED
  BY <1>4, <1>5

LEMMA OffersOne ==
  ASSUME Means, Means', HoldsKept, UNCHANGED <<sent, doubted, crashes>>, NEW x \in Uploads,
         row[x] = "none", stage[x] \notin Settled, row'[x] = "staged",
         \A u \in Uploads \ {x} : row'[u] = row[u] /\ (stage'[u] \in Settled <=> stage[u] \in Settled)
  PROVE  Step
<1>1. OfferHolder' = OfferHolder /\ Restarted' = Restarted
  BY SameHolder DEF Restarted
<1>2. OfferState' = [OfferState EXCEPT ![x] = "offered"] /\ OfferState[x] = "absent"
  <2>1. OfferState'[x] = "offered" /\ OfferState[x] = "absent"
    BY DEF Means, StateMeans
  <2>2. \A u \in Uploads \ {x} : OfferState'[u] = OfferState[u]
    BY DEF Means, StateMeans
  <2> QED
    BY <2>1, <2>2 DEF Means, StateMeans
<1> QED
  BY <1>1, <1>2 DEF Step, Offers!Next, Offers!Offer

\* Staging offers an upload, gives it up, or does nothing a caller sees.
LEMMA StageImplements ==
  ASSUME IInv, IInv', NEW u \in Uploads, StageNext(u), Means, Means'
  PROVE  Step
<1> USE DEF Writing, Settled
<1>0. UNCHANGED <<send, sent, doubted, crashes>> /\ HoldsKept
  <2>1. UNCHANGED <<send, sent, doubted, crashes>>
    BY DEF StageNext, StageStart, StageRename, StageInsert, StageCount, StagePreview, StageRefused,
           StageFails, StageDropped, count
  <2> QED
    BY <2>1, SendUnchanged
<1>1. stage \in [Uploads -> Writing \cup {"new", "done", "failed"}] /\ row \in [Uploads -> {"none", "staged", "sending"}]
      /\ \A v \in Uploads : row[v] # "none" => stage[v] \in Settled
  BY DEF IInv, Types, Kept, RowsAreStaged
<1>2. CASE StageStart(u) \/ StageRename(u) \/ StageCount(u)
  <2>1. UNCHANGED row /\ \A v \in Uploads : stage'[v] \in Settled <=> stage[v] \in Settled
    BY <1>1, <1>2 DEF StageStart, StageRename, StageCount, rows
  <2> QED
    BY <1>0, <2>1, Stutters
<1>3. ASSUME row' = [row EXCEPT ![u] = "staged"], stage[u] \in {"insert", "counted"},
             stage' = [stage EXCEPT ![u] = "done"] \/ stage' = [stage EXCEPT ![u] = "failed"]
      PROVE  Step
  <2>1. row[u] = "none" /\ stage[u] \notin Settled /\ row'[u] = "staged"
    BY <1>1, <1>3
  <2>2. \A v \in Uploads \ {u} : row'[v] = row[v] /\ stage'[v] = stage[v]
    BY <1>1, <1>3
  <2> QED
    BY <1>0, <2>1, <2>2, OffersOne
<1>4. ASSUME UNCHANGED row, stage[u] \in Writing, stage' = [stage EXCEPT ![u] = "failed"]
      PROVE  Step
  <2>1. row'[u] = "none" /\ stage[u] \notin Settled /\ stage'[u] \in Settled
    BY <1>1, <1>4
  <2>2. \A v \in Uploads \ {u} : row'[v] = row[v] /\ stage'[v] = stage[v]
    BY <1>1, <1>4
  <2> DEFINE W == {u}
  <2>3. W \in SUBSET Uploads /\ \A v : v \in W <=> v = u
    OBVIOUS
  <2> HIDE DEF W
  <2> QED
    BY <1>0, <1>1, <2>1, <2>2, <2>3, Withdraws
<1>5. CASE StageInsert(u)
  BY <1>3, <1>5 DEF StageInsert, Inserted
<1>6. CASE StagePreview(u)
  BY <1>3, <1>6 DEF StagePreview, Inserted
<1>7. CASE StageRefused(u)
  BY <1>4, <1>7 DEF StageRefused, Abandoned, rows
<1>8. CASE StageFails(u)
  BY <1>4, <1>8 DEF StageFails, Abandoned, rows
<1>9. CASE StageDropped(u)
  BY <1>3, <1>4, <1>9 DEF StageDropped, Abandoned, Inserted
<1> QED
  BY <1>2, <1>5, <1>6, <1>7, <1>8, <1>9 DEF StageNext

\* Removals are invisible; discards, expiry and the account withdraw; the boot recovers.
LEMMA StoreImplements ==
  ASSUME IInv, IInv', Means, Means',
         \/ \E u \in Uploads : Unlink(u) \/ DeleteUpload(u) \/ Expire(u)
         \/ Sweep \/ DeleteAccount \/ BootNext
  PROVE  Step
<1>0. UNCHANGED <<send, sent, doubted, stage, crashes>> /\ HoldsKept
  <2>1. UNCHANGED <<send, sent, doubted, stage, crashes>>
    BY DEF Unlink, DeleteUpload, Expire, Sweep, DeleteAccount, BootNext, BootReset, BootPrune,
           BootSweep, Skips, count
  <2> QED
    BY <2>1, SendUnchanged
<1>1. /\ row \in [Uploads -> {"none", "staged", "sending"}]
      /\ \A v \in Uploads : row[v] # "none" => stage[v] \in Settled
  BY DEF IInv, Types, Kept, RowsAreStaged
<1>2. ASSUME UNCHANGED row PROVE Step
  BY <1>0, <1>2, Stutters
<1>3. ASSUME NEW W \in SUBSET Uploads, \A u \in W : row[u] = "staged",
             row' = [u \in Uploads |-> IF u \in W THEN "none" ELSE row[u]]
      PROVE  Step
  <2>1. \A u \in W : row'[u] = "none" /\ stage'[u] \in Settled
    BY <1>0, <1>1, <1>3
  <2>2. \A u \in Uploads \ W : row'[u] = row[u] /\ (stage'[u] \in Settled <=> stage[u] \in Settled)
    BY <1>0, <1>3
  <2> QED
    BY <1>0, <1>1, <1>3, <2>1, <2>2, Withdraws
<1>4. ASSUME NEW u \in Uploads, Unlink(u) \/ DeleteUpload(u) \/ Expire(u) PROVE Step
  <2>1. CASE Unlink(u)
    BY <1>2, <2>1 DEF Unlink, rows
  <2>2. CASE DeleteUpload(u)
    <3>1. row' = [v \in Uploads |-> IF v \in {u} THEN "none" ELSE row[v]]
      BY <1>1, <2>2 DEF DeleteUpload
    <3> QED
      BY <1>3, <2>2, <3>1 DEF DeleteUpload
  <2>3. CASE Expire(u)
    BY <1>2, <2>3 DEF Expire
  <2> QED
    BY <1>4, <2>1, <2>2, <2>3
<1>5. CASE Sweep
  BY <1>3, <1>5 DEF Sweep, Sweeps, Swept
<1>6. CASE DeleteAccount
  <2> DEFINE A == {u \in Uploads : OfferState[u] \in {"offered", "taken", "gone"}}
  <2>1. OfferHolder' = OfferHolder /\ Restarted' = Restarted /\ UNCHANGED sent
    BY <1>0, SameHolder DEF Restarted
  <2>2. \A u \in Uploads : row'[u] = "none" /\ stage'[u] = stage[u]
    BY <1>0, <1>6 DEF DeleteAccount
  <2>3. \A u \in A : OfferState'[u] = "gone"
    BY <1>1, <2>2 DEF Means, StateMeans
  <2>4. \A u \in Uploads \ A : OfferState'[u] = OfferState[u]
    BY <1>1, <2>2 DEF Means, StateMeans
  <2>5. OfferState' = [u \in Uploads |-> IF u \in A THEN "gone" ELSE OfferState[u]]
    BY <2>3, <2>4 DEF Means, StateMeans
  <2>6. CASE A = {}
    <3>1. OfferState' = OfferState
      BY <2>5, <2>6 DEF Means, StateMeans
    <3> QED
      BY <1>0, <2>1, <3>1 DEF Step, Offers!offers
  <2>7. CASE A # {}
    <3>1. Offers!WithdrawAll
      BY <1>0, <2>1, <2>5, <2>7 DEF Offers!WithdrawAll, Offers!Withdraw
    <3> QED
      BY <3>1 DEF Step, Offers!Next
  <2> QED
    BY <2>6, <2>7
<1>7. CASE BootReset
  <2>1. CASE Skips("prune")
    BY <1>2, <2>1 DEF Skips, rows
  <2>2. CASE row' = [u \in Uploads |-> IF row[u] = "sending" THEN "staged" ELSE row[u]]
    <3>1. OfferHolder' = OfferHolder /\ Restarted' = Restarted /\ UNCHANGED sent
      BY <1>0, SameHolder DEF Restarted
    <3>2. Restarted
      BY <1>7 DEF BootReset, IInv, Kept, BootIsAlone, Restarted
    <3>3. \A u \in Uploads : OfferHolder[u] = None
      <4>1. \A s \in Senders, u \in Uploads : ~Carries(send[s].got, u)
        BY <1>7 DEF BootReset, IInv, Kept, BootIsAlone, Locals, Local, Carries
      <4> QED
        BY <4>1 DEF Means, HolderMeans
    <3>4. OfferState' = [u \in Uploads |-> IF OfferState[u] = "taken" THEN "offered" ELSE OfferState[u]]
      <4>1. \A u \in Uploads : OfferState'[u] = IF OfferState[u] = "taken" THEN "offered" ELSE OfferState[u]
        <5> SUFFICES ASSUME NEW u \in Uploads
                     PROVE  OfferState'[u] = IF OfferState[u] = "taken" THEN "offered" ELSE OfferState[u]
          OBVIOUS
        <5>1. row'[u] = IF row[u] = "sending" THEN "staged" ELSE row[u]
          BY <2>2
        <5> QED
          BY <1>0, <1>1, <5>1 DEF Means, StateMeans
      <4> QED
        BY <4>1 DEF Means, StateMeans
    <3> QED
      BY <1>0, <3>1, <3>2, <3>3, <3>4 DEF Step, Offers!Next, Offers!Recover
  <2> QED
    BY <1>7, <2>1, <2>2 DEF BootReset
<1>8. CASE BootPrune
  BY <1>2, <1>8 DEF BootPrune, Skips, rows
<1>9. CASE BootSweep
  <2>1. CASE Skips("up")
    BY <1>2, <2>1 DEF Skips, rows
  <2>2. CASE Sweeps
    <3>1. Swept \in SUBSET Uploads /\ \A u \in Swept : row[u] = "staged"
      BY DEF Swept
    <3> QED
      BY <1>3, <2>2, <3>1 DEF Sweeps
  <2> QED
    BY <1>9, <2>1, <2>2 DEF BootSweep
<1> QED
  BY <1>4, <1>5, <1>6, <1>7, <1>8, <1>9 DEF BootNext

LEMMA CrashImplements ==
  ASSUME IInv, IInv', Means, Means', Crash
  PROVE  Step
<1> DEFINE W == {u \in Uploads : stage[u] \in Writing}
<1>1. Restarted' = TRUE /\ UNCHANGED <<sent, doubted, row>>
  BY DEF IInv, Types, Crash, Restarted, rows
<1>2. OfferHolder' = [u \in Uploads |-> None]
  <2>1. \A s \in Senders, u \in Uploads : ~Carries(send'[s].got, u)
    BY DEF Crash, IdleSend, Carries
  <2>2. \A u \in Uploads : OfferHolder'[u] = None
    BY <2>1 DEF Means, HolderMeans
  <2> QED
    BY <2>2 DEF Means, HolderMeans
<1>3. \A u \in Uploads : stage'[u] = IF stage[u] \in Writing THEN "failed" ELSE stage[u]
  BY DEF Crash
<1>4. \A u \in W : row[u] = "none" /\ stage[u] \notin Settled
  BY DEF IInv, Kept, RowsAreStaged, Writing, Settled
<1>5. OfferState' = [u \in Uploads |-> IF u \in W THEN "gone" ELSE OfferState[u]]
  <2>1. \A u \in W : OfferState'[u] = "gone"
    BY <1>1, <1>3, <1>4 DEF Means, StateMeans, Settled
  <2>2. \A u \in Uploads \ W : OfferState'[u] = OfferState[u]
    BY <1>1, <1>3 DEF Means, StateMeans
  <2> QED
    BY <2>1, <2>2 DEF Means, StateMeans
<1>6. W \in SUBSET {u \in Uploads : OfferState[u] = "absent"}
  BY <1>4 DEF Means, StateMeans
<1> HIDE DEF W
<1> QED
  BY <1>1, <1>2, <1>5, <1>6 DEF Step, Offers!Next, Offers!Restart

\* A request takes, delivers, gives back, spends or loses uploads.
LEMMA SendImplements ==
  ASSUME IInv, IInv', Means, Means', NEW s \in Senders,
         \/ SendStep(s) \/ SendDropped(s) \/ \E want \in Requests : SendStart(s, want)
  PROVE  Step
<1>0. /\ Types /\ Locals /\ Kept
      /\ UNCHANGED <<stage, crashes>> /\ Restarted' = Restarted
      /\ row \in [Uploads -> {"none", "staged", "sending"}]
  BY DEF IInv, Types, SendStep, Claim, ClaimNothing, Read, ReadFails, Send, SendTimesOut, Settle,
         SendEnd, SendDropped, SendStart, files, count, Restarted
<1>1. ASSUME UNCHANGED <<row, sent, doubted>>, HoldsKept PROVE Step
  BY <1>0, <1>1, Stutters
<1>2. ASSUME NEW u \in Uploads, crashes = 0 => sent[u] = 0 PROVE Offers!Fresh(u)
  BY <1>0, <1>2 DEF Offers!Fresh, Restarted, Types
<1>3. ASSUME send[s].pc # "settle", NEW u \in Uploads, Carries(send[s].got, u)
      PROVE  Offers!Fresh(u)
  <2>1. ~send[s].ok
    BY <1>0, <1>3 DEF Locals, Local
  <2> QED
    BY <1>0, <1>2, <1>3, <2>1 DEF Kept, SentIsSpent, Types
<1>4. ASSUME NEW want \in Requests, SendStart(s, want) PROVE Step
  BY <1>1, <1>4, StartHolds DEF SendStart, rows
<1>5. CASE ClaimNothing(s)
  BY <1>1, <1>5, NothingHolds DEF ClaimNothing, rows
<1>6. CASE Read(s)
  BY <1>1, <1>6, ReadHolds DEF Read, rows
<1>7. CASE SendEnd(s)
  <2>1. \A u \in Uploads : ~Carries(send[s].got, u)
    BY <1>7 DEF SendEnd, Carries
  <2>2. HoldsKept
    BY <1>7, <2>1, IdleHolds DEF SendEnd, HoldsKept
  <2> QED
    BY <1>1, <1>7, <2>2 DEF SendEnd, rows
<1>8. CASE Claim(s)
  <2> DEFINE w == Wanted(s)
  <2>1. /\ w \in Uploads
        /\ \A r \in Senders, u \in Uploads :
             Carries(send'[r].got, u) <=> Carries(send[r].got, u) \/ (r = s /\ u = w)
    BY <1>8, ClaimHolds
  <2>2. row[w] = "staged" /\ row' = [row EXCEPT ![w] = "sending"] /\ UNCHANGED <<sent, doubted>>
    BY <1>8 DEF Claim, Claimable
  <2> HIDE DEF w
  <2>3. OfferHolder' = [OfferHolder EXCEPT ![w] = s]
    BY <2>1, TakenHolder
  <2>4. OfferHolder[w] = None
    <3>1. \A r \in Senders : ~Carries(send[r].got, w)
      BY <1>0, <2>1, <2>2 DEF Kept, HeldIsClaimed
    <3> QED
      BY <2>1, <3>1 DEF Means, HolderMeans
  <2>5. OfferState[w] = "offered" /\ OfferState' = [OfferState EXCEPT ![w] = "taken"]
    <3>1. OfferState[w] = "offered" /\ OfferState'[w] = "taken"
      BY <1>0, <2>1, <2>2 DEF Means, StateMeans
    <3>2. \A u \in Uploads \ {w} : row'[u] = row[u] /\ stage'[u] = stage[u]
      BY <1>0, <2>2
    <3>3. \A u \in Uploads \ {w} : OfferState'[u] = OfferState[u]
      BY <3>2 DEF Means, StateMeans
    <3> QED
      BY <3>1, <3>3 DEF Means, StateMeans
  <2>6. Offers!Fresh(w)
    BY <1>0, <1>2, <2>1, <2>2 DEF Kept, SentIsSpent, Types
  <2>7. Offers!Take(s, w)
    BY <1>0, <2>2, <2>3, <2>4, <2>5, <2>6 DEF Offers!Take
  <2> QED
    BY <2>1, <2>7 DEF Step, Offers!Next
<1>9. ASSUME NEW x \in Uploads, Carries(send[s].got, x), HoldsLess(s, x), UNCHANGED <<sent, doubted>>,
             \/ UNCHANGED row
             \/ row[x] = "sending" /\ row' = [row EXCEPT ![x] = "staged"] /\ Offers!Fresh(x)
             \/ row[x] = "sending" /\ row' = [row EXCEPT ![x] = "none"] /\ sent[x] > 0
      PROVE  Step
  <2>1. OfferHolder' = [u \in Uploads |-> IF u \in {x} THEN None ELSE OfferHolder[u]]
    <3> DEFINE L == {x}
    <3>1. /\ L \in SUBSET Uploads /\ \A u \in L : Carries(send[s].got, u)
          /\ \A r \in Senders, u \in Uploads :
               Carries(send'[r].got, u) <=> Carries(send[r].got, u) /\ ~(r = s /\ u \in L)
      BY <1>9 DEF HoldsLess
    <3>2. OfferHolder' = [u \in Uploads |-> IF u \in L THEN None ELSE OfferHolder[u]]
      <4> HIDE DEF L
      <4> QED
        BY <3>1, LostHolder
    <3> QED
      BY <3>2
  <2>2. OfferHolder[x] = s
    BY <1>9 DEF Means, HolderMeans
  <2>3. OfferHolder' = [OfferHolder EXCEPT ![x] = None]
    BY <2>1 DEF Means, HolderMeans
  <2>4. CASE UNCHANGED row
    <3> DEFINE L == {x}
    <3>1. OfferState' = OfferState
      BY <1>0, <2>4, SameState
    <3>2. L \in SUBSET Uploads /\ L \subseteq {u \in Uploads : OfferHolder[u] = s}
      BY <2>2
    <3>3. Offers!Lose(s, L)
      BY <1>0, <1>9, <2>1, <3>1, <3>2 DEF Offers!Lose
    <3> HIDE DEF L
    <3> QED
      BY <3>2, <3>3 DEF Step, Offers!Next
  <2>5. ASSUME row[x] = "sending", NEW v \in {"staged", "none"}, row' = [row EXCEPT ![x] = v]
        PROVE  /\ OfferState[x] = "taken"
               /\ OfferState' = [OfferState EXCEPT ![x] = IF v = "staged" THEN "offered" ELSE "gone"]
    <3>1. stage[x] \in Settled
      BY <1>0, <1>9 DEF Kept, HeldIsClaimed
    <3>2. row'[x] = v /\ \A u \in Uploads \ {x} : row'[u] = row[u] /\ stage'[u] = stage[u]
      BY <1>0, <2>5
    <3>3. OfferState[x] = "taken" /\ OfferState'[x] = IF v = "staged" THEN "offered" ELSE "gone"
      BY <1>0, <2>5, <3>1, <3>2 DEF Means, StateMeans
    <3>4. \A u \in Uploads \ {x} : OfferState'[u] = OfferState[u]
      BY <3>2 DEF Means, StateMeans
    <3> QED
      BY <3>3, <3>4 DEF Means, StateMeans
  <2>6. CASE row[x] = "sending" /\ row' = [row EXCEPT ![x] = "staged"] /\ Offers!Fresh(x)
    <3>1. OfferState[x] = "taken" /\ OfferState' = [OfferState EXCEPT ![x] = "offered"]
      BY <2>5, <2>6
    <3>2. Offers!GiveBack(x)
      BY <1>0, <1>9, <2>2, <2>3, <2>6, <3>1, StagedUploadsBounds DEF Offers!GiveBack
    <3> QED
      BY <3>2 DEF Step, Offers!Next
  <2>7. CASE row[x] = "sending" /\ row' = [row EXCEPT ![x] = "none"] /\ sent[x] > 0
    <3>1. OfferState[x] = "taken" /\ OfferState' = [OfferState EXCEPT ![x] = "gone"]
      BY <2>5, <2>7
    <3>2. Offers!Spend(x)
      BY <1>0, <1>9, <2>2, <2>3, <2>7, <3>1, StagedUploadsBounds DEF Offers!Spend
    <3> QED
      BY <3>2 DEF Step, Offers!Next
  <2> QED
    BY <1>9, <2>4, <2>6, <2>7
<1>10. CASE ReadFails(s)
  BY <1>1, <1>10, ReadFailsHolds DEF ReadFails, rows
<1>11. CASE Settle(s)
  <2> DEFINE x == Head(send[s].got)
  <2>1. x \in Uploads /\ Carries(send[s].got, x) /\ HoldsLess(s, x)
    BY <1>11, SettleHolds
  <2>2. /\ UNCHANGED <<sent, doubted>>
        /\ \/ UNCHANGED row
           \/ row[x] = "sending" /\ row' = [row EXCEPT ![x] = "staged"] /\ ~send[s].ok
           \/ row[x] = "sending" /\ row' = [row EXCEPT ![x] = "none"] /\ send[s].ok
    BY <1>11 DEF Settle
  <2> HIDE DEF x
  <2>3. send[s].ok => sent[x] > 0
    BY <1>0, <2>1 DEF Kept, OkIsSent
  <2>4. ~send[s].ok => Offers!Fresh(x)
    BY <1>0, <1>2, <2>1 DEF Kept, SentIsSpent, Types
  <2> QED
    BY <1>9, <2>1, <2>2, <2>3, <2>4
<1>12. ASSUME send[s].pc = "send",
              sent' = [u \in Uploads |-> IF Carries(send[s].got, u) THEN sent[u] + 1 ELSE sent[u]]
       PROVE  Offers!Delivers(s)
  <2>1. \A u \in Uploads : OfferHolder[u] = s <=> Carries(send[s].got, u)
    BY DEF Means, HolderMeans
  <2>2. \A u \in Uploads : OfferHolder[u] = s => Offers!Fresh(u)
    BY <1>3, <1>12, <2>1
  <2>3. sent' = [u \in Uploads |-> IF OfferHolder[u] = s THEN sent[u] + 1 ELSE sent[u]]
    BY <1>12, <2>1
  <2> QED
    BY <2>2, <2>3 DEF Offers!Delivers
<1>13. CASE Send(s)
  <2>1. UNCHANGED <<row, doubted>> /\ HoldsKept /\ send[s].pc = "send"
    BY <1>13, SendHolds DEF Send, rows
  <2>2. CASE sent' = sent
    BY <1>1, <2>1, <2>2
  <2>3. CASE sent' = [u \in Uploads |-> IF Carries(send[s].got, u) THEN sent[u] + 1 ELSE sent[u]]
    <3>1. OfferHolder' = OfferHolder /\ OfferState' = OfferState
      BY <1>0, <2>1, SameHolder, SameState
    <3>2. Offers!Deliver(s)
      BY <1>0, <1>12, <2>1, <2>3, <3>1 DEF Offers!Deliver
    <3> QED
      BY <3>2 DEF Step, Offers!Next
  <2> QED
    BY <1>13, <2>2, <2>3, SendHolds
<1>14. CASE SendDropped(s)
  <2> DEFINE L == {u \in Uploads : OfferHolder[u] = s}
  <2>1. /\ send[s].pc # "idle" /\ ~send[s].bundled /\ send' = [send EXCEPT ![s] = IdleSend]
        /\ UNCHANGED <<row, doubted>>
    BY <1>14 DEF SendDropped, rows
  <2>2. \A u \in Uploads : u \in L <=> Carries(send[s].got, u)
    BY DEF Means, HolderMeans
  <2>3. \A r \in Senders, u \in Uploads :
          Carries(send'[r].got, u) <=> Carries(send[r].got, u) /\ ~(r = s /\ u \in L)
    BY <2>1, <2>2, IdleHolds
  <2>4. L \in SUBSET Uploads /\ \A u \in L : Carries(send[s].got, u)
    BY <2>2
  <2>5. OfferHolder' = [u \in Uploads |-> IF u \in L THEN None ELSE OfferHolder[u]]
    BY <2>3, <2>4, LostHolder
  <2>6. OfferState' = OfferState
    BY <1>0, <2>1, SameState
  <2>7. sent' = sent \/ Offers!Delivers(s)
    <3>1. CASE send[s].pc = "send" /\ sent' = [sent EXCEPT ![send[s].want[1]] = @ + 1]
      <4>1. \A u \in Uploads : Carries(send[s].got, u) <=> u = send[s].want[1]
        BY <2>1, <3>1, DroppedSend
      <4>2. sent' = [u \in Uploads |-> IF Carries(send[s].got, u) THEN sent[u] + 1 ELSE sent[u]]
        BY <1>0, <3>1, <4>1 DEF Types
      <4> QED
        BY <1>12, <3>1, <4>2
    <3> QED
      BY <1>14, <3>1 DEF SendDropped
  <2>8. Offers!Lose(s, L)
    BY <1>0, <2>1, <2>5, <2>6, <2>7 DEF Offers!Lose
  <2> HIDE DEF L
  <2> QED
    BY <2>4, <2>8 DEF Step, Offers!Next
<1>15. CASE SendTimesOut(s)
  <2>1. UNCHANGED <<row, sent>> /\ send[s].pc = "send"
    BY <1>15 DEF SendTimesOut, rows
  <2>2. /\ HoldsKept
        /\ doubted' = [u \in Uploads |-> IF Carries(send[s].got, u) THEN doubted[u] + 1 ELSE doubted[u]]
    BY <1>15, TimesOutHolds
  <2>3. OfferHolder' = OfferHolder /\ OfferState' = OfferState
    BY <1>0, <2>1, <2>2, SameHolder, SameState
  <2>4. \A u \in Uploads : OfferHolder[u] = s <=> Carries(send[s].got, u)
    BY DEF Means, HolderMeans
  <2>5. \A u \in Uploads : OfferHolder[u] = s => Offers!Fresh(u)
    BY <1>3, <2>1, <2>4
  <2>6. doubted' = [u \in Uploads |-> IF OfferHolder[u] = s THEN doubted[u] + 1 ELSE doubted[u]]
    BY <2>2, <2>4
  <2>7. Offers!Doubt(s)
    BY <1>0, <2>1, <2>3, <2>5, <2>6 DEF Offers!Doubt
  <2> QED
    BY <2>7 DEF Step, Offers!Next
<1> QED
  BY <1>4, <1>5, <1>6, <1>7, <1>8, <1>10, <1>11, <1>13, <1>14, <1>15 DEF SendStep

\* Whatever fails, is dropped, expires or crashes, the staging of uploads does to its callers
\* only what UploadOffers allows: for any numbers of uploads and requests.
THEOREM OffersCorrect == Spec => ImplementsOffers
<1>1. Init => Offers!Init
  <2> SUFFICES ASSUME Init PROVE Offers!Init
    OBVIOUS
  <2>1. IInv /\ Means
    BY InitIInv, MappingIs
  <2>2. \A u \in Uploads : OfferState[u] = "absent"
    BY <2>1 DEF Init, Means, StateMeans, Settled
  <2>3. \A u \in Uploads : OfferHolder[u] = None
    <3>1. \A s \in Senders, u \in Uploads : ~Carries(send[s].got, u)
      BY DEF Init, IdleSend, Carries
    <3> QED
      BY <2>1, <3>1 DEF Means, HolderMeans
  <2>4. OfferState = [u \in Uploads |-> "absent"] /\ OfferHolder = [u \in Uploads |-> None]
    BY <2>1, <2>2, <2>3 DEF Means, StateMeans, HolderMeans
  <2> QED
    BY <2>4 DEF Init, Offers!Init, Restarted
<1>2. IInv /\ IInv' /\ Means /\ Means' /\ [Next]_vars => [Offers!Next]_(Offers!offers)
  <2> SUFFICES ASSUME IInv, IInv', Means, Means', [Next]_vars PROVE Step
    BY DEF Step
  <2>1. CASE UNCHANGED vars
    <3>1. HoldsKept /\ UNCHANGED <<sent, doubted, crashes, row, stage>>
      BY <2>1 DEF HoldsKept, vars, rows, count
    <3> QED
      BY <3>1, Stutters
  <2> QED
    BY <2>1, StageImplements, StoreImplements, SendImplements, CrashImplements DEF Next
<1>3. Spec => []IInv
  <2>1. IInv /\ [Next]_vars => IInv'
    BY NextKeeps
  <2> QED
    BY <2>1, InitIInv, PTL DEF Spec
<1> QED
  BY <1>1, <1>2, <1>3, MappingIs, PTL DEF Spec, ImplementsOffers, Offers!Spec

HIDE DEF outs

-----------------------------------------------------------------------------
(* Requests of the media cache *)

LEMMA SameSize == \A S : Media!Cardinality(S) = Cardinality(S)
  BY Zenon DEF Media!Cardinality, Cardinality

\* The four fields of a request; its victims may be any keys.
Shape(r) == r = [pc |-> r.pc, key |-> r.key, slot |-> r.slot, victims |-> r.victims]

\* A request is under a slot from its place in the queue to its end, and that slot is the
\* one of the flight map.
RequestOK(r) ==
  /\ Shape(r) /\ r.pc \in Media!Steps /\ r.slot \in Nat
  /\ r.pc # "idle" => r.key \in Keys
  /\ r.pc \in {"idle", "join", "release"} => r.slot = 0
  /\ r.pc \in Media!Downloading \cup {"wait"} => r.slot # 0
  /\ r.slot # 0 => r.slot = flight[r.key]

\* One request at a time has a key's slot.
OneInSlot ==
  \A c, d \in Callers :
    Media!InSlot(c) /\ Media!InSlot(d) /\ caller[c].key = caller[d].key => c = d

FlightInv ==
  /\ caller = [c \in Callers |-> caller[c]] /\ flight \in [Keys -> Nat]
  /\ \A c \in Callers : RequestOK(caller[c])
  /\ OneInSlot /\ Media!SlotsAreUsed

LEMMA IdleRequest ==
  Shape(Media!Idle) /\ Media!Idle.pc = "idle" /\ Media!Idle.slot = 0
  BY DEF Media!Idle, Shape

LEMMA SetField ==
  ASSUME NEW r, Shape(r), NEW x
  PROVE  LET q == [r EXCEPT !.pc = x]
         IN  Shape(q) /\ q.pc = x /\ q.key = r.key /\ q.slot = r.slot /\ q.victims = r.victims
  BY DEF Shape

\* A request goes on under the slot it has, or without one.
LEMMA RequestMoves ==
  ASSUME FlightInv, NEW c \in Callers, NEW r, caller' = [caller EXCEPT ![c] = r],
         UNCHANGED flight, Shape(r), r.pc \in Media!Steps,
         r.key = caller[c].key, r.slot = caller[c].slot,
         caller[c].pc # "idle", r.pc # "idle",
         r.pc \in {"join", "release"} => r.slot = 0,
         r.pc \in Media!Downloading => r.slot # 0,
         r.pc # "wait", caller[c].pc # "wait", caller[c].pc # "release"
  PROVE  FlightInv'
<1>1. \A d \in Callers : caller'[d] = IF d = c THEN r ELSE caller[d]
  BY DEF FlightInv
<1>2. caller' = [d \in Callers |-> caller'[d]]
  BY DEF FlightInv
<1>3. RequestOK(caller[c])
  BY DEF FlightInv
<1>4. RequestOK(r)'
  BY <1>3 DEF RequestOK
<1>5. ASSUME NEW d \in Callers, d # c PROVE RequestOK(caller[d])'
  BY <1>1, <1>5 DEF FlightInv, RequestOK
<1>6. \A d \in Callers : Media!InSlot(d)' <=> Media!InSlot(d)
  BY <1>1 DEF Media!InSlot
<1>7. \A d \in Callers : caller'[d].key = caller[d].key /\ caller'[d].slot = caller[d].slot
  BY <1>1
<1>8. OneInSlot'
  BY <1>6, <1>7 DEF OneInSlot, FlightInv
<1>9. Media!SlotsAreUsed'
  BY <1>1, <1>7 DEF Media!SlotsAreUsed, FlightInv
<1>10. \A d \in Callers : RequestOK(caller[d])'
  BY <1>1, <1>4, <1>5
<1>11. flight' \in [Keys -> Nat]
  BY DEF FlightInv
<1> QED
  BY <1>2, <1>8, <1>9, <1>10, <1>11 DEF FlightInv

\* Requests that stay under the flight map they had.
LEMMA FlightSame ==
  ASSUME FlightInv, UNCHANGED <<caller, flight>>
  PROVE  FlightInv'
<1>1. \A d \in Callers : RequestOK(caller[d])'
  BY DEF FlightInv, RequestOK
<1>2. OneInSlot' /\ Media!SlotsAreUsed'
  BY DEF FlightInv, OneInSlot, Media!SlotsAreUsed, Media!InSlot
<1> QED
  BY <1>1, <1>2 DEF FlightInv

\* A request ends, wherever it is.
LEMMA LeaveKeeps ==
  ASSUME FlightInv, NEW c \in Callers, Media!Leave(c), UNCHANGED flight,
         caller[c].pc \notin {"idle", "release"}
  PROVE  FlightInv'
<1>1. PICK p : p = caller[c]
  OBVIOUS
<1>2. RequestOK(p)
  BY <1>1 DEF FlightInv
<1>3. PICK r : r = IF Media!Left(c).pc = "idle" THEN Media!Idle ELSE Media!Left(c)
  OBVIOUS
<1>4. caller' = [caller EXCEPT ![c] = r]
  BY <1>3 DEF Media!Leave
<1>5. /\ Shape(r) /\ r.slot = 0
      /\ p.slot = 0 => r.pc = "idle"
      /\ p.slot # 0 => r.pc = "release" /\ r.key = p.key
  <2>1. PICK q : q = [p EXCEPT !.pc = IF p.slot = 0 THEN "idle" ELSE "release",
                               !.slot = 0, !.victims = <<>>]
    OBVIOUS
  <2>2. /\ Shape(q) /\ q.slot = 0 /\ q.key = p.key
        /\ q.pc = IF p.slot = 0 THEN "idle" ELSE "release"
    BY <1>2, <2>1 DEF RequestOK, Shape
  <2>3. q = Media!Left(c)
    BY <1>1, <2>1 DEF Media!Left
  <2> QED
    BY <1>3, <2>2, <2>3, IdleRequest
<1>6. \A d \in Callers : caller'[d] = IF d = c THEN r ELSE caller[d]
  BY <1>4 DEF FlightInv
<1>7. caller' = [d \in Callers |-> caller'[d]]
  BY <1>4 DEF FlightInv
<1>8. \A d \in Callers : RequestOK(caller[d])'
  <2> SUFFICES ASSUME NEW d \in Callers PROVE RequestOK(caller[d])'
    OBVIOUS
  <2>1. CASE d = c
    BY <1>1, <1>2, <1>5, <1>6, <2>1 DEF RequestOK, Media!Steps, Media!OnAwait,
       Media!Downloading
  <2>2. CASE d # c
    BY <1>6, <2>2 DEF FlightInv, RequestOK
  <2> QED
    BY <2>1, <2>2
<1>9. OneInSlot'
  BY <1>5, <1>6 DEF FlightInv, OneInSlot, Media!InSlot
<1>10. Media!SlotsAreUsed'
  <2> SUFFICES ASSUME NEW k \in Keys, flight[k] # 0
               PROVE \E d \in Callers : caller'[d].key = k /\ (caller'[d].slot = flight[k] \/ caller'[d].pc = "release")
    BY DEF Media!SlotsAreUsed
  <2>1. PICK d \in Callers : caller[d].key = k /\ (caller[d].slot = flight[k] \/ caller[d].pc = "release")
    BY DEF FlightInv, Media!SlotsAreUsed
  <2>2. CASE d # c
    BY <1>6, <2>1, <2>2
  <2>3. CASE d = c
    <3>1. p.slot = flight[k] /\ p.slot # 0
      BY <1>1, <2>1, <2>3
    <3> QED
      BY <1>1, <1>5, <1>6, <2>1, <2>3, <3>1
  <2> QED
    BY <2>2, <2>3
<1> QED
  BY <1>7, <1>8, <1>9, <1>10 DEF FlightInv


LEMMA BeginKeeps ==
  ASSUME FlightInv, NEW c \in Callers, Media!Begin(c)
  PROVE  FlightInv'
<1>1. PICK k \in Keys : caller' = [caller EXCEPT ![c] = [Media!Idle EXCEPT !.pc = "open", !.key = k]]
  BY DEF Media!Begin
<1>2. PICK r : r = [Media!Idle EXCEPT !.pc = "open", !.key = k]
  OBVIOUS
<1>3. Shape(r) /\ r.pc = "open" /\ r.key = k /\ r.slot = 0
  BY <1>2 DEF Media!Idle, Shape
<1>4. caller[c].pc = "idle" /\ UNCHANGED flight
  BY DEF Media!Begin
<1>5. \A d \in Callers : caller'[d] = IF d = c THEN r ELSE caller[d]
  BY <1>1, <1>2 DEF FlightInv
<1>6. caller' = [d \in Callers |-> caller'[d]]
  BY <1>1 DEF FlightInv
<1>7. caller[c].slot = 0
  BY <1>4 DEF FlightInv, RequestOK
<1>8. \A d \in Callers : RequestOK(caller[d])'
  <2> SUFFICES ASSUME NEW d \in Callers PROVE RequestOK(caller[d])'
    OBVIOUS
  <2>1. CASE d = c
    BY <1>3, <1>5, <2>1 DEF RequestOK, Media!Steps, Media!OnAwait, Media!Downloading
  <2>2. CASE d # c
    BY <1>4, <1>5, <2>2 DEF FlightInv, RequestOK
  <2> QED
    BY <2>1, <2>2
<1>9. OneInSlot'
  BY <1>3, <1>5 DEF FlightInv, OneInSlot, Media!InSlot
<1>10. Media!SlotsAreUsed'
  BY <1>4, <1>5, <1>7 DEF FlightInv, Media!SlotsAreUsed
<1>11. flight' \in [Keys -> Nat]
  BY <1>4 DEF FlightInv
<1> QED
  BY <1>6, <1>8, <1>9, <1>10, <1>11 DEF FlightInv

\* FlightGuard::join: when the map has no slot nobody is under one.
LEMMA JoinKeeps ==
  ASSUME FlightInv, IsFiniteSet(Callers), NEW c \in Callers, Media!Join(c)
  PROVE  FlightInv'
<1>1. PICK p, k : p = caller[c] /\ k = p.key
  OBVIOUS
<1>2. RequestOK(p) /\ p.pc = "join" /\ k \in Keys /\ p.slot = 0
  BY <1>1 DEF FlightInv, RequestOK, Media!Join
<1>3. PICK fresh : fresh = CHOOSE n \in Media!Slots \ {0} :
                             \A d \in Callers : Media!Under(d, k) => caller[d].slot # n
  OBVIOUS
<1>4. PICK slot : slot = IF flight[k] = 0 THEN fresh ELSE flight[k]
  OBVIOUS
<1>5. /\ flight' = [flight EXCEPT ![k] = slot]
      /\ caller' = [caller EXCEPT ![c].pc = "wait", ![c].slot = slot]
  BY <1>1, <1>3, <1>4 DEF Media!Join
<1>6. slot \in Nat /\ slot # 0
  <2>1. CASE flight[k] # 0
    BY <1>2, <1>4, <2>1 DEF FlightInv
  <2>2. CASE flight[k] = 0
    <3>1. Media!Cardinality(Callers) \in Nat /\ Media!Cardinality(Callers) # 0
      BY FS_CardinalityType, FS_EmptySet, SameSize
    <3>2. 1 \in Media!Slots \ {0} /\ Media!Slots \subseteq Nat
      BY <3>1 DEF Media!Slots
    <3>3. \A d \in Callers : ~Media!Under(d, k)
      BY <2>2 DEF FlightInv, RequestOK, Media!Under
    <3>4. \E n \in Media!Slots \ {0} : \A d \in Callers : Media!Under(d, k) => caller[d].slot # n
      BY <3>2, <3>3
    <3>5. fresh \in Media!Slots \ {0}
      BY <1>3, <3>4
    <3> QED
      BY <1>4, <2>2, <3>2, <3>5
  <2> QED
    BY <2>1, <2>2
<1>7. flight[k] # 0 => slot = flight[k]
  BY <1>4
<1>8. PICK r : r = [p EXCEPT !.pc = "wait", !.slot = slot]
  OBVIOUS
<1>9. Shape(r) /\ r.pc = "wait" /\ r.key = k /\ r.slot = slot
  BY <1>1, <1>2, <1>8 DEF RequestOK, Shape
<1>10. caller' = [caller EXCEPT ![c] = r]
  BY <1>1, <1>5, <1>8
<1>11. \A d \in Callers : caller'[d] = IF d = c THEN r ELSE caller[d]
  BY <1>10 DEF FlightInv
<1>12. caller' = [d \in Callers |-> caller'[d]]
  BY <1>10 DEF FlightInv
<1>13. /\ flight' \in [Keys -> Nat] /\ flight'[k] = slot
       /\ \A j \in Keys : flight'[j] = IF j = k THEN slot ELSE flight[j]
  BY <1>2, <1>5, <1>6 DEF FlightInv
<1>14. \A d \in Callers : RequestOK(caller[d])'
  <2> SUFFICES ASSUME NEW d \in Callers PROVE RequestOK(caller[d])'
    OBVIOUS
  <2>1. CASE d = c
    BY <1>2, <1>6, <1>9, <1>11, <1>13, <2>1 DEF RequestOK, Media!Steps, Media!OnAwait,
       Media!Downloading
  <2>2. CASE d # c
    <3>1. RequestOK(caller[d]) /\ caller'[d] = caller[d]
      BY <1>11, <2>2 DEF FlightInv
    <3>2. caller[d].slot # 0 => caller[d].slot = flight'[caller[d].key]
      <4> SUFFICES ASSUME caller[d].slot # 0 PROVE caller[d].slot = flight'[caller[d].key]
        OBVIOUS
      <4>1. caller[d].key \in Keys /\ caller[d].slot = flight[caller[d].key]
        BY <3>1 DEF RequestOK
      <4> QED
        BY <1>7, <1>13, <4>1
    <3> QED
      BY <3>1, <3>2 DEF RequestOK
  <2> QED
    BY <2>1, <2>2
<1>15. OneInSlot'
  BY <1>9, <1>11 DEF FlightInv, OneInSlot, Media!InSlot
<1>16. Media!SlotsAreUsed'
  <2> SUFFICES ASSUME NEW j \in Keys, flight'[j] # 0
               PROVE \E d \in Callers : caller'[d].key = j /\ (caller'[d].slot = flight'[j] \/ caller'[d].pc = "release")
    BY DEF Media!SlotsAreUsed
  <2>1. CASE j = k
    BY <1>9, <1>11, <1>13, <2>1
  <2>2. CASE j # k
    <3>1. PICK d \in Callers : caller[d].key = j /\ (caller[d].slot = flight[j] \/ caller[d].pc = "release")
      BY <1>13, <2>2 DEF FlightInv, Media!SlotsAreUsed
    <3>2. d # c
      BY <1>1, <2>2, <3>1
    <3> QED
      BY <1>11, <1>13, <2>2, <3>1, <3>2
  <2> QED
    BY <2>1, <2>2
<1> QED
  BY <1>12, <1>13, <1>14, <1>15, <1>16 DEF FlightInv

\* The slot's mutex: whoever gets it is alone.
LEMMA LockSlotKeeps ==
  ASSUME FlightInv, NEW c \in Callers, Media!LockSlot(c)
  PROVE  FlightInv'
<1>1. PICK p : p = caller[c]
  OBVIOUS
<1>2. RequestOK(p) /\ p.pc = "wait"
  BY <1>1 DEF FlightInv, Media!LockSlot
<1>3. PICK r : r = [p EXCEPT !.pc = "open"]
  OBVIOUS
<1>4. Shape(r) /\ r.pc = "open" /\ r.key = p.key /\ r.slot = p.slot
  BY <1>2, <1>3, SetField DEF RequestOK
<1>5. caller' = [caller EXCEPT ![c] = r] /\ UNCHANGED flight
  BY <1>1, <1>3 DEF Media!LockSlot, Media!Goto
<1>6. \A d \in Callers : caller'[d] = IF d = c THEN r ELSE caller[d]
  BY <1>5 DEF FlightInv
<1>7. caller' = [d \in Callers |-> caller'[d]]
  BY <1>5 DEF FlightInv
<1>8. ASSUME NEW d \in Callers, Media!InSlot(d), caller[d].key = p.key PROVE FALSE
  <2>1. caller[d].slot = p.slot
    BY <1>1, <1>2, <1>8 DEF FlightInv, RequestOK, Media!InSlot
  <2>2. Media!Under(d, p.key)
    BY <1>8 DEF Media!Under, Media!InSlot
  <2> QED
    BY <1>1, <1>8, <2>1, <2>2 DEF Media!LockSlot
<1>9. OneInSlot'
  BY <1>1, <1>4, <1>6, <1>8 DEF FlightInv, OneInSlot, Media!InSlot
<1>10. \A d \in Callers : RequestOK(caller[d])'
  <2> SUFFICES ASSUME NEW d \in Callers PROVE RequestOK(caller[d])'
    OBVIOUS
  <2>1. CASE d = c
    BY <1>2, <1>4, <1>5, <1>6, <2>1 DEF RequestOK, Media!Steps, Media!OnAwait,
       Media!Downloading
  <2>2. CASE d # c
    BY <1>5, <1>6, <2>2 DEF FlightInv, RequestOK
  <2> QED
    BY <2>1, <2>2
<1>11. Media!SlotsAreUsed'
  BY <1>1, <1>2, <1>4, <1>5, <1>6 DEF FlightInv, Media!SlotsAreUsed
<1>12. flight' \in [Keys -> Nat]
  BY <1>5 DEF FlightInv
<1> QED
  BY <1>7, <1>9, <1>10, <1>11, <1>12 DEF FlightInv

\* release_flight: the map's entry goes with its last user.
LEMMA ReleaseKeeps ==
  ASSUME FlightInv, NEW c \in Callers, Media!ReleaseFlight(c)
  PROVE  FlightInv'
<1>1. PICK p, k : p = caller[c] /\ k = p.key
  OBVIOUS
<1>2. RequestOK(p) /\ p.pc = "release" /\ k \in Keys /\ p.slot = 0
  BY <1>1 DEF FlightInv, RequestOK, Media!ReleaseFlight
<1>3. /\ flight' = IF Media!Released(k) THEN [flight EXCEPT ![k] = 0] ELSE flight
      /\ caller' = [caller EXCEPT ![c] = Media!Idle]
  BY <1>1 DEF Media!ReleaseFlight
<1>4. \A d \in Callers : caller'[d] = IF d = c THEN Media!Idle ELSE caller[d]
  BY <1>3 DEF FlightInv
<1>5. caller' = [d \in Callers |-> caller'[d]]
  BY <1>3 DEF FlightInv
<1>6. /\ flight' \in [Keys -> Nat]
      /\ \A j \in Keys : flight'[j] = IF j = k /\ Media!Released(k) THEN 0 ELSE flight[j]
  BY <1>2, <1>3 DEF FlightInv
<1>7. \A d \in Callers : RequestOK(caller[d])'
  <2> SUFFICES ASSUME NEW d \in Callers PROVE RequestOK(caller[d])'
    OBVIOUS
  <2>1. CASE d = c
    BY <1>4, <2>1, IdleRequest DEF RequestOK, Media!Steps, Media!Downloading
  <2>2. CASE d # c
    <3>1. RequestOK(caller[d]) /\ caller'[d] = caller[d]
      BY <1>4, <2>2 DEF FlightInv
    <3>2. ASSUME caller[d].slot # 0 PROVE caller[d].slot = flight'[caller[d].key]
      <4>1. caller[d].key \in Keys /\ caller[d].slot = flight[caller[d].key]
        BY <3>1, <3>2 DEF RequestOK
      <4>2. caller[d].key = k => ~Media!Released(k)
        BY <3>2, <4>1 DEF Media!Released, Media!Under
      <4> QED
        BY <1>6, <4>1, <4>2
    <3> QED
      BY <3>1, <3>2 DEF RequestOK
  <2> QED
    BY <2>1, <2>2
<1>8. OneInSlot'
  BY <1>4, IdleRequest DEF FlightInv, OneInSlot, Media!InSlot
<1>9. Media!SlotsAreUsed'
  <2> SUFFICES ASSUME NEW j \in Keys, flight'[j] # 0
               PROVE \E d \in Callers : caller'[d].key = j /\ (caller'[d].slot = flight'[j] \/ caller'[d].pc = "release")
    BY DEF Media!SlotsAreUsed
  <2>1. CASE j = k
    <3>1. ~Media!Released(k) /\ flight'[j] = flight[k]
      BY <1>6, <2>1
    <3>2. PICK d \in Callers : Media!Under(d, k) /\ caller[d].slot = flight[k]
      BY <3>1 DEF Media!Released
    <3>3. d # c
      BY <1>1, <1>2, <3>2 DEF Media!Under
    <3> QED
      BY <1>4, <2>1, <3>1, <3>2, <3>3 DEF Media!Under
  <2>2. CASE j # k
    <3>1. PICK d \in Callers : caller[d].key = j /\ (caller[d].slot = flight[j] \/ caller[d].pc = "release")
      BY <1>6, <2>2 DEF FlightInv, Media!SlotsAreUsed
    <3>2. d # c
      BY <1>1, <2>2, <3>1
    <3> QED
      BY <1>4, <1>6, <2>2, <3>1, <3>2
  <2> QED
    BY <2>1, <2>2
<1> QED
  BY <1>5, <1>6, <1>7, <1>8, <1>9 DEF FlightInv


\* A request goes to another step under the slot it has.
LEMMA GotoKeeps ==
  ASSUME FlightInv, NEW c \in Callers, NEW x \in Media!Steps, Media!Goto(c, x),
         UNCHANGED flight,
         x \notin {"idle", "wait", "release"},
         caller[c].pc \notin {"idle", "wait", "release"},
         x = "join" => caller[c].slot = 0,
         x \in Media!Downloading => caller[c].slot # 0
  PROVE  FlightInv'
<1>1. PICK p, r : p = caller[c] /\ r = [p EXCEPT !.pc = x]
  OBVIOUS
<1>2. RequestOK(p)
  BY <1>1 DEF FlightInv
<1>3. Shape(r) /\ r.pc = x /\ r.key = p.key /\ r.slot = p.slot
  BY <1>1, <1>2, SetField DEF RequestOK
<1>4. caller' = [caller EXCEPT ![c] = r]
  BY <1>1 DEF Media!Goto
<1> QED
  BY <1>1, <1>3, <1>4, RequestMoves

LEMMA RequestKeeps ==
  ASSUME FlightInv, IsFiniteSet(Callers), NEW c \in Callers, Media!Request(c) \/ Media!Cancel(c)
  PROVE  FlightInv'
<1>1. CASE Media!Begin(c)
  BY <1>1, BeginKeeps
<1>2. CASE Media!Join(c)
  BY <1>2, JoinKeeps
<1>3. CASE Media!LockSlot(c)
  BY <1>3, LockSlotKeeps
<1>4. CASE Media!ReleaseFlight(c)
  BY <1>4, ReleaseKeeps
<1>5. RequestOK(caller[c])
  BY DEF FlightInv
<1>6. CASE Media!Open(c)
  <2>1. UNCHANGED flight /\ caller[c].pc = "open"
    BY <1>6 DEF Media!Open
  <2>2. PICK x \in {"touch", "join", "permit"} :
          /\ Media!Goto(c, x)
          /\ x = "join" => caller[c].slot = 0
          /\ x = "permit" => caller[c].slot # 0
    BY <1>6 DEF Media!Open
  <2> QED
    BY <2>1, <2>2, GotoKeeps DEF Media!Steps, Media!OnAwait, Media!Downloading
<1>7. CASE Media!Touch(c)
  BY <1>7, LeaveKeeps DEF Media!Touch
<1>8. ASSUME Media!Permit(c) \/ Media!Fetch(c) \/ Media!Stage(c) \/ Media!Promote(c) \/ Media!MakeDir(c) \/ Media!MoveFile(c)
      PROVE  FlightInv'
  <2>1. /\ UNCHANGED flight
        /\ caller[c].pc \in {"permit", "fetch", "stage", "account", "mkdir", "rename"}
        /\ \/ Media!Leave(c)
           \/ \E x \in {"fetch", "stage", "account", "mkdir", "rename", "record"} : Media!Goto(c, x)
    BY <1>8 DEF Media!Permit, Media!Fetch, Media!Stage, Media!Promote, Media!MakeDir,
       Media!MoveFile
  <2>2. CASE Media!Leave(c)
    BY <2>1, <2>2, LeaveKeeps
  <2>3. ASSUME NEW x \in {"fetch", "stage", "account", "mkdir", "rename", "record"},
               Media!Goto(c, x)
        PROVE  FlightInv'
    <3>1. caller[c].slot # 0
      BY <1>5, <2>1 DEF RequestOK, Media!Downloading
    <3> QED
      BY <2>1, <2>3, <3>1, GotoKeeps DEF Media!Steps, Media!OnAwait
  <2> QED
    BY <2>1, <2>2, <2>3
<1>9. CASE Media!Record(c)
  <2>1. PICK p, v : p = caller[c] /\ v = Media!VictimsOf(Media!Used(lru, caller[c].key), Media!Counted(caller[c].key))
    OBVIOUS
  <2>2. p.pc = "record" /\ UNCHANGED flight
        /\ caller' = [caller EXCEPT ![c] = [p EXCEPT !.pc = "unlink", !.victims = v]]
    BY <1>9, <2>1 DEF Media!Record
  <2>3. PICK r : r = [p EXCEPT !.pc = "unlink", !.victims = v]
    OBVIOUS
  <2>4. Shape(r) /\ r.pc = "unlink" /\ r.key = p.key /\ r.slot = p.slot /\ p.slot # 0
    BY <1>5, <2>1, <2>2, <2>3 DEF RequestOK, Shape, Media!Downloading
  <2> QED
    BY <2>1, <2>2, <2>3, <2>4, RequestMoves DEF Media!Steps, Media!OnAwait
<1>10. CASE Media!UnlinkVictim(c)
  <2>1. CASE Media!Leave(c)
    BY <1>10, <2>1, LeaveKeeps DEF Media!UnlinkVictim
  <2>2. CASE caller' = [caller EXCEPT ![c].victims = Tail(@)]
    <3>1. PICK p, r : p = caller[c] /\ r = [p EXCEPT !.victims = Tail(p.victims)]
      OBVIOUS
    <3>2. p.pc = "unlink" /\ UNCHANGED flight /\ caller' = [caller EXCEPT ![c] = r]
      BY <1>10, <2>2, <3>1 DEF Media!UnlinkVictim
    <3>3. Shape(r) /\ r.pc = "unlink" /\ r.key = p.key /\ r.slot = p.slot /\ p.slot # 0
      BY <1>5, <3>1, <3>2 DEF RequestOK, Shape, Media!Downloading
    <3> QED
      BY <3>1, <3>2, <3>3, RequestMoves DEF Media!Steps, Media!OnAwait
  <2> QED
    BY <1>10, <2>1, <2>2 DEF Media!UnlinkVictim
<1>11. CASE Media!Cancel(c)
  BY <1>11, LeaveKeeps DEF Media!Cancel, Media!OnAwait
<1> QED
  BY <1>1, <1>2, <1>3, <1>4, <1>6, <1>7, <1>8, <1>9, <1>10, <1>11 DEF Media!Request

LEMMA FlightStarts ==
  ASSUME flight = [k \in Keys |-> 0], caller = [c \in Callers |-> Media!Idle]
  PROVE  FlightInv
<1>1. \A c \in Callers : caller[c] = Media!Idle
  OBVIOUS
<1>2. \A c \in Callers : RequestOK(caller[c])
  BY <1>1, IdleRequest DEF RequestOK, Media!Steps, Media!Downloading
<1>3. OneInSlot /\ Media!SlotsAreUsed
  BY <1>1, IdleRequest DEF OneInSlot, Media!SlotsAreUsed, Media!InSlot
<1> QED
  BY <1>1, <1>2, <1>3 DEF FlightInv

LEMMA FlightNext ==
  ASSUME IsFiniteSet(Callers), FlightInv, [Media!Next]_Media!vars
  PROVE  FlightInv'
<1>1. ASSUME NEW c \in Callers, Media!Request(c) \/ Media!Cancel(c) PROVE FlightInv'
  BY <1>1, RequestKeeps
<1>2. CASE Media!Crash
  <2>1. flight' = [k \in Keys |-> 0] /\ caller' = [c \in Callers |-> Media!Idle]
    BY <1>2 DEF Media!Crash
  <2>2. \A c \in Callers : caller'[c] = Media!Idle
    BY <2>1
  <2>3. \A c \in Callers : RequestOK(caller[c])'
    BY <2>2, IdleRequest DEF RequestOK, Media!Steps, Media!Downloading
  <2>4. OneInSlot' /\ Media!SlotsAreUsed'
    BY <2>1, <2>2, IdleRequest DEF OneInSlot, Media!SlotsAreUsed, Media!InSlot
  <2> QED
    BY <2>1, <2>2, <2>3, <2>4 DEF FlightInv
<1>3. CASE UNCHANGED <<caller, flight>>
  BY <1>3, FlightSame
<1>4. ASSUME NEW a \in Accounts, Media!Delete(a) \/ Media!Purge(a) \/ Media!CollectOrphan(a)
      PROVE  UNCHANGED <<caller, flight>>
  BY <1>4 DEF Media!Delete, Media!Purge, Media!PurgeLock, Media!PurgeIndex, Media!PurgeClear,
     Media!PurgeRmdir, Media!DeleteRow, Media!CollectOrphan
<1>5. CASE Media!Rebuild \/ Media!Land \/ UNCHANGED Media!vars
  <2>1. UNCHANGED <<caller, flight>>
    BY <1>5 DEF Media!Rebuild, Media!ScanFile, Media!Merge, Media!ScanUnlink, Media!Land,
       Media!vars
  <2> QED
    BY <2>1, FlightSame
<1> QED
  BY <1>1, <1>2, <1>3, <1>4, <1>5 DEF Media!Next

LEMMA FlightHolds == ASSUME IsFiniteSet(Callers) PROVE Media!Spec => []FlightInv
<1>1. Media!Init => FlightInv
  BY FlightStarts DEF Media!Init
<1>2. FlightInv /\ [Media!Next]_Media!vars => FlightInv'
  BY FlightNext
<1> QED
  BY <1>1, <1>2, PTL DEF Media!Spec

\* Two requests never download or store the same object at once, and the flight map keeps no
\* entry that nobody uses, whoever is dropped in the queue and in whatever order requests end
\* (get_or_fetch_keyed, FlightGuard, release_flight): a request that joins while the last one
\* looks whether it was the last finds its slot or starts the next one.
THEOREM FlightCorrect ==
  ASSUME IsFiniteSet(Callers)
  PROVE  Media!Spec => [](Media!SingleFlight /\ Media!SlotsAreUsed)
<1>1. ASSUME FlightInv PROVE Media!SingleFlight
  <2> SUFFICES ASSUME NEW c \in Callers, NEW d \in Callers, caller[c].pc \in Media!Downloading,
                      caller[d].pc \in Media!Downloading, caller[c].key = caller[d].key
               PROVE  c = d
    BY DEF Media!SingleFlight
  <2>1. Media!InSlot(c) /\ Media!InSlot(d)
    BY <1>1 DEF FlightInv, RequestOK, Media!InSlot, Media!Downloading
  <2> QED
    BY <1>1, <2>1 DEF FlightInv, OneInSlot
<1>2. FlightInv => Media!SlotsAreUsed
  BY DEF FlightInv
<1> QED
  BY <1>1, <1>2, FlightHolds, PTL


-----------------------------------------------------------------------------
(* Purges *)

\* The steps of a request that holds its account's lock.
Storing == {"mkdir", "rename", "record", "unlink"}

\* What a request may do to the files, the calls left behind and itself.
Acts(c) ==
  /\ \A d \in Callers : d # c => caller'[d] = caller[d]
  /\ UNCHANGED <<purged, purge, owners, gc, orphans>>
  /\ \/ caller'[c].pc = "idle"
     \/ caller[c].pc # "idle" /\ caller'[c].key = caller[c].key
     \/ caller'[c].pc = "open" /\ caller'[c].key \in Keys /\ owners[AccountOf[caller'[c].key]] # "gone"
  /\ caller'[c].pc \in Storing =>
       /\ caller[c].pc # "idle" /\ caller'[c].key = caller[c].key
       /\ \/ caller[c].pc \in Storing
          \/ /\ Media!AccountFree(AccountOf[caller[c].key]) /\ AccountOf[caller[c].key] \notin purged
  /\ \/ dirs' = dirs
     \/ caller[c].pc = "mkdir" /\ dirs' = dirs \cup {AccountOf[caller[c].key]}
  /\ \/ disk' \subseteq disk
     \/ caller[c].pc = "rename" /\ disk' \subseteq disk \cup {caller[c].key}
  /\ "cancel" \notin Faults => detached' = detached
  /\ \A e \in detached' : \/ e \in detached \/ e[1] = "unlink"
                          \/ caller[c].pc # "idle" /\ e[2] = caller[c].key

LEMMA GotoGoes ==
  ASSUME FlightInv, NEW c \in Callers, NEW x, Media!Goto(c, x)
  PROVE  /\ caller'[c].pc = x /\ caller'[c].key = caller[c].key
         /\ \A d \in Callers : d # c => caller'[d] = caller[d]
<1>1. PICK p, r : p = caller[c] /\ r = [p EXCEPT !.pc = x]
  OBVIOUS
<1>2. Shape(p)
  BY <1>1 DEF FlightInv, RequestOK
<1>3. r.pc = x /\ r.key = p.key
  BY <1>1, <1>2, SetField
<1>4. caller' = [caller EXCEPT ![c] = r]
  BY <1>1 DEF Media!Goto
<1> QED
  BY <1>1, <1>3, <1>4 DEF FlightInv

LEMMA LeaveGoes ==
  ASSUME FlightInv, NEW c \in Callers, Media!Leave(c)
  PROVE  /\ caller'[c].pc = "idle" \/ (caller'[c].pc = "release" /\ caller'[c].key = caller[c].key)
         /\ \A d \in Callers : d # c => caller'[d] = caller[d]
<1>1. PICK p, q : /\ p = caller[c]
                  /\ q = [p EXCEPT !.pc = IF p.slot = 0 THEN "idle" ELSE "release",
                                   !.slot = 0, !.victims = <<>>]
  OBVIOUS
<1>2. Shape(p)
  BY <1>1 DEF FlightInv, RequestOK
<1>3. q.key = p.key /\ q.pc = IF p.slot = 0 THEN "idle" ELSE "release"
  BY <1>1, <1>2 DEF Shape
<1>4. q = Media!Left(c)
  BY <1>1 DEF Media!Left
<1>5. PICK r : r = IF q.pc = "idle" THEN Media!Idle ELSE q
  OBVIOUS
<1>6. caller' = [caller EXCEPT ![c] = r]
  BY <1>4, <1>5 DEF Media!Leave
<1> QED
  BY <1>1, <1>3, <1>5, <1>6, IdleRequest DEF FlightInv

LEMMA RequestActs ==
  ASSUME FlightInv, NEW c \in Callers, Media!Request(c) \/ Media!Cancel(c)
  PROVE  Acts(c)
<1>0. UNCHANGED <<purged, purge, owners, gc, orphans>>
  BY DEF Media!Request, Media!Cancel, Media!Begin, Media!Open, Media!Touch, Media!Join,
     Media!LockSlot, Media!Permit, Media!Fetch, Media!Stage, Media!Promote, Media!MakeDir,
     Media!MoveFile, Media!Record, Media!UnlinkVictim, Media!ReleaseFlight, Media!purging
<1>1. CASE Media!Begin(c)
  <2>1. PICK k \in Keys : /\ owners[AccountOf[k]] # "gone"
                          /\ caller' = [caller EXCEPT ![c] = [Media!Idle EXCEPT !.pc = "open", !.key = k]]
    BY <1>1 DEF Media!Begin
  <2>2. PICK r : r = [Media!Idle EXCEPT !.pc = "open", !.key = k]
    OBVIOUS
  <2>3. r.pc = "open" /\ r.key = k
    BY <2>2 DEF Media!Idle
  <2>4. caller'[c] = r /\ \A d \in Callers : d # c => caller'[d] = caller[d]
    BY <2>1, <2>2 DEF FlightInv
  <2>5. UNCHANGED <<dirs, disk, detached>>
    BY <1>1 DEF Media!Begin, Media!files
  <2> QED
    BY <1>0, <2>1, <2>3, <2>4, <2>5 DEF Acts, Storing
<1>2. ASSUME Media!Leave(c), UNCHANGED <<dirs, disk, detached>>, caller[c].pc # "idle"
      PROVE  Acts(c)
  BY <1>0, <1>2, LeaveGoes DEF Acts, Storing
<1>3. ASSUME NEW x, Media!Goto(c, x), x \notin Storing, UNCHANGED <<dirs, disk, detached>>,
             caller[c].pc # "idle"
      PROVE  Acts(c)
  BY <1>0, <1>3, GotoGoes DEF Acts
<1>4. CASE Media!Open(c) \/ Media!Touch(c) \/ Media!LockSlot(c) \/ Media!Permit(c) \/ Media!Fetch(c) \/ Media!Stage(c)
  <2>1. UNCHANGED <<dirs, disk, detached>> /\ caller[c].pc # "idle"
    BY <1>4 DEF Media!Open, Media!Touch, Media!LockSlot, Media!Permit, Media!Fetch,
       Media!Stage, Media!files
  <2>2. \/ Media!Leave(c)
        \/ \E x \in {"touch", "join", "permit", "open", "fetch", "stage", "account"} : Media!Goto(c, x)
    BY <1>4 DEF Media!Open, Media!Touch, Media!LockSlot, Media!Permit, Media!Fetch,
       Media!Stage
  <2> QED
    BY <1>2, <1>3, <2>1, <2>2 DEF Storing
<1>5. CASE Media!Join(c)
  <2>1. PICK p, slot : p = caller[c] /\ caller' = [caller EXCEPT ![c].pc = "wait", ![c].slot = slot]
    BY <1>5 DEF Media!Join
  <2>2. PICK r : r = [p EXCEPT !.pc = "wait", !.slot = slot]
    OBVIOUS
  <2>3. r.pc = "wait" /\ r.key = p.key
    BY <2>1, <2>2 DEF FlightInv, RequestOK, Shape
  <2>4. caller'[c] = r /\ \A d \in Callers : d # c => caller'[d] = caller[d]
    BY <2>1, <2>2 DEF FlightInv
  <2>5. UNCHANGED <<dirs, disk, detached>> /\ caller[c].pc = "join"
    BY <1>5 DEF Media!Join, Media!files
  <2> QED
    BY <1>0, <2>1, <2>3, <2>4, <2>5 DEF Acts, Storing
<1>6. CASE Media!ReleaseFlight(c)
  <2>1. caller'[c] = Media!Idle /\ \A d \in Callers : d # c => caller'[d] = caller[d]
    BY <1>6 DEF Media!ReleaseFlight, FlightInv
  <2>2. UNCHANGED <<dirs, disk, detached>>
    BY <1>6 DEF Media!ReleaseFlight, Media!files
  <2> QED
    BY <1>0, <2>1, <2>2, IdleRequest DEF Acts, Storing
<1>7. CASE Media!Promote(c)
  <2>1. UNCHANGED <<dirs, disk, detached>> /\ caller[c].pc = "account"
    BY <1>7 DEF Media!Promote, Media!files
  <2>2. \/ Media!Leave(c)
        \/ /\ Media!Goto(c, "mkdir") /\ Media!AccountFree(AccountOf[caller[c].key])
           /\ AccountOf[caller[c].key] \notin purged
    BY <1>7 DEF Media!Promote
  <2> QED
    BY <1>0, <1>2, <2>1, <2>2, GotoGoes DEF Acts
<1>8. CASE Media!MakeDir(c)
  <2>1. caller[c].pc = "mkdir" /\ UNCHANGED detached
    BY <1>8 DEF Media!MakeDir
  <2>2. CASE Media!Leave(c) /\ UNCHANGED Media!files
    BY <1>2, <2>1, <2>2 DEF Media!files
  <2>3. CASE Media!Mkdir(caller[c].key) /\ Media!Goto(c, "rename")
    BY <1>0, <2>1, <2>3, GotoGoes DEF Acts, Media!Mkdir, Storing
  <2> QED
    BY <1>8, <2>2, <2>3 DEF Media!MakeDir
<1>9. CASE Media!MoveFile(c)
  <2>1. caller[c].pc = "rename" /\ UNCHANGED detached
    BY <1>9 DEF Media!MoveFile
  <2>2. CASE Media!Leave(c) /\ UNCHANGED Media!files
    BY <1>2, <2>1, <2>2 DEF Media!files
  <2>3. CASE Media!Rename(caller[c].key) /\ Media!Goto(c, "record")
    <3>1. dirs' = dirs /\ disk' \subseteq disk \cup {caller[c].key}
      BY <2>3 DEF Media!Rename
    <3> QED
      BY <1>0, <2>1, <2>3, <3>1, GotoGoes DEF Acts, Storing
  <2> QED
    BY <1>9, <2>2, <2>3 DEF Media!MoveFile
<1>10. CASE Media!Record(c)
  <2>1. PICK p, v : p = caller[c] /\ caller' = [caller EXCEPT ![c] = [p EXCEPT !.pc = "unlink", !.victims = v]]
    BY <1>10 DEF Media!Record
  <2>2. PICK r : r = [p EXCEPT !.pc = "unlink", !.victims = v]
    OBVIOUS
  <2>3. r.pc = "unlink" /\ r.key = p.key
    BY <2>1, <2>2 DEF FlightInv, RequestOK, Shape
  <2>4. caller'[c] = r /\ \A d \in Callers : d # c => caller'[d] = caller[d]
    BY <2>1, <2>2 DEF FlightInv
  <2>5. UNCHANGED <<dirs, disk, detached>> /\ caller[c].pc = "record"
    BY <1>10 DEF Media!Record, Media!files
  <2> QED
    BY <1>0, <2>1, <2>3, <2>4, <2>5 DEF Acts, Storing
<1>11. CASE Media!UnlinkVictim(c)
  <2>1. caller[c].pc = "unlink" /\ UNCHANGED detached
    BY <1>11 DEF Media!UnlinkVictim
  <2>2. CASE Media!Leave(c) /\ UNCHANGED Media!files
    BY <1>2, <2>1, <2>2 DEF Media!files
  <2>3. CASE caller' = [caller EXCEPT ![c].victims = Tail(@)]
    <3>1. PICK p, r : p = caller[c] /\ r = [p EXCEPT !.victims = Tail(p.victims)]
      OBVIOUS
    <3>2. r.pc = "unlink" /\ r.key = p.key
      BY <2>1, <3>1 DEF FlightInv, RequestOK, Shape
    <3>3. caller'[c] = r /\ \A d \in Callers : d # c => caller'[d] = caller[d]
      BY <2>3, <3>1 DEF FlightInv
    <3>4. dirs' = dirs /\ disk' \subseteq disk
      BY <1>11 DEF Media!UnlinkVictim, Media!Unlink, Media!files
    <3> QED
      BY <1>0, <2>1, <3>1, <3>2, <3>3, <3>4 DEF Acts, Storing
  <2> QED
    BY <1>11, <2>2, <2>3 DEF Media!UnlinkVictim
<1>12. CASE Media!Cancel(c)
  <2>1. /\ "cancel" \in Faults /\ UNCHANGED <<dirs, disk>> /\ Media!Leave(c)
        /\ caller[c].pc # "idle"
    BY <1>12 DEF Media!Cancel, Media!files, Media!OnAwait
  <2>2. \A e \in detached' : e \in detached \/ e[1] = "unlink" \/ e[2] = caller[c].key
    <3>1. PICK E : /\ detached' = detached \cup E
                   /\ \/ E = {<<caller[c].pc, caller[c].key>>} \/ E = {}
                      \/ E = {<<"unlink", Head(caller[c].victims)>>}
      BY <1>12 DEF Media!Cancel
    <3> QED
      BY <3>1
  <2> QED
    BY <1>0, <2>1, <2>2, LeaveGoes DEF Acts, Storing
<1> QED
  BY <1>1, <1>4, <1>5, <1>6, <1>7, <1>8, <1>9, <1>10, <1>11, <1>12 DEF Media!Request


\* From the moment a purge holds the account's lock no request stores under it, so what it
\* removes stays removed.
PurgeInv ==
  /\ detached = {} /\ purge \in [Accounts -> Media!PurgeSteps]
  /\ \A a \in Accounts :
       /\ purge[a] \in {"index", "clear", "rmdir", "done"} =>
            a \in purged /\ \A c \in Callers : ~Media!InAccount(c, a)
       /\ purge[a] = "rmdir" => disk \cap Media!KeysOf(a) = {}
       /\ purge[a] = "done" => a \notin dirs

LEMMA RequestPurges ==
  ASSUME PurgeInv, Faults = {}, NEW c \in Callers, Acts(c)
  PROVE  PurgeInv'
<1>1. /\ UNCHANGED <<purged, purge, detached>>
      /\ \A d \in Callers : d # c => caller'[d] = caller[d]
  BY DEF Acts
<1>2. ASSUME NEW a \in Accounts, purge[a] \in {"index", "clear", "rmdir", "done"},
             Media!InAccount(c, a)'
      PROVE  FALSE
  <2>1. /\ caller'[c].key = caller[c].key
        /\ \/ caller[c].pc \in Storing
           \/ Media!AccountFree(AccountOf[caller[c].key]) /\ AccountOf[caller[c].key] \notin purged
    BY <1>2 DEF Acts, Media!InAccount, Storing
  <2>2. AccountOf[caller[c].key] = a
    BY <1>2, <2>1 DEF Media!InAccount
  <2>3. ~Media!InAccount(c, a) /\ a \in purged
    BY <1>2 DEF PurgeInv
  <2> QED
    BY <2>1, <2>2, <2>3 DEF Media!InAccount, Storing
<1>3. ASSUME NEW a \in Accounts, purge[a] \in {"index", "clear", "rmdir", "done"}
      PROVE  \A d \in Callers : ~Media!InAccount(d, a)'
  BY <1>1, <1>2, <1>3 DEF PurgeInv, Media!InAccount
<1>4. ASSUME NEW a \in Accounts, purge[a] = "rmdir" PROVE disk' \cap Media!KeysOf(a) = {}
  <2>1. disk \cap Media!KeysOf(a) = {} /\ ~Media!InAccount(c, a)
    BY <1>4 DEF PurgeInv
  <2>2. \/ disk' \subseteq disk
        \/ caller[c].pc = "rename" /\ disk' \subseteq disk \cup {caller[c].key}
    BY DEF Acts
  <2> QED
    BY <2>1, <2>2 DEF Media!InAccount, Media!KeysOf
<1>5. ASSUME NEW a \in Accounts, purge[a] = "done" PROVE a \notin dirs'
  <2>1. a \notin dirs /\ ~Media!InAccount(c, a)
    BY <1>5 DEF PurgeInv
  <2>2. \/ dirs' = dirs
        \/ caller[c].pc = "mkdir" /\ dirs' = dirs \cup {AccountOf[caller[c].key]}
    BY DEF Acts
  <2> QED
    BY <2>1, <2>2 DEF Media!InAccount
<1> QED
  BY <1>1, <1>3, <1>4, <1>5 DEF PurgeInv, Media!KeysOf

\* The purge of an account looks at nothing of another one.
LEMMA PurgePurges ==
  ASSUME PurgeInv, Faults = {}, NEW a \in Accounts,
         Media!Delete(a) \/ Media!Purge(a) \/ Media!CollectOrphan(a)
  PROVE  PurgeInv'
<1>1. UNCHANGED <<caller, detached>> /\ purged \subseteq purged'
  BY DEF Media!Delete, Media!Purge, Media!PurgeLock, Media!PurgeIndex, Media!PurgeClear,
     Media!PurgeRmdir, Media!DeleteRow, Media!CollectOrphan
<1>2. disk' \subseteq disk /\ dirs' \subseteq dirs
  BY DEF Media!Delete, Media!Purge, Media!PurgeLock, Media!PurgeIndex, Media!PurgeClear,
     Media!PurgeRmdir, Media!DeleteRow, Media!CollectOrphan, Media!files
<1>3. \A c \in Callers, b \in Accounts : Media!InAccount(c, b)' <=> Media!InAccount(c, b)
  BY <1>1 DEF Media!InAccount
<1>4. PICK x \in Media!PurgeSteps :
        /\ purge' = [purge EXCEPT ![a] = x]
        /\ x \in {"index", "clear", "rmdir", "done"} =>
             a \in purged' /\ \A c \in Callers : ~Media!InAccount(c, a)
        /\ x = "rmdir" => disk' \cap Media!KeysOf(a) = {}
        /\ x = "done" => a \notin dirs'
  <2>1. purge[a] \in Media!PurgeSteps /\ purge = [purge EXCEPT ![a] = purge[a]]
    BY DEF PurgeInv
  <2>2. CASE Media!Delete(a) \/ Media!CollectOrphan(a)
    <3>1. UNCHANGED <<dirs, disk, purged>> /\ (purge' = purge \/ purge' = [purge EXCEPT ![a] = "lock"])
      BY <2>2 DEF Media!Delete, Media!CollectOrphan, Media!files
    <3>2. CASE purge' = purge
      BY <2>1, <3>1, <3>2 DEF PurgeInv
    <3>3. CASE purge' = [purge EXCEPT ![a] = "lock"]
      BY <3>3 DEF Media!PurgeSteps
    <3> QED
      BY <3>1, <3>2, <3>3
  <2>3. CASE Media!PurgeLock(a)
    BY <2>3 DEF Media!PurgeLock, Media!AccountFree, Media!PurgeSteps
  <2>4. CASE Media!PurgeIndex(a)
    <3>1. purge[a] = "index" /\ purge' = [purge EXCEPT ![a] = "clear"]
      BY <2>4 DEF Media!PurgeIndex
    <3> QED
      BY <1>1, <3>1 DEF PurgeInv, Media!PurgeSteps
  <2>5. CASE Media!PurgeClear(a)
    <3>1. /\ purge[a] = "clear" /\ purge' = [purge EXCEPT ![a] = "rmdir"]
          /\ disk' = disk \ Media!KeysOf(a)
      BY <2>5 DEF Media!PurgeClear
    <3> QED
      BY <1>1, <3>1 DEF PurgeInv, Media!PurgeSteps
  <2>6. CASE Media!PurgeRmdir(a)
    <3>1. purge[a] = "rmdir" /\ purge' = [purge EXCEPT ![a] = "done"]
      BY <2>6 DEF Media!PurgeRmdir
    <3>2. disk \cap Media!KeysOf(a) = {} /\ a \in purged /\ \A c \in Callers : ~Media!InAccount(c, a)
      BY <3>1 DEF PurgeInv
    <3>3. dirs' = dirs \ {a}
      BY <2>6, <3>2 DEF Media!PurgeRmdir
    <3> QED
      BY <1>1, <3>1, <3>2, <3>3 DEF Media!PurgeSteps
  <2>7. CASE Media!DeleteRow(a)
    <3>1. UNCHANGED <<dirs, disk, purged, purge>>
      BY <2>7 DEF Media!DeleteRow, Media!files
    <3> QED
      BY <2>1, <3>1 DEF PurgeInv
  <2> QED
    BY <2>2, <2>3, <2>4, <2>5, <2>6, <2>7 DEF Media!Purge
<1>5. /\ purge' \in [Accounts -> Media!PurgeSteps]
      /\ \A b \in Accounts : purge'[b] = IF b = a THEN x ELSE purge[b]
  BY <1>4 DEF PurgeInv
<1>6. ASSUME NEW b \in Accounts
      PROVE  /\ purge'[b] \in {"index", "clear", "rmdir", "done"} =>
                  b \in purged' /\ \A c \in Callers : ~Media!InAccount(c, b)
             /\ purge'[b] = "rmdir" => disk' \cap Media!KeysOf(b) = {}
             /\ purge'[b] = "done" => b \notin dirs'
  <2>1. CASE b = a
    BY <1>4, <1>5, <2>1
  <2>2. CASE b # a
    BY <1>1, <1>2, <1>5, <2>2 DEF PurgeInv
  <2> QED
    BY <2>1, <2>2
<1> QED
  BY <1>1, <1>3, <1>5, <1>6 DEF PurgeInv, Media!KeysOf

LEMMA PurgeStarts ==
  ASSUME detached = {}, purge = [a \in Accounts |-> "idle"]
  PROVE  PurgeInv
  BY DEF PurgeInv, Media!PurgeSteps

LEMMA PurgeNext ==
  ASSUME Faults = {}, FlightInv, PurgeInv, [Media!Next]_Media!vars
  PROVE  PurgeInv'
<1>1. ASSUME NEW c \in Callers, Media!Request(c) \/ Media!Cancel(c) PROVE PurgeInv'
  BY <1>1, RequestActs, RequestPurges
<1>2. ASSUME NEW a \in Accounts,
             Media!Delete(a) \/ Media!Purge(a) \/ Media!CollectOrphan(a) PROVE PurgeInv'
  BY <1>2, PurgePurges
<1>3. CASE Media!Rebuild \/ UNCHANGED Media!vars
  <2>1. UNCHANGED <<dirs, caller, detached, purged, purge>> /\ disk' \subseteq disk
    BY <1>3 DEF Media!Rebuild, Media!ScanFile, Media!Merge, Media!ScanUnlink, Media!Unlink,
       Media!purging, Media!files, Media!vars
  <2> QED
    BY <2>1 DEF PurgeInv, Media!InAccount, Media!KeysOf
<1>4. CASE Media!Land
  BY <1>4 DEF Media!Land, PurgeInv
<1>5. CASE Media!Crash
  BY <1>5 DEF Media!Crash, PurgeInv, Media!PurgeSteps
<1> QED
  BY <1>1, <1>2, <1>3, <1>4, <1>5 DEF Media!Next

\* PurgedStaysGone, where neither a call of the filesystem fails nor a request is dropped
\* while one is under way: purge_account holds the account's lock from the tombstone to the
\* removal of the directory, and Promote looks at the tombstone under the same lock, so no
\* request that was in flight brings the directory of a purged account back.
THEOREM PurgedCorrect ==
  ASSUME IsFiniteSet(Callers), Faults = {}
  PROVE  Media!Spec => []Media!PurgedStaysGone
<1>1. Media!Init => PurgeInv
  BY PurgeStarts DEF Media!Init
<1>2. FlightInv /\ PurgeInv /\ [Media!Next]_Media!vars => PurgeInv'
  BY PurgeNext
<1>3. PurgeInv => Media!PurgedStaysGone
  BY DEF PurgeInv, Media!PurgedStaysGone
<1> QED
  BY <1>1, <1>2, <1>3, FlightHolds, PTL DEF Media!Spec

-----------------------------------------------------------------------------
(* Orphans *)

\* An account that had no row when the process booted has no request, and no call left
\* behind, that could write under it; its purge meets nothing new.
OrphanInv ==
  /\ purge \in [Accounts -> Media!PurgeSteps] /\ orphans \subseteq Accounts
  /\ owners \in [Accounts -> {"active", "deleting", "gone"}]
  /\ \A a \in orphans :
       /\ owners[a] = "gone"
       /\ \A c \in Callers : caller[c].pc # "idle" => AccountOf[caller[c].key] # a
       /\ \A e \in detached : e[1] = "unlink" \/ AccountOf[e[2]] # a
       /\ purge[a] = "rmdir" => disk \cap Media!KeysOf(a) = {}
       /\ purge[a] = "done" => a \notin dirs
       /\ a \notin gc /\ purge[a] = "idle" => a \notin dirs

LEMMA RequestSpares ==
  ASSUME FlightInv, OrphanInv, NEW c \in Callers, Acts(c)
  PROVE  OrphanInv'
<1>1. /\ UNCHANGED <<purge, owners, gc, orphans>>
      /\ \A d \in Callers : d # c => caller'[d] = caller[d]
  BY DEF Acts
<1>2. ASSUME NEW a \in orphans
      PROVE  /\ \A d \in Callers : caller'[d].pc # "idle" => AccountOf[caller'[d].key] # a
             /\ \A e \in detached' : e[1] = "unlink" \/ AccountOf[e[2]] # a
             /\ disk' \cap Media!KeysOf(a) \subseteq disk
             /\ a \in dirs' => a \in dirs
  <2>1. /\ owners[a] = "gone"
        /\ \A d \in Callers : caller[d].pc # "idle" => AccountOf[caller[d].key] # a
        /\ \A e \in detached : e[1] = "unlink" \/ AccountOf[e[2]] # a
    BY DEF OrphanInv
  <2>2. caller'[c].pc # "idle" => AccountOf[caller'[c].key] # a
    BY <2>1 DEF Acts
  <2>3. \A e \in detached' : e[1] = "unlink" \/ AccountOf[e[2]] # a
    BY <2>1 DEF Acts
  <2>4. disk' \cap Media!KeysOf(a) \subseteq disk
    <3>1. \/ disk' \subseteq disk
          \/ caller[c].pc = "rename" /\ disk' \subseteq disk \cup {caller[c].key}
      BY DEF Acts
    <3> QED
      BY <2>1, <3>1 DEF Media!KeysOf
  <2>5. a \in dirs' => a \in dirs
    <3>1. \/ dirs' = dirs
          \/ caller[c].pc = "mkdir" /\ dirs' = dirs \cup {AccountOf[caller[c].key]}
      BY DEF Acts
    <3> QED
      BY <2>1, <3>1
  <2> QED
    BY <1>1, <2>1, <2>2, <2>3, <2>4, <2>5
<1> QED
  BY <1>1, <1>2 DEF OrphanInv, Media!KeysOf

LEMMA PurgeSpares ==
  ASSUME OrphanInv, "io" \notin Faults, NEW a \in Accounts,
         Media!Delete(a) \/ Media!Purge(a) \/ Media!CollectOrphan(a)
  PROVE  OrphanInv'
<1>1. UNCHANGED <<caller, detached, orphans>> /\ disk' \subseteq disk /\ dirs' \subseteq dirs
  BY DEF Media!Delete, Media!Purge, Media!PurgeLock, Media!PurgeIndex, Media!PurgeClear,
     Media!PurgeRmdir, Media!DeleteRow, Media!CollectOrphan, Media!files
<1>2. \A b \in orphans : b # a => (b \in gc' <=> b \in gc)
  BY DEF Media!Delete, Media!Purge, Media!PurgeLock, Media!PurgeIndex, Media!PurgeClear,
     Media!PurgeRmdir, Media!DeleteRow, Media!CollectOrphan
<1>3. /\ owners' \in [Accounts -> {"active", "deleting", "gone"}]
      /\ \A b \in orphans : owners'[b] = "gone"
  <2>1. /\ owners \in [Accounts -> {"active", "deleting", "gone"}] /\ orphans \subseteq Accounts
        /\ \A b \in orphans : owners[b] = "gone"
    BY DEF OrphanInv
  <2>2. CASE Media!Delete(a)
    <3>1. owners[a] # "gone" /\ owners' = [owners EXCEPT ![a] = "deleting"]
      BY <2>2 DEF Media!Delete
    <3> QED
      BY <2>1, <3>1
  <2>3. CASE Media!DeleteRow(a)
    <3>1. owners' = [owners EXCEPT ![a] = "gone"]
      BY <2>3 DEF Media!DeleteRow
    <3> QED
      BY <2>1, <3>1
  <2>4. CASE owners' = owners
    BY <2>1, <2>4
  <2> QED
    BY <2>2, <2>3, <2>4 DEF Media!Purge, Media!PurgeLock, Media!PurgeIndex, Media!PurgeClear,
       Media!PurgeRmdir, Media!CollectOrphan
<1>4. PICK x \in Media!PurgeSteps :
        /\ purge' = [purge EXCEPT ![a] = x]
        /\ a \in orphans =>
             /\ x = "rmdir" => disk' \cap Media!KeysOf(a) = {}
             /\ x = "done" => a \notin dirs'
             /\ a \notin gc' /\ x = "idle" => a \notin dirs'
  <2>1. purge[a] \in Media!PurgeSteps /\ purge = [purge EXCEPT ![a] = purge[a]]
    BY DEF OrphanInv
  <2>2. CASE Media!Delete(a)
    BY <2>2 DEF Media!Delete, Media!PurgeSteps
  <2>3. CASE Media!PurgeLock(a)
    BY <2>3 DEF Media!PurgeLock, Media!PurgeSteps
  <2>4. CASE Media!PurgeIndex(a)
    BY <2>4 DEF Media!PurgeIndex, Media!PurgeSteps
  <2>5. CASE Media!PurgeClear(a)
    <3>1. purge' = [purge EXCEPT ![a] = "rmdir"] /\ disk' = disk \ Media!KeysOf(a)
      BY <2>5 DEF Media!PurgeClear
    <3> QED
      BY <3>1 DEF Media!PurgeSteps
  <2>6. CASE Media!PurgeRmdir(a)
    <3>1. purge[a] = "rmdir" /\ purge' = [purge EXCEPT ![a] = "done"]
      BY <2>6 DEF Media!PurgeRmdir
    <3>2. a \in orphans => dirs' = dirs \ {a}
      BY <2>6, <3>1 DEF Media!PurgeRmdir, OrphanInv
    <3> QED
      BY <3>1, <3>2 DEF Media!PurgeSteps
  <2>7. CASE Media!DeleteRow(a)
    <3>1. UNCHANGED <<dirs, disk, purge, gc>>
      BY <2>7 DEF Media!DeleteRow, Media!files
    <3> QED
      BY <2>1, <3>1 DEF OrphanInv
  <2>8. CASE Media!CollectOrphan(a)
    <3>1. UNCHANGED <<dirs, disk>>
      BY <2>8 DEF Media!CollectOrphan, Media!files
    <3>2. CASE Media!Orphan(a)
      BY <2>8, <3>2 DEF Media!CollectOrphan, Media!PurgeSteps
    <3>3. CASE ~Media!Orphan(a)
      <4>1. purge' = purge
        BY <2>8, <3>3 DEF Media!CollectOrphan
      <4>2. a \in orphans => a \notin dirs
        BY <3>3 DEF Media!Orphan, OrphanInv
      <4> QED
        BY <2>1, <3>1, <4>1, <4>2 DEF OrphanInv
    <3> QED
      BY <3>2, <3>3
  <2> QED
    BY <2>2, <2>3, <2>4, <2>5, <2>6, <2>7, <2>8 DEF Media!Purge
<1>5. /\ purge' \in [Accounts -> Media!PurgeSteps]
      /\ \A b \in Accounts : purge'[b] = IF b = a THEN x ELSE purge[b]
  BY <1>4 DEF OrphanInv
<1>6. ASSUME NEW b \in orphans
      PROVE  /\ purge'[b] = "rmdir" => disk' \cap Media!KeysOf(b) = {}
             /\ purge'[b] = "done" => b \notin dirs'
             /\ b \notin gc' /\ purge'[b] = "idle" => b \notin dirs'
  <2>0. b \in Accounts
    BY DEF OrphanInv
  <2>1. CASE b = a
    BY <1>4, <1>5, <2>0, <2>1
  <2>2. CASE b # a
    BY <1>1, <1>2, <1>5, <2>0, <2>2 DEF OrphanInv
  <2> QED
    BY <2>1, <2>2
<1> QED
  BY <1>1, <1>3, <1>5, <1>6 DEF OrphanInv, Media!KeysOf

\* A call left behind by a dropped request lands.
LEMMA LandSpares ==
  ASSUME OrphanInv, Media!Land
  PROVE  OrphanInv'
<1>1. PICK e \in detached : /\ detached' = detached \ {e}
                            /\ \/ e[1] = "mkdir" /\ Media!Mkdir(e[2])
                               \/ e[1] = "rename" /\ Media!Rename(e[2])
                               \/ e[1] = "unlink" /\ Media!Unlink(e[2])
  BY DEF Media!Land
<1>2. UNCHANGED <<caller, purge, owners, gc, orphans>>
  BY DEF Media!Land, Media!purging
<1>3. ASSUME NEW a \in orphans
      PROVE  disk' \cap Media!KeysOf(a) \subseteq disk /\ (a \in dirs' => a \in dirs)
  <2>1. e[1] = "unlink" \/ AccountOf[e[2]] # a
    BY DEF OrphanInv
  <2>2. CASE e[1] = "unlink"
    <3>1. Media!Unlink(e[2])
      BY <1>1, <2>2
    <3> QED
      BY <3>1 DEF Media!Unlink
  <2>3. CASE AccountOf[e[2]] # a
    <3>1. disk' \subseteq disk \cup {e[2]} /\ dirs' \subseteq dirs \cup {AccountOf[e[2]]}
      BY <1>1 DEF Media!Mkdir, Media!Rename, Media!Unlink
    <3> QED
      BY <2>3, <3>1 DEF Media!KeysOf
  <2> QED
    BY <2>1, <2>2, <2>3
<1> QED
  BY <1>1, <1>2, <1>3 DEF OrphanInv, Media!KeysOf

LEMMA OrphanNext ==
  ASSUME "io" \notin Faults, FlightInv, OrphanInv, [Media!Next]_Media!vars
  PROVE  OrphanInv'
<1>1. ASSUME NEW c \in Callers, Media!Request(c) \/ Media!Cancel(c) PROVE OrphanInv'
  BY <1>1, RequestActs, RequestSpares
<1>2. ASSUME NEW a \in Accounts,
             Media!Delete(a) \/ Media!Purge(a) \/ Media!CollectOrphan(a) PROVE OrphanInv'
  BY <1>2, PurgeSpares
<1>3. CASE Media!Rebuild \/ UNCHANGED Media!vars
  <2>1. /\ UNCHANGED <<dirs, caller, detached, purge, owners, gc, orphans>>
        /\ disk' \subseteq disk
    BY <1>3 DEF Media!Rebuild, Media!ScanFile, Media!Merge, Media!ScanUnlink, Media!Unlink,
       Media!purging, Media!files, Media!vars
  <2> QED
    BY <2>1 DEF OrphanInv, Media!KeysOf
<1>4. CASE Media!Land
  BY <1>4, LandSpares
<1>5. CASE Media!Crash
  <2>1. /\ detached' = {} /\ purge' = [a \in Accounts |-> "idle"] /\ gc' = Accounts
        /\ orphans' = {a \in Accounts : owners[a] = "gone"} /\ owners' = owners
        /\ caller' = [c \in Callers |-> Media!Idle]
    BY <1>5 DEF Media!Crash
  <2>2. \A c \in Callers : caller'[c].pc = "idle"
    BY <2>1, IdleRequest
  <2> QED
    BY <2>1, <2>2 DEF OrphanInv, Media!PurgeSteps
<1> QED
  BY <1>1, <1>2, <1>3, <1>4, <1>5 DEF Media!Next

\* OrphansAreSwept, where no call of the filesystem fails: once the boot's purge_orphans has
\* passed over an account that had no row, nothing of the process before and no request of
\* this one leaves it a directory, whichever requests are dropped.
THEOREM OrphansCorrect ==
  ASSUME IsFiniteSet(Callers), "io" \notin Faults
  PROVE  Media!Spec => []Media!OrphansAreSwept
<1>1. Media!Init => OrphanInv
  BY DEF Media!Init, OrphanInv, Media!PurgeSteps
<1>2. FlightInv /\ OrphanInv /\ [Media!Next]_Media!vars => OrphanInv'
  BY OrphanNext
<1>3. OrphanInv => Media!OrphansAreSwept
  BY DEF OrphanInv, Media!OrphansAreSwept
<1> QED
  BY <1>1, <1>2, <1>3, FlightHolds, PTL DEF Media!Spec

-----------------------------------------------------------------------------
(* Types of the credentials *)

\* The calls in progress, by what they know.
Boots == [op : {"boot"}, pc : {"boot"}]
Pairs == [op : {"signin"}, pc : {"pair"}, ident : Identities, session : 1..MaxTokens]
Rotations == [op : {"rotate"}, pc : {"fk", "rotated"}, row : 1..MaxRefresh]
Accesses == [op : {"rotate"}, pc : {"access"}, ident : Identities, session : 1..MaxTokens]
Ends == [op : {"end"}, pc : {"lock", "select", "locking", "updating", "count", "commit"},
         ident : Identities \cup {NoIdentity}, token : 0..MaxTokens, guarded : BOOLEAN,
         todo : SUBSET (1..MaxRefresh), mine : SUBSET (1..MaxRefresh), hit : SUBSET (1..MaxRefresh),
         before : SUBSET (1..MaxTokens), upto : 0..MaxRefresh, refused : BOOLEAN]
Unbinds == [op : {"unbind"}, pc : {"lock", "ident", "tokens", "rows", "count", "commit"},
            ident : Identities, guarded : BOOLEAN, doomed : SUBSET (1..MaxTokens),
            rows : SUBSET (1..MaxRefresh), refused : BOOLEAN]
Mints == [op : {"mint"}, pc : {"insert"}, parent : 1..MaxTokens]

Called == {Logins!Idle} \cup Boots \cup Pairs \cup Rotations \cup Accesses \cup Ends \cup Unbinds \cup Mints

\* What a call names is there: rows are never taken out of a table.
Named(q) ==
  /\ req[q].pc \in {"fk", "rotated"} => req[q].row \in DOMAIN refresh
  /\ req[q].op = "end" => /\ req[q].token = 0 \/ req[q].token \in DOMAIN tokens
                          /\ req[q].mine \subseteq DOMAIN refresh
                          /\ req[q].hit \subseteq req[q].mine
                          /\ req[q].pc \in {"lock", "select"} => req[q].mine = {}
  /\ req[q].op = "unbind" => /\ req[q].doomed \subseteq DOMAIN tokens
                             /\ req[q].rows \subseteq DOMAIN refresh
  /\ req[q].pc = "insert" => req[q].parent \in DOMAIN tokens

Typed == Logins!TypeOK /\ req \in [CallIds -> Called] /\ \A q \in CallIds : Named(q)

LEMMA InitTyped == Logins!CredentialsAssumption /\ Logins!Init => Typed
<1> SUFFICES ASSUME Logins!CredentialsAssumption, Logins!Init PROVE Typed
  OBVIOUS
<1>1. Logins!TypeOK
  BY DEF Logins!CredentialsAssumption, Logins!Init, Logins!TypeOK
<1>2. req \in [CallIds -> Called]
  BY DEF Logins!Init, Called
<1>3. ASSUME NEW q \in CallIds PROVE Named(q)
  BY DEF Logins!Init, Named, Logins!Idle
<1> QED
  BY <1>1, <1>2, <1>3 DEF Typed

\* The rows of the tables, by their numbers.
LEMMA Rows ==
  ASSUME Logins!CredentialsAssumption, Logins!TypeOK
  PROVE  /\ \A k \in DOMAIN tokens : tokens[k] \in Logins!Tokens /\ k \in 1..MaxTokens
         /\ \A r \in DOMAIN refresh : refresh[r] \in Logins!RefreshTokens /\ r \in 1..MaxRefresh
         /\ DOMAIN tokens \subseteq 1..MaxTokens /\ DOMAIN refresh \subseteq 1..MaxRefresh
         /\ Len(refresh) \in 0..MaxRefresh /\ Len(tokens) \in 0..MaxTokens
         /\ tokens \in Seq(Logins!Tokens) /\ refresh \in Seq(Logins!RefreshTokens)
BY DEF Logins!TypeOK, Logins!CredentialsAssumption

\* The stage of a call says what it is.
LEMMA Kinds ==
  ASSUME NEW t \in Called
  PROVE  /\ t.pc = "boot" => t \in Boots
         /\ t.pc = "pair" => t \in Pairs
         /\ t.pc \in {"fk", "rotated"} => t \in Rotations
         /\ t.pc = "access" => t \in Accesses
         /\ t.op = "end" => t \in Ends
         /\ t.pc \in {"select", "locking", "updating"} => t \in Ends
         /\ t.op = "unbind" => t \in Unbinds
         /\ t.pc \in {"ident", "tokens", "rows"} => t \in Unbinds
         /\ t.pc = "insert" => t \in Mints
         /\ t.pc = "lock" => t \in Ends \cup Unbinds
         /\ t.pc = "count" => t \in Ends \cup Unbinds
         /\ t.pc = "commit" => t \in Ends \cup Unbinds
<1>1. CASE t = Logins!Idle
  BY <1>1 DEF Logins!Idle
<1>2. CASE t \in Boots
  BY <1>2 DEF Boots
<1>3. CASE t \in Pairs
  BY <1>3 DEF Pairs
<1>4. CASE t \in Rotations
  BY <1>4 DEF Rotations
<1>5. CASE t \in Accesses
  BY <1>5 DEF Accesses
<1>6. CASE t \in Ends
  BY <1>6 DEF Ends
<1>7. CASE t \in Unbinds
  BY <1>7 DEF Unbinds
<1>8. CASE t \in Mints
  BY <1>8 DEF Mints
<1> QED
  BY <1>1, <1>2, <1>3, <1>4, <1>5, <1>6, <1>7, <1>8 DEF Called

\* What appending does to a table.
Adds(before, after, rec) ==
  /\ Len(before) + 1 \notin DOMAIN before
  /\ DOMAIN after = DOMAIN before \cup {Len(before) + 1}
  /\ \A k \in DOMAIN before : after[k] = before[k]
  /\ after[Len(before) + 1] = rec

LEMMA Enlarged ==
  ASSUME NEW S, NEW s \in Seq(S), NEW e \in S
  PROVE  Append(s, e) \in Seq(S) /\ Len(Append(s, e)) = Len(s) + 1 /\ Adds(s, Append(s, e), e)
BY DEF Adds

\* What the actions do to the calls.
Others(q) == \A p \in CallIds : p # q => req'[p] = req[p]

\* The fields of a revocation and of an unbind that a step does not change.
SameEnd(s, t) == /\ t.op = "end" /\ t.token = s.token /\ t.guarded = s.guarded
SameUnbind(s, t) == /\ t.op = "unbind" /\ t.ident = s.ident /\ t.guarded = s.guarded

LEMMA EndLockDoes ==
  ASSUME Logins!CredentialsAssumption, Typed, NEW q \in CallIds, Logins!EndLock(q)
  PROVE  /\ Others(q) /\ req' \in [CallIds -> Called] /\ req[q] \in Ends /\ req'[q] \in Ends
         /\ SameEnd(req[q], req'[q]) /\ req'[q].pc \in {"count", "select"}
         /\ req'[q].mine = req[q].mine /\ req'[q].hit = req[q].hit
<1>1. req[q] \in Ends
  BY Kinds DEF Typed, Logins!EndLock
<1>2. PICK i : i = IF req[q].token = 0 THEN req[q].ident ELSE tokens[req[q].token].ident
  OBVIOUS
<1>3. i \in Identities \cup {NoIdentity}
  <2>1. CASE req[q].token = 0
    BY <1>1, <1>2, <2>1 DEF Ends
  <2>2. CASE req[q].token # 0
    <3>1. req[q].token \in DOMAIN tokens
      BY <1>1, <2>2 DEF Typed, Named, Ends
    <3> QED
      BY <3>1, <1>2, <2>2, Rows DEF Typed, Logins!Tokens
  <2> QED
    BY <2>1, <2>2
<1>4. PICK b : b = IF i = NoIdentity THEN {} ELSE {refresh[r].session : r \in Logins!Unrevoked(i)}
  OBVIOUS
<1>5. b \in SUBSET (1..MaxTokens)
  <2>1. \A r \in Logins!Unrevoked(i) : refresh[r].session \in 1..MaxTokens
    BY Rows DEF Logins!Unrevoked, Logins!OfIdentity, Typed, Logins!RefreshTokens
  <2> QED
    BY <1>4, <2>1
<1>6. PICK n : n = IF i = NoIdentity THEN "count" ELSE "select"
  OBVIOUS
<1>7. n \in {"count", "select"}
  BY <1>6
<1>8. PICK l : l = Len(refresh)
  OBVIOUS
<1>9. l \in 0..MaxRefresh
  BY <1>8, Rows DEF Typed
<1>10. req' = [req EXCEPT ![q].pc = n, ![q].ident = i, ![q].upto = l, ![q].before = b]
  BY <1>2, <1>4, <1>6, <1>8 DEF Logins!EndLock
<1>11. PICK t : t = [req[q] EXCEPT !.pc = n, !.ident = i, !.upto = l, !.before = b]
  OBVIOUS
<1>12. req' = [req EXCEPT ![q] = t]
  BY <1>10, <1>11, <1>1 DEF Typed
<1>13. /\ t \in Ends /\ t.pc = n /\ SameEnd(req[q], t) /\ t.mine = req[q].mine /\ t.hit = req[q].hit
  BY <1>1, <1>3, <1>5, <1>7, <1>9, <1>11 DEF Ends, SameEnd
<1> QED
  BY <1>1, <1>7, <1>12, <1>13 DEF Others, Typed, Called

LEMMA EndSelectDoes ==
  ASSUME Logins!CredentialsAssumption, Typed, NEW q \in CallIds, Logins!EndSelect(q)
  PROVE  /\ Others(q) /\ req' \in [CallIds -> Called] /\ req[q] \in Ends /\ req'[q] \in Ends
         /\ SameEnd(req[q], req'[q]) /\ req'[q].pc = "locking"
         /\ req'[q].mine = req[q].mine /\ req'[q].hit = req[q].hit
<1>1. req[q] \in Ends
  BY Kinds DEF Typed, Logins!EndSelect
<1>2. PICK b : b = Logins!Unrevoked(req[q].ident)
  OBVIOUS
<1>3. b \in SUBSET (1..MaxRefresh)
  BY <1>2, Rows DEF Logins!Unrevoked, Logins!OfIdentity, Typed
<1>4. PICK t : t = [req[q] EXCEPT !.pc = "locking", !.todo = b]
  OBVIOUS
<1>5. req' = [req EXCEPT ![q] = t]
  BY <1>1, <1>2, <1>4 DEF Typed, Logins!EndSelect
<1>6. t \in Ends /\ t.pc = "locking" /\ SameEnd(req[q], t) /\ t.mine = req[q].mine /\ t.hit = req[q].hit
  BY <1>1, <1>3, <1>4 DEF Ends, SameEnd
<1> QED
  BY <1>1, <1>5, <1>6 DEF Others, Typed, Called

LEMMA EndLockRowDoes ==
  ASSUME Logins!CredentialsAssumption, Typed, NEW q \in CallIds, NEW r \in DOMAIN refresh,
         Logins!EndLockRow(q, r)
  PROVE  /\ Others(q) /\ req' \in [CallIds -> Called] /\ req[q] \in Ends /\ req'[q] \in Ends
         /\ SameEnd(req[q], req'[q]) /\ req[q].pc = "locking" /\ req'[q].pc = "locking"
         /\ req[q].mine \subseteq req'[q].mine /\ req'[q].mine \subseteq req[q].mine \cup {r}
         /\ req'[q].hit = req[q].hit
<1>1. req[q] \in Ends /\ req[q].pc = "locking"
  BY Kinds DEF Typed, Logins!EndLockRow
<1>2. PICK m : m = IF r \in Logins!Unrevoked(req[q].ident) THEN req[q].mine \cup {r} ELSE req[q].mine
  OBVIOUS
<1>3. /\ req[q].mine \in SUBSET (1..MaxRefresh) /\ req[q].todo \in SUBSET (1..MaxRefresh)
      /\ r \in 1..MaxRefresh
  BY <1>1, Rows DEF Ends, Typed
<1>4. m \in SUBSET (1..MaxRefresh) /\ req[q].mine \subseteq m /\ m \subseteq req[q].mine \cup {r}
  BY <1>2, <1>3
<1>5. PICK d : d = req[q].todo \ {r}
  OBVIOUS
<1>6. d \in SUBSET (1..MaxRefresh)
  BY <1>3, <1>5
<1>7. PICK t : t = [req[q] EXCEPT !.todo = d, !.mine = m]
  OBVIOUS
<1>8. req' = [req EXCEPT ![q].todo = d, ![q].mine = m]
  <2>1. req' = [req EXCEPT ![q].todo = @ \ {r},
                           ![q].mine = IF r \in Logins!Unrevoked(req[q].ident) THEN @ \cup {r} ELSE @]
    BY DEF Logins!EndLockRow
  <2> QED
    BY <1>1, <1>2, <1>5, <2>1 DEF Typed, Ends
<1>9. req' = [req EXCEPT ![q] = t]
  BY <1>1, <1>7, <1>8 DEF Typed
<1>10. t \in Ends /\ t.pc = "locking" /\ SameEnd(req[q], t) /\ t.mine = m /\ t.hit = req[q].hit
  BY <1>1, <1>4, <1>6, <1>7 DEF Ends, SameEnd
<1> QED
  BY <1>1, <1>4, <1>9, <1>10 DEF Others, Typed, Called

LEMMA EndUpdateDoes ==
  ASSUME Logins!CredentialsAssumption, Typed, NEW q \in CallIds, Logins!EndUpdate(q)
  PROVE  /\ Others(q) /\ req' \in [CallIds -> Called] /\ req[q] \in Ends /\ req'[q] \in Ends
         /\ SameEnd(req[q], req'[q]) /\ req[q].pc = "locking" /\ req'[q].pc = "updating"
         /\ req'[q].mine = req[q].mine /\ req'[q].hit = req[q].hit
<1>1. req[q] \in Ends /\ req[q].pc = "locking"
  BY Kinds DEF Typed, Logins!EndUpdate
<1>2. PICK b : b = Logins!Unrevoked(req[q].ident)
  OBVIOUS
<1>3. b \in SUBSET (1..MaxRefresh)
  BY <1>2, Rows DEF Logins!Unrevoked, Logins!OfIdentity, Typed
<1>4. PICK t : t = [req[q] EXCEPT !.pc = "updating", !.todo = b]
  OBVIOUS
<1>5. req' = [req EXCEPT ![q] = t]
  BY <1>1, <1>2, <1>4 DEF Typed, Logins!EndUpdate
<1>6. t \in Ends /\ t.pc = "updating" /\ SameEnd(req[q], t) /\ t.mine = req[q].mine /\ t.hit = req[q].hit
  BY <1>1, <1>3, <1>4 DEF Ends, SameEnd
<1> QED
  BY <1>1, <1>5, <1>6 DEF Others, Typed, Called

LEMMA EndUpdateRowDoes ==
  ASSUME Logins!CredentialsAssumption, Typed, NEW q \in CallIds, NEW r \in DOMAIN refresh,
         Logins!EndUpdateRow(q, r)
  PROVE  /\ Others(q) /\ req' \in [CallIds -> Called] /\ req[q] \in Ends /\ req'[q] \in Ends
         /\ SameEnd(req[q], req'[q]) /\ req[q].pc = "updating" /\ req'[q].pc = "updating"
         /\ req'[q].mine = req[q].mine \cup {r}
         /\ req'[q].hit \subseteq req[q].hit \cup {r}
         /\ r \in req'[q].hit => r \in req[q].hit \/ refresh[r].state \notin {"gone", "lapsed"}
<1>1. req[q] \in Ends /\ req[q].pc = "updating"
  BY Kinds DEF Typed, Logins!EndUpdateRow
<1>2. PICK h : h = IF r \in Logins!Unrevoked(req[q].ident) THEN req[q].hit \cup {r} ELSE req[q].hit
  OBVIOUS
<1>3. /\ req[q].mine \in SUBSET (1..MaxRefresh) /\ req[q].todo \in SUBSET (1..MaxRefresh)
      /\ req[q].hit \in SUBSET (1..MaxRefresh) /\ r \in 1..MaxRefresh
  BY <1>1, Rows DEF Ends, Typed
<1>4. /\ h \in SUBSET (1..MaxRefresh) /\ h \subseteq req[q].hit \cup {r}
      /\ r \in h => r \in req[q].hit \/ refresh[r].state \notin {"gone", "lapsed"}
  BY <1>2, <1>3 DEF Logins!Unrevoked, Logins!OfIdentity
<1>5. PICK d : d = req[q].todo \ {r}
  OBVIOUS
<1>6. PICK m : m = req[q].mine \cup {r}
  OBVIOUS
<1>7. d \in SUBSET (1..MaxRefresh) /\ m \in SUBSET (1..MaxRefresh)
  BY <1>3, <1>5, <1>6
<1>8. PICK t : t = [req[q] EXCEPT !.todo = d, !.mine = m, !.hit = h]
  OBVIOUS
<1>9. req' = [req EXCEPT ![q].todo = d, ![q].mine = m, ![q].hit = h]
  <2>1. req' = [req EXCEPT ![q].todo = @ \ {r}, ![q].mine = @ \cup {r},
                           ![q].hit = IF r \in Logins!Unrevoked(req[q].ident) THEN @ \cup {r} ELSE @]
    BY DEF Logins!EndUpdateRow
  <2> QED
    BY <1>1, <1>2, <1>5, <1>6, <2>1 DEF Typed, Ends
<1>10. req' = [req EXCEPT ![q] = t]
  BY <1>1, <1>8, <1>9 DEF Typed
<1>11. t \in Ends /\ t.pc = "updating" /\ SameEnd(req[q], t) /\ t.mine = m /\ t.hit = h
  BY <1>1, <1>4, <1>7, <1>8 DEF Ends, SameEnd
<1> QED
  BY <1>1, <1>4, <1>6, <1>10, <1>11 DEF Others, Typed, Called

LEMMA EndCountDoes ==
  ASSUME Logins!CredentialsAssumption, Typed, NEW q \in CallIds, Logins!EndCount(q)
  PROVE  /\ Others(q) /\ req' \in [CallIds -> Called] /\ req[q] \in Ends /\ req'[q] \in Ends
         /\ SameEnd(req[q], req'[q]) /\ req[q].pc \in {"count", "updating"} /\ req'[q].pc = "commit"
         /\ req'[q].mine = req[q].mine /\ req'[q].hit = req[q].hit
         /\ req'[q].refused <=> /\ req[q].guarded /\ req[q].token # 0
                                /\ tokens[req[q].token].perm /\ tokens[req[q].token].state = "live"
                                /\ ~Logins!Survivor(Logins!Ended(q), bound)
<1>1. req[q] \in Ends /\ req[q].pc \in {"count", "updating"}
  BY Kinds DEF Typed, Logins!EndCount
<1>2. PICK b : b = (/\ req[q].guarded /\ req[q].token # 0
                    /\ tokens[req[q].token].perm /\ tokens[req[q].token].state = "live"
                    /\ ~Logins!Survivor(Logins!Ended(q), bound))
  OBVIOUS
<1>3. b \in BOOLEAN
  BY <1>2
<1>4. PICK t : t = [req[q] EXCEPT !.pc = "commit", !.refused = b]
  OBVIOUS
<1>5. req' = [req EXCEPT ![q].pc = "commit", ![q].refused = b]
  BY <1>2 DEF Logins!EndCount
<1>6. req' = [req EXCEPT ![q] = t]
  BY <1>1, <1>4, <1>5 DEF Typed
<1>7. /\ t \in Ends /\ t.pc = "commit" /\ SameEnd(req[q], t) /\ t.mine = req[q].mine
      /\ t.hit = req[q].hit /\ t.refused = b
  BY <1>1, <1>3, <1>4 DEF Ends, SameEnd
<1>8. req'[q] = t /\ Others(q) /\ req' \in [CallIds -> Called]
  BY <1>6, <1>7 DEF Others, Typed, Called
<1> QED
  BY <1>1, <1>2, <1>7, <1>8

\* Goto, for each kind of call that moves on by it.
LEMMA RotateInsertDoes ==
  ASSUME Logins!CredentialsAssumption, Typed, NEW q \in CallIds, Logins!RotateInsert(q)
  PROVE  /\ Others(q) /\ req' \in [CallIds -> Called] /\ req[q] \in Rotations /\ req'[q] \in Rotations
         /\ req[q].pc = "fk" /\ req'[q].pc = "rotated" /\ req'[q].row = req[q].row
<1>1. req[q] \in Rotations /\ req[q].pc = "fk"
  BY Kinds DEF Typed, Logins!RotateInsert
<1>2. PICK t : t = [req[q] EXCEPT !.pc = "rotated"]
  OBVIOUS
<1>3. req' = [req EXCEPT ![q] = t]
  BY <1>1, <1>2 DEF Typed, Logins!RotateInsert, Logins!Goto
<1>4. t \in Rotations /\ t.pc = "rotated" /\ t.row = req[q].row
  BY <1>1, <1>2 DEF Rotations
<1> QED
  BY <1>1, <1>3, <1>4 DEF Others, Typed, Called

LEMMA UnbindGoes ==
  ASSUME Logins!CredentialsAssumption, Typed, NEW q \in CallIds, req[q] \in Unbinds,
         NEW n \in {"ident", "tokens", "count"}, Logins!Goto(q, n)
  PROVE  /\ Others(q) /\ req' \in [CallIds -> Called] /\ req'[q] \in Unbinds
         /\ SameUnbind(req[q], req'[q]) /\ req'[q].pc = n
         /\ req'[q].doomed = req[q].doomed /\ req'[q].rows = req[q].rows
<1>2. PICK t : t = [req[q] EXCEPT !.pc = n]
  OBVIOUS
<1>3. req' = [req EXCEPT ![q] = t]
  BY <1>2 DEF Typed, Logins!Goto
<1>4. /\ t \in Unbinds /\ t.pc = n /\ SameUnbind(req[q], t)
      /\ t.doomed = req[q].doomed /\ t.rows = req[q].rows
  BY <1>2 DEF Unbinds, SameUnbind
<1> QED
  BY <1>3, <1>4 DEF Others, Typed, Called

LEMMA UnbindTokensDoes ==
  ASSUME Logins!CredentialsAssumption, Typed, NEW q \in CallIds, Logins!UnbindTokens(q)
  PROVE  /\ Others(q) /\ req' \in [CallIds -> Called] /\ req[q] \in Unbinds /\ req'[q] \in Unbinds
         /\ SameUnbind(req[q], req'[q]) /\ req[q].pc = "tokens" /\ req'[q].pc = "rows"
         /\ req'[q].doomed \subseteq DOMAIN tokens
         /\ \A k \in DOMAIN tokens : tokens[k].ident = req[q].ident => k \in req'[q].doomed
         /\ req'[q].rows = Logins!OfIdentity(req[q].ident)
<1>1. req[q] \in Unbinds /\ req[q].pc = "tokens"
  BY Kinds DEF Typed, Logins!UnbindTokens
<1>2. PICK d : d = Logins!Minted(req[q].ident) \cup {k \in DOMAIN tokens : tokens[k].ident = req[q].ident}
  OBVIOUS
<1>3. d \subseteq DOMAIN tokens /\ \A k \in DOMAIN tokens : tokens[k].ident = req[q].ident => k \in d
  <2>1. Logins!Minted(req[q].ident) \subseteq DOMAIN tokens
    BY DEF Logins!Minted
  <2> QED
    BY <1>2, <2>1
<1>4. PICK b : b = Logins!OfIdentity(req[q].ident)
  OBVIOUS
<1>5. b \in SUBSET (1..MaxRefresh) /\ d \in SUBSET (1..MaxTokens)
  <2>1. b \subseteq DOMAIN refresh
    BY <1>4 DEF Logins!OfIdentity
  <2> QED
    BY <1>3, <2>1, Rows DEF Typed
<1>6. PICK t : t = [req[q] EXCEPT !.pc = "rows", !.doomed = d, !.rows = b]
  OBVIOUS
<1>7. req' = [req EXCEPT ![q].pc = "rows", ![q].doomed = d, ![q].rows = b]
  BY <1>2, <1>4 DEF Logins!UnbindTokens
<1>8. req' = [req EXCEPT ![q] = t]
  BY <1>1, <1>6, <1>7 DEF Typed
<1>9. t \in Unbinds /\ t.pc = "rows" /\ SameUnbind(req[q], t) /\ t.doomed = d /\ t.rows = b
  BY <1>1, <1>5, <1>6 DEF Unbinds, SameUnbind
<1> QED
  BY <1>1, <1>3, <1>4, <1>8, <1>9 DEF Others, Typed, Called

LEMMA UnbindCountDoes ==
  ASSUME Logins!CredentialsAssumption, Typed, NEW q \in CallIds, Logins!UnbindCount(q)
  PROVE  /\ Others(q) /\ req' \in [CallIds -> Called] /\ req[q] \in Unbinds /\ req'[q] \in Unbinds
         /\ SameUnbind(req[q], req'[q]) /\ req[q].pc = "count" /\ req'[q].pc = "commit"
         /\ req'[q].doomed = req[q].doomed /\ req'[q].rows = req[q].rows
         /\ req'[q].refused <=> req[q].guarded /\ ~Logins!Survivor(Logins!Unbound(q), bound \ {req[q].ident})
<1>1. req[q] \in Unbinds /\ req[q].pc = "count"
  BY Kinds DEF Typed, Logins!UnbindCount
<1>2. PICK b : b = (req[q].guarded /\ ~Logins!Survivor(Logins!Unbound(q), bound \ {req[q].ident}))
  OBVIOUS
<1>3. b \in BOOLEAN
  BY <1>2
<1>4. PICK t : t = [req[q] EXCEPT !.pc = "commit", !.refused = b]
  OBVIOUS
<1>5. req' = [req EXCEPT ![q].pc = "commit", ![q].refused = b]
  BY <1>2 DEF Logins!UnbindCount
<1>6. req' = [req EXCEPT ![q] = t]
  BY <1>1, <1>4, <1>5 DEF Typed
<1>7. /\ t \in Unbinds /\ t.pc = "commit" /\ SameUnbind(req[q], t) /\ t.doomed = req[q].doomed
      /\ t.rows = req[q].rows /\ t.refused = b
  BY <1>1, <1>3, <1>4 DEF Unbinds, SameUnbind
<1>8. req'[q] = t /\ Others(q) /\ req' \in [CallIds -> Called]
  BY <1>6, <1>7 DEF Others, Typed, Called
<1> QED
  BY <1>1, <1>2, <1>7, <1>8

\* A call that begins or ends.
LEMMA Becomes ==
  ASSUME Logins!CredentialsAssumption, Typed, NEW q \in CallIds, NEW t \in Called,
         req' = [req EXCEPT ![q] = t]
  PROVE  Others(q) /\ req' \in [CallIds -> Called] /\ req'[q] = t
BY DEF Typed, Others

LEMMA EndsCall ==
  ASSUME Logins!CredentialsAssumption, Typed, NEW q \in CallIds, Logins!End(q)
  PROVE  Others(q) /\ req' \in [CallIds -> Called] /\ req'[q] = Logins!Idle
BY Becomes DEF Logins!End, Called

LEMMA RevokeDoes ==
  ASSUME Logins!CredentialsAssumption, Typed, NEW q \in CallIds, NEW k \in DOMAIN tokens,
         Logins!Revoke(q, k)
  PROVE  /\ Others(q) /\ req' \in [CallIds -> Called] /\ req'[q] \in Ends
         /\ req'[q].op = "end" /\ req'[q].pc = "lock" /\ req'[q].token = k
         /\ req'[q].mine = {} /\ req'[q].hit = {}
         /\ "unguarded" \in Calls \/ req'[q].guarded
<1>1. PICK guarded \in IF "unguarded" \in Calls THEN BOOLEAN ELSE {TRUE} :
        req' = [req EXCEPT ![q] = Logins!EndCall(NoIdentity, k, guarded)]
  BY DEF Logins!Revoke
<1>2. k \in 0..MaxTokens
  BY Rows DEF Typed
<1>3. guarded \in BOOLEAN /\ ("unguarded" \in Calls \/ guarded)
  BY <1>1
<1>4. 0 \in 0..MaxRefresh
  BY DEF Logins!CredentialsAssumption
<1>5. PICK t : t = Logins!EndCall(NoIdentity, k, guarded)
  OBVIOUS
<1>6. t \in Ends
  BY <1>2, <1>3, <1>4, <1>5 DEF Logins!EndCall, Ends
<1>7. /\ t.op = "end" /\ t.pc = "lock" /\ t.token = k /\ t.guarded = guarded
      /\ t.mine = {} /\ t.hit = {}
  BY <1>5 DEF Logins!EndCall
<1>8. t \in Called /\ req' = [req EXCEPT ![q] = t]
  BY <1>1, <1>5, <1>6 DEF Called
<1>9. Others(q) /\ req' \in [CallIds -> Called] /\ req'[q] = t
  BY <1>8, Becomes
<1> QED
  BY <1>3, <1>6, <1>7, <1>9

LEMMA ReplayDoes ==
  ASSUME Logins!CredentialsAssumption, Typed, NEW q \in CallIds, NEW r \in DOMAIN refresh,
         Logins!Replay(q, r)
  PROVE  /\ Others(q) /\ req' \in [CallIds -> Called] /\ req'[q] \in Ends
         /\ req'[q].op = "end" /\ req'[q].pc = "lock" /\ req'[q].token = 0
         /\ req'[q].mine = {} /\ req'[q].hit = {}
<1>1. PICK t : t = Logins!EndCall(refresh[r].ident, 0, FALSE)
  OBVIOUS
<1>2. refresh[r].ident \in Identities /\ 0 \in 0..MaxTokens /\ 0 \in 0..MaxRefresh
  BY Rows DEF Typed, Logins!RefreshTokens, Logins!CredentialsAssumption
<1>3. t \in Ends
  BY <1>1, <1>2 DEF Logins!EndCall, Ends
<1>4. t.op = "end" /\ t.pc = "lock" /\ t.token = 0 /\ t.mine = {} /\ t.hit = {}
  BY <1>1 DEF Logins!EndCall
<1>5. t \in Called /\ req' = [req EXCEPT ![q] = t]
  BY <1>1, <1>3 DEF Logins!Replay, Called
<1>6. Others(q) /\ req' \in [CallIds -> Called] /\ req'[q] = t
  BY <1>5, Becomes
<1> QED
  BY <1>3, <1>4, <1>6

LEMMA UnbindDoes ==
  ASSUME Logins!CredentialsAssumption, Typed, NEW q \in CallIds, NEW i \in Identities,
         Logins!Unbind(q, i)
  PROVE  /\ Others(q) /\ req' \in [CallIds -> Called] /\ req'[q] \in Unbinds
         /\ req'[q].op = "unbind" /\ req'[q].pc = "lock" /\ req'[q].ident = i
         /\ req'[q].doomed = {} /\ req'[q].rows = {}
         /\ "unguarded" \in Calls \/ req'[q].guarded
<1>1. PICK guarded \in IF "unguarded" \in Calls THEN BOOLEAN ELSE {TRUE} :
        req' = [req EXCEPT ![q] = [op |-> "unbind", pc |-> "lock", ident |-> i, guarded |-> guarded,
                                   doomed |-> {}, rows |-> {}, refused |-> FALSE]]
  BY DEF Logins!Unbind
<1>2. guarded \in BOOLEAN /\ ("unguarded" \in Calls \/ guarded)
  BY <1>1
<1>3. PICK t : t = [op |-> "unbind", pc |-> "lock", ident |-> i, guarded |-> guarded,
                    doomed |-> {}, rows |-> {}, refused |-> FALSE]
  OBVIOUS
<1>4. t \in Unbinds
  BY <1>2, <1>3 DEF Unbinds
<1>5. /\ t.op = "unbind" /\ t.pc = "lock" /\ t.ident = i /\ t.guarded = guarded
      /\ t.doomed = {} /\ t.rows = {}
  BY <1>3
<1>6. t \in Called /\ req' = [req EXCEPT ![q] = t]
  BY <1>1, <1>3, <1>4 DEF Called
<1>7. Others(q) /\ req' \in [CallIds -> Called] /\ req'[q] = t
  BY <1>6, Becomes
<1> QED
  BY <1>2, <1>4, <1>5, <1>7

\* What the actions do to the tables.
LEMMA TokenAdded ==
  ASSUME Logins!CredentialsAssumption, Typed, Logins!RoomForToken, NEW rec \in Logins!Tokens,
         tokens' = Append(tokens, rec)
  PROVE  /\ tokens' \in Seq(Logins!Tokens) /\ Len(tokens') <= MaxTokens
         /\ Adds(tokens, tokens', rec) /\ DOMAIN tokens \subseteq DOMAIN tokens'
<1>1. /\ tokens \in Seq(Logins!Tokens) /\ Len(tokens) \in 0..MaxTokens /\ Len(tokens) < MaxTokens
      /\ MaxTokens \in Nat
  BY Rows DEF Typed, Logins!RoomForToken, Logins!CredentialsAssumption
<1>2. tokens' \in Seq(Logins!Tokens) /\ Len(tokens') = Len(tokens) + 1 /\ Adds(tokens, tokens', rec)
  BY <1>1, Enlarged
<1>3. DOMAIN tokens \subseteq DOMAIN tokens'
  BY <1>2 DEF Adds
<1> QED
  BY <1>1, <1>2, <1>3

LEMMA RefreshAdded ==
  ASSUME Logins!CredentialsAssumption, Typed, Logins!RoomForRefresh,
         NEW rec \in Logins!RefreshTokens,
         refresh' = Append(refresh, rec)
  PROVE  /\ refresh' \in Seq(Logins!RefreshTokens) /\ Len(refresh') <= MaxRefresh
         /\ Adds(refresh, refresh', rec) /\ DOMAIN refresh \subseteq DOMAIN refresh'
<1>1. /\ refresh \in Seq(Logins!RefreshTokens) /\ Len(refresh) \in 0..MaxRefresh /\ Len(refresh) < MaxRefresh
      /\ MaxRefresh \in Nat
  BY Rows DEF Typed, Logins!RoomForRefresh, Logins!CredentialsAssumption
<1>2. refresh' \in Seq(Logins!RefreshTokens) /\ Len(refresh') = Len(refresh) + 1 /\ Adds(refresh, refresh', rec)
  BY <1>1, Enlarged
<1>3. DOMAIN refresh \subseteq DOMAIN refresh'
  BY <1>2 DEF Adds
<1> QED
  BY <1>1, <1>2, <1>3

LEMMA NewFits ==
  ASSUME Logins!CredentialsAssumption, Typed, Logins!RoomForToken
  PROVE  Logins!NewSession \in 1..MaxTokens /\ 0 \in 0..MaxTokens /\ 0 \in 0..MaxRefresh
BY Rows DEF Typed, Logins!NewSession, Logins!RoomForToken, Logins!CredentialsAssumption

LEMMA AccessFits ==
  ASSUME NEW i \in Identities, NEW s \in 1..MaxTokens, 0 \in 0..MaxTokens
  PROVE  /\ Logins!Access(i, s) \in Logins!Tokens
         /\ [Logins!Access(i, s) EXCEPT !.boot = TRUE] \in Logins!Tokens
         /\ [Logins!Access(i, s) EXCEPT !.boot = TRUE].ident = i
         /\ ~[Logins!Access(i, s) EXCEPT !.boot = TRUE].perm
         /\ [Logins!Access(i, s) EXCEPT !.boot = TRUE].session = s
         /\ [Logins!Access(i, s) EXCEPT !.boot = TRUE].root = i
<1>1. Logins!Access(i, s) \in Logins!Tokens
  BY DEF Logins!Access, Logins!Tokens
<1>2. [Logins!Access(i, s) EXCEPT !.boot = TRUE] \in Logins!Tokens
  BY <1>1 DEF Logins!Tokens
<1> QED
  BY <1>1, <1>2 DEF Logins!Access

LEMMA PermanentFits ==
  ASSUME Logins!CredentialsAssumption, Typed, Logins!RoomForToken, NEW parent \in 0..MaxTokens,
         NEW root \in Identities \cup {NoIdentity}, NEW lead \in BOOLEAN
  PROVE  Logins!Permanent(parent, root, lead) \in Logins!Tokens
BY NewFits DEF Logins!Permanent, Logins!Tokens

LEMMA RefreshingFits ==
  ASSUME NEW i \in Identities, NEW s \in 1..MaxTokens, NEW from \in 0..MaxRefresh
  PROVE  Logins!Refreshing(i, s, from) \in Logins!RefreshTokens
BY DEF Logins!Refreshing, Logins!RefreshTokens

\* A table whose rows have other states.
LEMMA Restated ==
  ASSUME Logins!CredentialsAssumption, Typed, NEW after,
         DOMAIN after = DOMAIN tokens,
         after = [k \in DOMAIN tokens |-> after[k]],
         \A k \in DOMAIN tokens : after[k] \in Logins!Tokens
  PROVE  after \in Seq(Logins!Tokens) /\ Len(after) = Len(tokens)
<1>1. tokens \in Seq(Logins!Tokens) /\ DOMAIN tokens = 1..Len(tokens) /\ Len(tokens) \in Nat
  BY Rows DEF Typed
<1>2. after \in [1..Len(tokens) -> Logins!Tokens]
  BY <1>1
<1> QED
  BY <1>1, <1>2

LEMMA RefreshRestated ==
  ASSUME Logins!CredentialsAssumption, Typed, NEW after,
         DOMAIN after = DOMAIN refresh,
         after = [k \in DOMAIN refresh |-> after[k]],
         \A k \in DOMAIN refresh : after[k] \in Logins!RefreshTokens
  PROVE  after \in Seq(Logins!RefreshTokens) /\ Len(after) = Len(refresh)
<1>1. refresh \in Seq(Logins!RefreshTokens) /\ DOMAIN refresh = 1..Len(refresh) /\ Len(refresh) \in Nat
  BY Rows DEF Typed
<1>2. after \in [1..Len(refresh) -> Logins!RefreshTokens]
  BY <1>1
<1> QED
  BY <1>1, <1>2

\* A row of tokens with another state, and of refresh.
Same(s, t) == /\ t.ident = s.ident /\ t.perm = s.perm /\ t.parent = s.parent /\ t.session = s.session
              /\ t.root = s.root /\ t.boot = s.boot
SameRefresh(s, t) == t.ident = s.ident /\ t.session = s.session /\ t.from = s.from

LEMMA StateSet ==
  ASSUME NEW s \in Logins!Tokens, NEW n \in {"live", "expired", "revoked"}
  PROVE  [s EXCEPT !.state = n] \in Logins!Tokens /\ Same(s, [s EXCEPT !.state = n])
         /\ [s EXCEPT !.state = n].state = n
BY DEF Logins!Tokens, Same

LEMMA RefreshStateSet ==
  ASSUME NEW s \in Logins!RefreshTokens, NEW n \in {"active", "expired", "revoked", "gone", "lapsed"}
  PROVE  [s EXCEPT !.state = n] \in Logins!RefreshTokens /\ SameRefresh(s,
         [s EXCEPT !.state = n])
         /\ [s EXCEPT !.state = n].state = n
BY DEF Logins!RefreshTokens, SameRefresh

\* The tokens that a revocation leaves.
LEMMA EndedIs ==
  ASSUME Logins!CredentialsAssumption, Typed, NEW q \in CallIds, req[q] \in Ends
  PROVE  /\ Logins!Ended(q) \in Seq(Logins!Tokens) /\ Len(Logins!Ended(q)) = Len(tokens)
         /\ DOMAIN Logins!Ended(q) = DOMAIN tokens
         /\ \A k \in DOMAIN tokens :
              /\ k # req[q].token => Logins!Ended(q)[k] = tokens[k]
              /\ k = req[q].token => Logins!Ended(q)[k].state = "revoked"
              /\ Same(tokens[k], Logins!Ended(q)[k])
<1>0. \A k \in DOMAIN tokens : tokens[k] \in Logins!Tokens /\ k \in 1..MaxTokens
  BY Rows DEF Typed
<1>a. tokens \in Seq(Logins!Tokens) /\ DOMAIN tokens = 1..Len(tokens)
  BY Rows DEF Typed
<1>1. CASE req[q].token = 0
  <2>1. Logins!Ended(q) = tokens
    BY <1>1 DEF Logins!Ended
  <2> QED
    BY <2>1, <1>0, <1>1, <1>a DEF Same
<1>2. CASE req[q].token # 0
  <2>0. PICK j : j = req[q].token
    OBVIOUS
  <2>1. j \in DOMAIN tokens
    BY <1>2, <2>0 DEF Typed, Named, Ends
  <2>2. PICK e : e = [tokens EXCEPT ![j].state = "revoked"]
    OBVIOUS
  <2>3. Logins!Ended(q) = e
    BY <1>2, <2>0, <2>2 DEF Logins!Ended
  <2>4. /\ DOMAIN e = DOMAIN tokens /\ e = [k \in DOMAIN tokens |-> e[k]]
        /\ e[j] = [tokens[j] EXCEPT !.state = "revoked"]
        /\ \A k \in DOMAIN tokens : k # j => e[k] = tokens[k]
    BY <2>1, <2>2
  <2>5. e[j] \in Logins!Tokens /\ Same(tokens[j], e[j]) /\ e[j].state = "revoked"
    <3>1. tokens[j] \in Logins!Tokens
      BY <2>1, <1>0
    <3>2. /\ [tokens[j] EXCEPT !.state = "revoked"] \in Logins!Tokens
          /\ Same(tokens[j], [tokens[j] EXCEPT !.state = "revoked"])
          /\ [tokens[j] EXCEPT !.state = "revoked"].state = "revoked"
      BY <3>1, StateSet
    <3> QED
      BY <2>4, <3>2
  <2>6. \A k \in DOMAIN tokens : e[k] \in Logins!Tokens
    BY <2>4, <2>5, <1>0
  <2>7. e \in Seq(Logins!Tokens) /\ Len(e) = Len(tokens)
    BY <2>4, <2>6, Restated
  <2>8. \A k \in DOMAIN tokens : Same(tokens[k], e[k])
    BY <2>4, <2>5 DEF Same
  <2> QED
    BY <2>0, <2>3, <2>4, <2>5, <2>7, <2>8
<1> QED
  BY <1>1, <1>2

\* The tokens that an unbind leaves.
LEMMA UnboundIs ==
  ASSUME Logins!CredentialsAssumption, Typed, NEW q \in CallIds, req[q] \in Unbinds
  PROVE  /\ Logins!Unbound(q) \in Seq(Logins!Tokens) /\ Len(Logins!Unbound(q)) = Len(tokens)
         /\ DOMAIN Logins!Unbound(q) = DOMAIN tokens
         /\ \A k \in DOMAIN tokens :
              /\ k \notin req[q].doomed => Logins!Unbound(q)[k] = tokens[k]
              /\ k \in req[q].doomed => Logins!Unbound(q)[k].state = "revoked"
              /\ Logins!Unbound(q)[k].perm = tokens[k].perm /\ Logins!Unbound(q)[k].session = tokens[k].session
              /\ Logins!Unbound(q)[k].root = tokens[k].root /\ Logins!Unbound(q)[k].boot = tokens[k].boot
              /\ Logins!Unbound(q)[k].parent = tokens[k].parent
              /\ tokens[k].ident # req[q].ident => Logins!Unbound(q)[k].ident = tokens[k].ident
              /\ k \in req[q].doomed /\ tokens[k].ident = req[q].ident => Logins!Unbound(q)[k].ident = NoIdentity
<1>0. \A k \in DOMAIN tokens : tokens[k] \in Logins!Tokens /\ k \in 1..MaxTokens
  BY Rows DEF Typed
<1>1. PICK e : e = Logins!Unbound(q)
  OBVIOUS
<1>2. /\ DOMAIN e = DOMAIN tokens /\ e = [k \in DOMAIN tokens |-> e[k]]
      /\ \A k \in DOMAIN tokens : k \notin req[q].doomed => e[k] = tokens[k]
      /\ \A k \in DOMAIN tokens : k \in req[q].doomed =>
           e[k] = [tokens[k] EXCEPT !.state = "revoked",
                     !.ident = IF @ = req[q].ident THEN NoIdentity ELSE @]
  BY <1>1 DEF Logins!Unbound
<1>3. ASSUME NEW k \in DOMAIN tokens, k \in req[q].doomed
      PROVE  /\ e[k] \in Logins!Tokens /\ e[k].state = "revoked"
             /\ e[k].perm = tokens[k].perm /\ e[k].session = tokens[k].session
             /\ e[k].root = tokens[k].root /\ e[k].boot = tokens[k].boot
             /\ e[k].parent = tokens[k].parent
             /\ e[k].ident = IF tokens[k].ident = req[q].ident THEN NoIdentity ELSE tokens[k].ident
  <2>1. e[k] = [tokens[k] EXCEPT !.state = "revoked", !.ident = IF @ = req[q].ident THEN NoIdentity ELSE @]
    BY <1>2, <1>3
  <2>2. tokens[k] \in Logins!Tokens
    BY <1>0
  <2> QED
    BY <2>1, <2>2 DEF Logins!Tokens
<1>4. \A k \in DOMAIN tokens : e[k] \in Logins!Tokens
  BY <1>0, <1>2, <1>3
<1>5. e \in Seq(Logins!Tokens) /\ Len(e) = Len(tokens)
  BY <1>2, <1>4, Restated
<1> QED
  BY <1>1, <1>2, <1>3, <1>5

\* The refresh rows R get the state n.
Sets(after, R, n) ==
  /\ DOMAIN after = DOMAIN refresh
  /\ \A r \in DOMAIN refresh : /\ SameRefresh(refresh[r], after[r])
                               /\ r \in R => after[r].state = n
                               /\ r \notin R => after[r] = refresh[r]

LEMMA RefreshSet ==
  ASSUME Logins!CredentialsAssumption, Typed, NEW R, NEW n \in {"active", "expired",
         "revoked", "gone", "lapsed"},
         NEW after, after = [r \in DOMAIN refresh |-> IF r \in R THEN [refresh[r] EXCEPT !.state = n]
                                                       ELSE refresh[r]]
  PROVE  after \in Seq(Logins!RefreshTokens) /\ Len(after) = Len(refresh) /\ Sets(after, R, n)
<1>1. \A r \in DOMAIN refresh : refresh[r] \in Logins!RefreshTokens
  BY Rows DEF Typed
<1>2. /\ DOMAIN after = DOMAIN refresh /\ after = [r \in DOMAIN refresh |-> after[r]]
      /\ \A r \in DOMAIN refresh : r \in R => after[r] = [refresh[r] EXCEPT !.state = n]
      /\ \A r \in DOMAIN refresh : r \notin R => after[r] = refresh[r]
  OBVIOUS
<1>3. ASSUME NEW r \in DOMAIN refresh, r \in R
      PROVE  after[r] \in Logins!RefreshTokens /\ SameRefresh(refresh[r],
             after[r]) /\ after[r].state = n
  <2>1. refresh[r] \in Logins!RefreshTokens
    BY <1>1
  <2>2. /\ [refresh[r] EXCEPT !.state = n] \in Logins!RefreshTokens
        /\ SameRefresh(refresh[r], [refresh[r] EXCEPT !.state = n])
        /\ [refresh[r] EXCEPT !.state = n].state = n
    BY <2>1, RefreshStateSet
  <2> QED
    BY <1>2, <1>3, <2>2
<1>4. \A r \in DOMAIN refresh : after[r] \in Logins!RefreshTokens
  BY <1>1, <1>2, <1>3
<1>5. after \in Seq(Logins!RefreshTokens) /\ Len(after) = Len(refresh)
  BY <1>2, <1>4, RefreshRestated
<1>6. \A r \in DOMAIN refresh : r \notin R => SameRefresh(refresh[r], after[r])
  BY <1>2 DEF SameRefresh
<1> QED
  BY <1>2, <1>3, <1>5, <1>6 DEF Sets

LEMMA RefreshSetOne ==
  ASSUME Logins!CredentialsAssumption, Typed, NEW r \in DOMAIN refresh,
         NEW n \in {"active", "expired", "revoked", "gone", "lapsed"}, NEW after,
         after = [refresh EXCEPT ![r].state = n]
  PROVE  after \in Seq(Logins!RefreshTokens) /\ Len(after) = Len(refresh) /\ Sets(after, {r}, n)
<1>1. after = [x \in DOMAIN refresh |-> IF x \in {r} THEN [refresh[x] EXCEPT !.state = n] ELSE refresh[x]]
  OBVIOUS
<1> QED
  BY <1>1, RefreshSet

LEMMA ExpireTokenDoes ==
  ASSUME Logins!CredentialsAssumption, Typed, NEW k \in DOMAIN tokens, Logins!ExpireToken(k)
  PROVE  /\ tokens' \in Seq(Logins!Tokens) /\ Len(tokens') = Len(tokens) /\ DOMAIN tokens' = DOMAIN tokens
         /\ \A j \in DOMAIN tokens : /\ Same(tokens[j], tokens'[j])
                                     /\ j # k => tokens'[j] = tokens[j]
                                     /\ tokens[j].perm => tokens'[j] = tokens[j]
                                     /\ tokens[j].state = "revoked" => tokens'[j] = tokens[j]
<1>1. \A j \in DOMAIN tokens : tokens[j] \in Logins!Tokens
  BY Rows DEF Typed
<1>2. /\ DOMAIN tokens' = DOMAIN tokens /\ tokens' = [j \in DOMAIN tokens |-> tokens'[j]]
      /\ tokens'[k] = [tokens[k] EXCEPT !.state = "expired"]
      /\ \A j \in DOMAIN tokens : j # k => tokens'[j] = tokens[j]
      /\ ~tokens[k].perm /\ tokens[k].state = "live"
  BY DEF Logins!ExpireToken
<1>3. /\ [tokens[k] EXCEPT !.state = "expired"] \in Logins!Tokens
      /\ Same(tokens[k], [tokens[k] EXCEPT !.state = "expired"])
  BY <1>1, StateSet
<1>4. \A j \in DOMAIN tokens : tokens'[j] \in Logins!Tokens /\ Same(tokens[j], tokens'[j])
  BY <1>1, <1>2, <1>3 DEF Same
<1>5. tokens' \in Seq(Logins!Tokens) /\ Len(tokens') = Len(tokens)
  BY <1>2, <1>4, Restated
<1> QED
  BY <1>2, <1>4, <1>5

\* The statement of a rotation: the row is revoked, and a new one takes its session over.
LEMMA RotateCommitDoes ==
  ASSUME Logins!CredentialsAssumption, Typed, NEW q \in CallIds, Logins!RotateCommit(q)
  PROVE  /\ Others(q) /\ req' \in [CallIds -> Called] /\ req[q].pc = "rotated"
         /\ req[q].row \in DOMAIN refresh
         /\ req'[q].op = "rotate" /\ req'[q].pc = "access"
         /\ req'[q].ident = refresh[req[q].row].ident /\ req'[q].session = refresh[req[q].row].session
         /\ refresh' \in Seq(Logins!RefreshTokens) /\ Len(refresh') <= MaxRefresh
         /\ Len(refresh) + 1 \notin DOMAIN refresh
         /\ DOMAIN refresh' = DOMAIN refresh \cup {Len(refresh) + 1}
         /\ \A r \in DOMAIN refresh : /\ SameRefresh(refresh[r], refresh'[r])
                                      /\ r = req[q].row => refresh'[r].state = "revoked"
                                      /\ r # req[q].row => refresh'[r] = refresh[r]
         /\ refresh'[Len(refresh) + 1]
              = Logins!Refreshing(refresh[req[q].row].ident, refresh[req[q].row].session, req[q].row)
<1>1. req[q] \in Rotations /\ req[q].pc = "rotated"
  BY Kinds DEF Typed, Logins!RotateCommit
<1>2. PICK x : x = req[q].row
  OBVIOUS
<1>3. x \in DOMAIN refresh /\ x \in 0..MaxRefresh /\ x \in 1..MaxRefresh
  BY <1>1, <1>2 DEF Typed, Named, Rotations
<1>4. PICK i : i = refresh[x].ident
  OBVIOUS
<1>5. PICK s : s = refresh[x].session
  OBVIOUS
<1>6. i \in Identities /\ s \in 1..MaxTokens
  BY <1>3, <1>4, <1>5, Rows DEF Typed, Logins!RefreshTokens
<1>7. PICK mid : mid = [refresh EXCEPT ![x].state = "revoked"]
  OBVIOUS
<1>8. mid \in Seq(Logins!RefreshTokens) /\ Len(mid) = Len(refresh) /\ Sets(mid, {x}, "revoked")
  BY <1>3, <1>7, RefreshSetOne
<1>9. Logins!Refreshing(i, s, x) \in Logins!RefreshTokens
  BY <1>3, <1>6, RefreshingFits
<1>10. refresh' = Append(mid, Logins!Refreshing(i, s, x))
  BY <1>2, <1>4, <1>5, <1>7 DEF Logins!RotateCommit
<1>11. /\ refresh' \in Seq(Logins!RefreshTokens) /\ Len(refresh') = Len(refresh) + 1
       /\ Adds(mid, refresh', Logins!Refreshing(i, s, x))
  BY <1>8, <1>9, <1>10, Enlarged
<1>12. Len(refresh') <= MaxRefresh
  BY <1>11, Rows DEF Logins!RotateCommit, Logins!RoomForRefresh, Typed,
     Logins!CredentialsAssumption
<1>13. /\ Len(refresh) + 1 \notin DOMAIN refresh
       /\ DOMAIN refresh' = DOMAIN refresh \cup {Len(refresh) + 1}
       /\ refresh'[Len(refresh) + 1] = Logins!Refreshing(i, s, x)
       /\ \A r \in DOMAIN refresh : refresh'[r] = mid[r]
  BY <1>8, <1>11 DEF Adds, Sets
<1>14. \A r \in DOMAIN refresh : /\ SameRefresh(refresh[r], refresh'[r])
                                 /\ r = x => refresh'[r].state = "revoked"
                                 /\ r # x => refresh'[r] = refresh[r]
  BY <1>8, <1>13 DEF Sets
<1>15. PICK t : t = [op |-> "rotate", pc |-> "access", ident |-> i, session |-> s]
  OBVIOUS
<1>16. t \in Called /\ t.op = "rotate" /\ t.pc = "access" /\ t.ident = i /\ t.session = s
  BY <1>6, <1>15 DEF Called, Accesses
<1>17. req' = [req EXCEPT ![q] = t]
  BY <1>2, <1>4, <1>5, <1>15 DEF Logins!RotateCommit
<1>18. Others(q) /\ req' \in [CallIds -> Called] /\ req'[q] = t
  BY <1>16, <1>17, Becomes
<1> QED
  BY <1>1, <1>2, <1>3, <1>4, <1>5, <1>11, <1>12, <1>13, <1>14, <1>16, <1>18

\* A revocation commits.
LEMMA EndCommitDoes ==
  ASSUME Logins!CredentialsAssumption, Typed, NEW q \in CallIds, Logins!EndCommit(q),
         ~req[q].refused
  PROVE  /\ req[q] \in Ends /\ req[q].pc = "commit"
         /\ tokens' = Logins!Ended(q)
         /\ refresh' \in Seq(Logins!RefreshTokens) /\ Len(refresh') = Len(refresh)
         /\ Sets(refresh', req[q].hit, "revoked")
         /\ regs' \subseteq regs
         /\ \A r \in req[q].hit : refresh[r].session \notin regs'
         /\ req[q].token # 0 => tokens[req[q].token].session \notin regs'
<1>1. req[q] \in Ends /\ req[q].pc = "commit"
  BY Kinds DEF Typed, Logins!EndCommit
<1>2. PICK R : R = req[q].hit
  OBVIOUS
<1>3. refresh' = [r \in DOMAIN refresh |-> IF r \in R THEN [refresh[r] EXCEPT !.state = "revoked"]
                                           ELSE refresh[r]]
  BY <1>2 DEF Logins!EndCommit
<1>4. refresh' \in Seq(Logins!RefreshTokens) /\ Len(refresh') = Len(refresh) /\ Sets(refresh', R, "revoked")
  BY <1>3, RefreshSet
<1>5. regs' = regs \ ({refresh[r].session : r \in req[q].hit}
                      \cup (IF req[q].token = 0 THEN {} ELSE {tokens[req[q].token].session}))
  BY DEF Logins!EndCommit
<1>6. tokens' = Logins!Ended(q)
  BY DEF Logins!EndCommit
<1> QED
  BY <1>1, <1>2, <1>4, <1>5, <1>6

\* An unbind commits.
LEMMA UnbindCommitDoes ==
  ASSUME Logins!CredentialsAssumption, Typed, NEW q \in CallIds, Logins!UnbindCommit(q),
         ~req[q].refused
  PROVE  /\ req[q] \in Unbinds /\ req[q].pc = "commit"
         /\ bound' = bound \ {req[q].ident} /\ ever' = ever
         /\ tokens' = Logins!Unbound(q)
         /\ refresh' \in Seq(Logins!RefreshTokens) /\ Len(refresh') = Len(refresh)
         /\ Sets(refresh', req[q].rows, "gone")
         /\ regs' \subseteq regs
         /\ \A r \in req[q].rows : refresh[r].session \notin regs'
         /\ \A k \in req[q].doomed : tokens[k].session \notin regs'
<1>1. req[q] \in Unbinds /\ req[q].pc = "commit"
  BY Kinds DEF Typed, Logins!UnbindCommit
<1>2. PICK R : R = req[q].rows
  OBVIOUS
<1>3. refresh' = [r \in DOMAIN refresh |-> IF r \in R THEN [refresh[r] EXCEPT !.state = "gone"]
                                           ELSE refresh[r]]
  BY <1>2 DEF Logins!UnbindCommit
<1>4. refresh' \in Seq(Logins!RefreshTokens) /\ Len(refresh') = Len(refresh) /\ Sets(refresh', R, "gone")
  BY <1>3, RefreshSet
<1>5. regs' = regs \ ({tokens[k].session : k \in req[q].doomed}
                      \cup {refresh[r].session : r \in req[q].rows})
  BY DEF Logins!UnbindCommit
<1>6. tokens' = Logins!Unbound(q) /\ bound' = bound \ {req[q].ident} /\ ever' = ever
  BY DEF Logins!UnbindCommit
<1> QED
  BY <1>1, <1>2, <1>4, <1>5, <1>6

\* A call that does not move is still about rows that are there.
LEMMA TypedMove ==
  ASSUME Logins!CredentialsAssumption, Typed, NEW q \in CallIds, Others(q),
         req' \in [CallIds -> Called],
         Named(q)', DOMAIN tokens \subseteq DOMAIN tokens', DOMAIN refresh \subseteq DOMAIN refresh',
         bound' \subseteq ever', ever' \subseteq Identities,
         tokens' \in Seq(Logins!Tokens), Len(tokens') <= MaxTokens,
         refresh' \in Seq(Logins!RefreshTokens), Len(refresh') <= MaxRefresh, regs' \subseteq 1..MaxTokens,
         credLock' \in CallIds \cup {NoIdentity}, bootLock' \in CallIds \cup {NoIdentity}
  PROVE  Typed'
<1>1. ASSUME NEW p \in CallIds, p # q PROVE Named(p)'
  <2>1. Named(p) /\ req'[p] = req[p]
    BY <1>1 DEF Typed, Others
  <2> QED
    BY <2>1 DEF Named
<1>2. Logins!TypeOK'
  BY DEF Logins!TypeOK
<1> QED
  BY <1>1, <1>2 DEF Typed

LEMMA TypedCall ==
  ASSUME Logins!CredentialsAssumption, Typed, NEW q \in CallIds, Others(q),
         req' \in [CallIds -> Called],
         Named(q)', UNCHANGED Logins!tables,
         credLock' \in CallIds \cup {NoIdentity}, bootLock' \in CallIds \cup {NoIdentity}
  PROVE  Typed'
<1>1. /\ bound' \subseteq ever' /\ ever' \subseteq Identities
      /\ tokens' \in Seq(Logins!Tokens) /\ Len(tokens') <= MaxTokens
      /\ refresh' \in Seq(Logins!RefreshTokens) /\ Len(refresh') <= MaxRefresh /\ regs' \subseteq 1..MaxTokens
      /\ DOMAIN tokens \subseteq DOMAIN tokens' /\ DOMAIN refresh \subseteq DOMAIN refresh'
  BY DEF Typed, Logins!TypeOK, Logins!tables
<1> QED
  BY <1>1, TypedMove

LEMMA TypedRest ==
  ASSUME Logins!CredentialsAssumption, Typed, req' = req,
         DOMAIN tokens \subseteq DOMAIN tokens', DOMAIN refresh \subseteq DOMAIN refresh',
         bound' \subseteq ever', ever' \subseteq Identities,
         tokens' \in Seq(Logins!Tokens), Len(tokens') <= MaxTokens,
         refresh' \in Seq(Logins!RefreshTokens), Len(refresh') <= MaxRefresh, regs' \subseteq 1..MaxTokens,
         credLock' \in CallIds \cup {NoIdentity}, bootLock' \in CallIds \cup {NoIdentity}
  PROVE  Typed'
<1>1. ASSUME NEW p \in CallIds PROVE Named(p)'
  <2>1. Named(p) /\ req'[p] = req[p]
    BY DEF Typed
  <2> QED
    BY <2>1 DEF Named
<1>2. Logins!TypeOK'
  BY DEF Logins!TypeOK, Typed
<1> QED
  BY <1>1, <1>2 DEF Typed

LEMMA IdleNamed == ASSUME NEW q \in CallIds, req'[q] = Logins!Idle PROVE Named(q)'
BY DEF Named, Logins!Idle

\* The steps that only move a call.
Moving(q) ==
  \/ Logins!BootLock(q) \/ Logins!RotateInsert(q) \/ Logins!EndLock(q) \/ Logins!EndSelect(q) \/ Logins!EndUpdate(q) \/ Logins!EndCount(q)
  \/ Logins!UnbindLock(q) \/ Logins!UnbindIdentity(q) \/ Logins!UnbindTokens(q) \/ Logins!UnbindRows(q) \/ Logins!UnbindCount(q)
  \/ \E i \in Identities : Logins!Unbind(q, i)
  \/ \E r \in DOMAIN refresh : Logins!Rotate(q, r) \/ Logins!Replay(q, r) \/ Logins!EndLockRow(q, r) \/ Logins!EndUpdateRow(q, r)
  \/ \E k \in DOMAIN tokens : Logins!Revoke(q, k) \/ Logins!MintStart(q, k)

LEMMA CallTyped ==
  ASSUME Logins!CredentialsAssumption, Typed, NEW q \in CallIds, Moving(q)
  PROVE  Typed'
<1>0. /\ credLock \in CallIds \cup {NoIdentity} /\ bootLock \in CallIds \cup {NoIdentity}
      /\ q \in CallIds \cup {NoIdentity} /\ Named(q)
  BY DEF Typed, Logins!TypeOK
<1>1. CASE Logins!BootLock(q)
  <2>1. PICK t : t = [op |-> "boot", pc |-> "boot"]
    OBVIOUS
  <2>2. t \in Called
    BY <2>1 DEF Called, Boots
  <2>3. req' = [req EXCEPT ![q] = t]
    BY <1>1, <2>1 DEF Logins!BootLock
  <2>4. Others(q) /\ req' \in [CallIds -> Called] /\ req'[q] = t
    BY <2>2, <2>3, Becomes
  <2>5. Named(q)'
    BY <2>1, <2>4 DEF Named
  <2>6. UNCHANGED <<Logins!tables, credLock>> /\ bootLock' = q
    BY <1>1 DEF Logins!BootLock
  <2> QED
    BY <1>0, <2>4, <2>5, <2>6, TypedCall
<1>2. CASE Logins!RotateInsert(q)
  <2>1. Named(q)'
    BY <1>0, <1>2, RotateInsertDoes DEF Named, Logins!RotateInsert, Logins!tables, Rotations
  <2>2. UNCHANGED <<Logins!tables, credLock, bootLock>>
    BY <1>2 DEF Logins!RotateInsert
  <2> QED
    BY <1>0, <1>2, <2>1, <2>2, RotateInsertDoes, TypedCall
<1>3. CASE Logins!EndLock(q)
  <2>1. UNCHANGED <<Logins!tables, bootLock>> /\ credLock' = q /\ req[q].pc = "lock"
    BY <1>3 DEF Logins!EndLock
  <2>2. Named(q)'
    BY <1>0, <1>3, <2>1, EndLockDoes DEF Named, Logins!tables, Ends, SameEnd
  <2> QED
    BY <1>0, <1>3, <2>1, <2>2, EndLockDoes, TypedCall
<1>4. CASE Logins!EndSelect(q)
  <2>1. UNCHANGED <<Logins!tables, credLock, bootLock>>
    BY <1>4 DEF Logins!EndSelect
  <2>2. Named(q)'
    BY <1>0, <1>4, <2>1, EndSelectDoes DEF Named, Logins!tables, Ends, SameEnd
  <2> QED
    BY <1>0, <1>4, <2>1, <2>2, EndSelectDoes, TypedCall
<1>5. CASE Logins!EndUpdate(q)
  <2>1. UNCHANGED <<Logins!tables, credLock, bootLock>>
    BY <1>5 DEF Logins!EndUpdate
  <2>2. Named(q)'
    BY <1>0, <1>5, <2>1, EndUpdateDoes DEF Named, Logins!tables, Ends, SameEnd
  <2> QED
    BY <1>0, <1>5, <2>1, <2>2, EndUpdateDoes, TypedCall
<1>6. CASE Logins!EndCount(q)
  <2>1. UNCHANGED <<Logins!tables, credLock, bootLock>>
    BY <1>6 DEF Logins!EndCount
  <2>a. /\ Others(q) /\ req' \in [CallIds -> Called] /\ req[q] \in Ends /\ req'[q] \in Ends
        /\ SameEnd(req[q], req'[q]) /\ req'[q].pc = "commit"
        /\ req'[q].mine = req[q].mine /\ req'[q].hit = req[q].hit
    BY <1>6, EndCountDoes
  <2>2. Named(q)'
    BY <1>0, <2>1, <2>a DEF Named, Logins!tables, Ends, SameEnd
  <2> QED
    BY <1>0, <2>1, <2>2, <2>a, TypedCall
<1>7. CASE Logins!UnbindLock(q)
  <2>1. UNCHANGED <<Logins!tables, bootLock>> /\ credLock' \in {q, credLock}
    BY <1>7 DEF Logins!UnbindLock
  <2>2. req[q] \in Unbinds
    BY <1>7, Kinds DEF Typed, Logins!UnbindLock
  <2>3. CASE Logins!Goto(q, "ident")
    <3>1. Named(q)'
      BY <1>0, <2>1, <2>2, <2>3, UnbindGoes DEF Named, Logins!tables, Unbinds, SameUnbind
    <3> QED
      BY <1>0, <2>1, <2>2, <2>3, <3>1, UnbindGoes, TypedCall
  <2>4. CASE Logins!End(q)
    BY <1>0, <2>1, <2>4, EndsCall, IdleNamed, TypedCall
  <2> QED
    BY <1>7, <2>3, <2>4 DEF Logins!UnbindLock
<1>8. CASE Logins!UnbindIdentity(q)
  <2>1. UNCHANGED <<Logins!tables, credLock, bootLock>> /\ Logins!Goto(q, "tokens")
    BY <1>8 DEF Logins!UnbindIdentity
  <2>2. req[q] \in Unbinds
    BY <1>8, Kinds DEF Typed, Logins!UnbindIdentity
  <2>3. Named(q)'
    BY <1>0, <2>1, <2>2, UnbindGoes DEF Named, Logins!tables, Unbinds, SameUnbind
  <2> QED
    BY <1>0, <2>1, <2>2, <2>3, UnbindGoes, TypedCall
<1>9. CASE Logins!UnbindTokens(q)
  <2>1. UNCHANGED <<Logins!tables, credLock, bootLock>>
    BY <1>9 DEF Logins!UnbindTokens
  <2>a. /\ Others(q) /\ req' \in [CallIds -> Called] /\ req'[q] \in Unbinds
        /\ SameUnbind(req[q], req'[q]) /\ req'[q].pc = "rows" /\ req'[q].doomed \subseteq DOMAIN tokens
        /\ req'[q].rows = Logins!OfIdentity(req[q].ident)
    BY <1>9, UnbindTokensDoes
  <2>2. Named(q)'
    BY <2>1, <2>a DEF Named, Logins!tables, SameUnbind, Logins!OfIdentity
  <2> QED
    BY <1>0, <2>1, <2>2, <2>a, TypedCall
<1>10. CASE Logins!UnbindRows(q)
  <2>1. UNCHANGED <<Logins!tables, credLock, bootLock>> /\ Logins!Goto(q, "count")
    BY <1>10 DEF Logins!UnbindRows
  <2>2. req[q] \in Unbinds
    BY <1>10, Kinds DEF Typed, Logins!UnbindRows
  <2>3. Named(q)'
    BY <1>0, <2>1, <2>2, UnbindGoes DEF Named, Logins!tables, Unbinds, SameUnbind
  <2> QED
    BY <1>0, <2>1, <2>2, <2>3, UnbindGoes, TypedCall
<1>11. CASE Logins!UnbindCount(q)
  <2>1. UNCHANGED <<Logins!tables, credLock, bootLock>>
    BY <1>11 DEF Logins!UnbindCount
  <2>a. /\ Others(q) /\ req' \in [CallIds -> Called] /\ req[q] \in Unbinds /\ req'[q] \in Unbinds
        /\ SameUnbind(req[q], req'[q]) /\ req'[q].pc = "commit"
        /\ req'[q].doomed = req[q].doomed /\ req'[q].rows = req[q].rows
    BY <1>11, UnbindCountDoes
  <2>2. Named(q)'
    BY <1>0, <2>1, <2>a DEF Named, Logins!tables, Unbinds, SameUnbind
  <2> QED
    BY <1>0, <2>1, <2>2, <2>a, TypedCall
<1>12. ASSUME NEW i \in Identities, Logins!Unbind(q, i) PROVE Typed'
  <2>1. UNCHANGED <<Logins!tables, credLock, bootLock>>
    BY <1>12 DEF Logins!Unbind
  <2>2. Named(q)'
    BY <1>12, UnbindDoes DEF Named
  <2> QED
    BY <1>0, <1>12, <2>1, <2>2, UnbindDoes, TypedCall
<1>13. ASSUME NEW r \in DOMAIN refresh, Logins!Rotate(q, r) PROVE Typed'
  <2>1. UNCHANGED <<Logins!tables, credLock, bootLock>>
    BY <1>13 DEF Logins!Rotate
  <2>2. PICK t : t = [op |-> "rotate", pc |-> "fk", row |-> r]
    OBVIOUS
  <2>3. t \in Called
    BY <2>2, Rows DEF Called, Rotations, Typed
  <2>4. Others(q) /\ req' \in [CallIds -> Called] /\ req'[q] = t
    BY <1>13, <2>2, <2>3, Becomes DEF Logins!Rotate
  <2>5. Named(q)'
    BY <2>1, <2>2, <2>4 DEF Named, Logins!tables
  <2> QED
    BY <1>0, <2>1, <2>4, <2>5, TypedCall
<1>14. ASSUME NEW r \in DOMAIN refresh, Logins!Replay(q, r) PROVE Typed'
  <2>1. UNCHANGED <<Logins!tables, credLock, bootLock>>
    BY <1>14 DEF Logins!Replay
  <2>2. Named(q)'
    BY <1>14, ReplayDoes DEF Named
  <2> QED
    BY <1>0, <1>14, <2>1, <2>2, ReplayDoes, TypedCall
<1>15. ASSUME NEW r \in DOMAIN refresh, Logins!EndLockRow(q, r) PROVE Typed'
  <2>1. UNCHANGED <<Logins!tables, credLock, bootLock>>
    BY <1>15 DEF Logins!EndLockRow
  <2>2. Named(q)'
    BY <1>0, <1>15, <2>1, EndLockRowDoes DEF Named, Logins!tables, Ends, SameEnd
  <2> QED
    BY <1>0, <1>15, <2>1, <2>2, EndLockRowDoes, TypedCall
<1>16. ASSUME NEW r \in DOMAIN refresh, Logins!EndUpdateRow(q, r) PROVE Typed'
  <2>1. UNCHANGED <<Logins!tables, credLock, bootLock>>
    BY <1>16 DEF Logins!EndUpdateRow
  <2>2. Named(q)'
    BY <1>0, <1>16, <2>1, EndUpdateRowDoes DEF Named, Logins!tables, Ends, SameEnd
  <2> QED
    BY <1>0, <1>16, <2>1, <2>2, EndUpdateRowDoes, TypedCall
<1>17. ASSUME NEW k \in DOMAIN tokens, Logins!Revoke(q, k) PROVE Typed'
  <2>1. UNCHANGED <<Logins!tables, credLock, bootLock>>
    BY <1>17 DEF Logins!Revoke
  <2>2. Named(q)'
    BY <1>17, <2>1, RevokeDoes DEF Named, Logins!tables
  <2> QED
    BY <1>0, <1>17, <2>1, <2>2, RevokeDoes, TypedCall
<1>18. ASSUME NEW k \in DOMAIN tokens, Logins!MintStart(q, k) PROVE Typed'
  <2>1. UNCHANGED <<Logins!tables, credLock, bootLock>>
    BY <1>18 DEF Logins!MintStart
  <2>2. PICK t : t = [op |-> "mint", pc |-> "insert", parent |-> k]
    OBVIOUS
  <2>3. t \in Called
    BY <2>2, Rows DEF Called, Mints, Typed
  <2>4. Others(q) /\ req' \in [CallIds -> Called] /\ req'[q] = t
    BY <1>18, <2>2, <2>3, Becomes DEF Logins!MintStart
  <2>5. Named(q)'
    BY <2>1, <2>2, <2>4 DEF Named, Logins!tables
  <2> QED
    BY <1>0, <2>1, <2>4, <2>5, TypedCall
<1> QED
  BY <1>1, <1>2, <1>3, <1>4, <1>5, <1>6, <1>7, <1>8, <1>9, <1>10, <1>11, <1>12, <1>13, <1>14,
     <1>15, <1>16, <1>17, <1>18 DEF Moving

\* A table gets a row.
NewToken(rec) == /\ rec \in Logins!Tokens /\ tokens' \in Seq(Logins!Tokens) /\ Len(tokens') <= MaxTokens
                 /\ Adds(tokens, tokens', rec) /\ DOMAIN tokens \subseteq DOMAIN tokens'
NewRefresh(rec) == /\ rec \in Logins!RefreshTokens /\ refresh' \in Seq(Logins!RefreshTokens)
                   /\ Len(refresh') <= MaxRefresh
                   /\ Adds(refresh, refresh', rec) /\ DOMAIN refresh \subseteq DOMAIN refresh'

LEMMA BootTokenDoes ==
  ASSUME Logins!CredentialsAssumption, Typed, NEW q \in CallIds, Logins!BootToken(q)
  PROVE  NewToken(Logins!Permanent(0, NoIdentity, TRUE))
BY NewFits, PermanentFits, TokenAdded DEF Logins!BootToken, NewToken

LEMMA IssueTokenDoes ==
  ASSUME Logins!CredentialsAssumption, Typed, Logins!IssueToken
  PROVE  NewToken(Logins!Permanent(0, NoIdentity, FALSE))
BY NewFits, PermanentFits, TokenAdded DEF Logins!IssueToken, NewToken

LEMMA BootPairDoes ==
  ASSUME Logins!CredentialsAssumption, Typed, NEW q \in CallIds, NEW i \in Identities,
         Logins!BootPair(q, i)
  PROVE  /\ NewToken([Logins!Access(i, Logins!NewSession) EXCEPT !.boot = TRUE])
         /\ NewRefresh(Logins!Refreshing(i, Logins!NewSession, 0))
<1>1. Logins!RoomForToken /\ Logins!RoomForRefresh
  BY DEF Logins!BootPair
<1>2. Logins!NewSession \in 1..MaxTokens /\ 0 \in 0..MaxTokens /\ 0 \in 0..MaxRefresh
  BY <1>1, NewFits
<1>3. [Logins!Access(i, Logins!NewSession) EXCEPT !.boot = TRUE] \in Logins!Tokens
  BY <1>2, AccessFits
<1>4. Logins!Refreshing(i, Logins!NewSession, 0) \in Logins!RefreshTokens
  BY <1>2, RefreshingFits
<1>5. /\ tokens' = Append(tokens, [Logins!Access(i, Logins!NewSession) EXCEPT !.boot = TRUE])
      /\ refresh' = Append(refresh, Logins!Refreshing(i, Logins!NewSession, 0))
  BY DEF Logins!BootPair
<1> QED
  BY <1>1, <1>3, <1>4, <1>5, TokenAdded, RefreshAdded DEF NewToken, NewRefresh

LEMMA SignInDoes ==
  ASSUME Logins!CredentialsAssumption, Typed, NEW q \in CallIds, NEW i \in Identities,
         Logins!SignIn(q, i)
  PROVE  /\ NewToken(Logins!Access(i, Logins!NewSession))
         /\ Others(q) /\ req' \in [CallIds -> Called] /\ req'[q].op = "signin" /\ req'[q].pc = "pair"
         /\ req'[q].ident = i /\ req'[q].session = Logins!NewSession
<1>1. Logins!RoomForToken /\ tokens' = Append(tokens, Logins!Access(i, Logins!NewSession))
  BY DEF Logins!SignIn
<1>2. Logins!NewSession \in 1..MaxTokens /\ 0 \in 0..MaxTokens
  BY <1>1, NewFits
<1>3. Logins!Access(i, Logins!NewSession) \in Logins!Tokens
  BY <1>2, AccessFits
<1>4. PICK n : n = Logins!NewSession
  OBVIOUS
<1>5. PICK t : t = [op |-> "signin", pc |-> "pair", ident |-> i, session |-> n]
  OBVIOUS
<1>6. t \in Called /\ t.op = "signin" /\ t.pc = "pair" /\ t.ident = i /\ t.session = n
  BY <1>2, <1>4, <1>5 DEF Called, Pairs
<1>7. req' = [req EXCEPT ![q] = t]
  BY <1>4, <1>5 DEF Logins!SignIn
<1>8. Others(q) /\ req' \in [CallIds -> Called] /\ req'[q] = t
  BY <1>6, <1>7, Becomes
<1> QED
  BY <1>1, <1>3, <1>4, <1>6, <1>8, TokenAdded DEF NewToken

LEMMA SignInNativeDoes ==
  ASSUME Logins!CredentialsAssumption, Typed, NEW i \in Identities, Logins!SignInNative(i)
  PROVE  NewToken(Logins!Access(i, Logins!NewSession)) /\ NewRefresh(Logins!Refreshing(i,
         Logins!NewSession, 0))
<1>1. /\ Logins!RoomForToken /\ Logins!RoomForRefresh /\ tokens' = Append(tokens, Logins!Access(i, Logins!NewSession))
      /\ refresh' = Append(refresh, Logins!Refreshing(i, Logins!NewSession, 0))
  BY DEF Logins!SignInNative
<1>2. Logins!NewSession \in 1..MaxTokens /\ 0 \in 0..MaxTokens /\ 0 \in 0..MaxRefresh
  BY <1>1, NewFits
<1>3. Logins!Access(i, Logins!NewSession) \in Logins!Tokens /\ Logins!Refreshing(i, Logins!NewSession, 0) \in Logins!RefreshTokens
  BY <1>2, AccessFits, RefreshingFits
<1> QED
  BY <1>1, <1>3, TokenAdded, RefreshAdded DEF NewToken, NewRefresh

LEMMA SignInPairDoes ==
  ASSUME Logins!CredentialsAssumption, Typed, NEW q \in CallIds, Logins!SignInPair(q)
  PROVE  /\ req[q] \in Pairs
         /\ \/ req[q].ident \in bound /\ NewRefresh(Logins!Refreshing(req[q].ident, req[q].session, 0))
            \/ refresh' = refresh
<1>1. req[q] \in Pairs
  BY Kinds DEF Typed, Logins!SignInPair
<1>2. CASE /\ req[q].ident \in bound /\ Logins!RoomForRefresh
           /\ refresh' = Append(refresh, Logins!Refreshing(req[q].ident, req[q].session, 0))
  <2>1. req[q].ident \in Identities /\ req[q].session \in 1..MaxTokens /\ 0 \in 0..MaxRefresh
    BY <1>1 DEF Pairs, Logins!CredentialsAssumption
  <2>2. Logins!Refreshing(req[q].ident, req[q].session, 0) \in Logins!RefreshTokens
    BY <2>1, RefreshingFits
  <2> QED
    BY <1>1, <1>2, <2>2, RefreshAdded DEF NewRefresh
<1> QED
  BY <1>1, <1>2 DEF Logins!SignInPair

LEMMA RotateAccessDoes ==
  ASSUME Logins!CredentialsAssumption, Typed, NEW q \in CallIds, Logins!RotateAccess(q)
  PROVE  /\ req[q] \in Accesses
         /\ \/ req[q].ident \in bound /\ NewToken(Logins!Access(req[q].ident, req[q].session))
            \/ tokens' = tokens
<1>1. req[q] \in Accesses
  BY Kinds DEF Typed, Logins!RotateAccess
<1>2. CASE /\ req[q].ident \in bound /\ Logins!RoomForToken
           /\ tokens' = Append(tokens, Logins!Access(req[q].ident, req[q].session))
  <2>1. req[q].ident \in Identities /\ req[q].session \in 1..MaxTokens /\ 0 \in 0..MaxTokens
    BY <1>1 DEF Accesses, Logins!CredentialsAssumption
  <2>2. Logins!Access(req[q].ident, req[q].session) \in Logins!Tokens
    BY <2>1, AccessFits
  <2> QED
    BY <1>1, <1>2, <2>2, TokenAdded DEF NewToken
<1> QED
  BY <1>1, <1>2 DEF Logins!RotateAccess

LEMMA MintInsertDoes ==
  ASSUME Logins!CredentialsAssumption, Typed, NEW q \in CallIds, Logins!MintInsert(q)
  PROVE  NewToken(Logins!Permanent(req[q].parent, tokens[req[q].parent].root, FALSE))
<1>1. req[q] \in Mints /\ req[q].parent \in DOMAIN tokens
  BY Kinds DEF Typed, Logins!MintInsert, Named
<1>2. req[q].parent \in 0..MaxTokens /\ tokens[req[q].parent].root \in Identities \cup {NoIdentity}
  BY <1>1, Rows DEF Typed, Logins!Tokens
<1>3. /\ Logins!RoomForToken
      /\ tokens' = Append(tokens, Logins!Permanent(req[q].parent, tokens[req[q].parent].root, FALSE))
  BY DEF Logins!MintInsert
<1>4. Logins!Permanent(req[q].parent, tokens[req[q].parent].root, FALSE) \in Logins!Tokens
  BY <1>2, <1>3, PermanentFits
<1> QED
  BY <1>3, <1>4, TokenAdded DEF NewToken

\* The steps that end a call or change a table with it.
Filling(q) ==
  \/ Logins!BootToken(q) \/ Logins!SignInPair(q) \/ Logins!RotateCommit(q) \/ Logins!RotateAccess(q) \/ Logins!EndCommit(q)
  \/ Logins!UnbindCommit(q) \/ Logins!MintInsert(q)
  \/ \E i \in Identities : Logins!BootPair(q, i) \/ Logins!SignIn(q, i)
  \/ \E u \in CallIds : Logins!DeadlockVictim(q, u)

LEMMA StepTyped ==
  ASSUME Logins!CredentialsAssumption, Typed, NEW q \in CallIds, Filling(q)
  PROVE  Typed'
<1>0. /\ credLock \in CallIds \cup {NoIdentity} /\ bootLock \in CallIds \cup {NoIdentity}
      /\ q \in CallIds \cup {NoIdentity} /\ Named(q)
      /\ bound \subseteq ever /\ ever \subseteq Identities /\ regs \subseteq 1..MaxTokens
      /\ tokens \in Seq(Logins!Tokens) /\ Len(tokens) <= MaxTokens
      /\ refresh \in Seq(Logins!RefreshTokens) /\ Len(refresh) <= MaxRefresh
  BY DEF Typed, Logins!TypeOK
<1>1. CASE Logins!BootToken(q)
  <2>1. Logins!End(q) /\ UNCHANGED <<bound, ever, refresh, regs, credLock>> /\ bootLock' = NoIdentity
    BY <1>1 DEF Logins!BootToken
  <2> QED
    BY <1>0, <1>1, <2>1, BootTokenDoes, EndsCall, IdleNamed, TypedMove DEF NewToken
<1>2. CASE Logins!SignInPair(q)
  <2>1. Logins!End(q) /\ UNCHANGED <<bound, ever, tokens, regs, credLock, bootLock>>
    BY <1>2 DEF Logins!SignInPair
  <2> QED
    BY <1>0, <1>2, <2>1, SignInPairDoes, EndsCall, IdleNamed, TypedMove DEF NewRefresh
<1>3. CASE Logins!RotateCommit(q)
  <2>1. UNCHANGED <<bound, ever, tokens, regs, credLock, bootLock>>
    BY <1>3 DEF Logins!RotateCommit
  <2>2. /\ Others(q) /\ req' \in [CallIds -> Called] /\ req'[q].op = "rotate" /\ req'[q].pc = "access"
        /\ refresh' \in Seq(Logins!RefreshTokens) /\ Len(refresh') <= MaxRefresh
        /\ DOMAIN refresh \subseteq DOMAIN refresh'
    BY <1>3, RotateCommitDoes
  <2>3. Named(q)'
    BY <2>1, <2>2 DEF Named
  <2> QED
    BY <1>0, <2>1, <2>2, <2>3, TypedMove
<1>4. CASE Logins!RotateAccess(q)
  <2>1. Logins!End(q) /\ UNCHANGED <<bound, ever, refresh, regs, credLock, bootLock>>
    BY <1>4 DEF Logins!RotateAccess
  <2> QED
    BY <1>0, <1>4, <2>1, RotateAccessDoes, EndsCall, IdleNamed, TypedMove DEF NewToken
<1>5. CASE Logins!EndCommit(q)
  <2>1. Logins!End(q) /\ UNCHANGED <<bound, ever, bootLock>> /\ credLock' = NoIdentity
    BY <1>5 DEF Logins!EndCommit
  <2>2. Others(q) /\ req' \in [CallIds -> Called] /\ Named(q)'
    BY <2>1, EndsCall, IdleNamed
  <2>3. CASE req[q].refused
    <3>1. UNCHANGED <<tokens, refresh, regs>>
      BY <1>5, <2>3 DEF Logins!EndCommit
    <3> QED
      BY <1>0, <2>1, <2>2, <3>1, TypedMove
  <2>4. CASE ~req[q].refused
    <3>1. /\ tokens' \in Seq(Logins!Tokens) /\ Len(tokens') = Len(tokens) /\ DOMAIN tokens' = DOMAIN tokens
      BY <1>5, <2>4, EndCommitDoes, EndedIs
    <3>2. /\ refresh' \in Seq(Logins!RefreshTokens) /\ Len(refresh') = Len(refresh)
          /\ DOMAIN refresh' = DOMAIN refresh /\ regs' \subseteq regs
      BY <1>5, <2>4, EndCommitDoes DEF Sets
    <3> QED
      BY <1>0, <2>1, <2>2, <3>1, <3>2, TypedMove
  <2> QED
    BY <2>3, <2>4
<1>6. CASE Logins!UnbindCommit(q)
  <2>1. Logins!End(q) /\ UNCHANGED bootLock /\ credLock' = NoIdentity
    BY <1>6 DEF Logins!UnbindCommit
  <2>2. Others(q) /\ req' \in [CallIds -> Called] /\ Named(q)'
    BY <2>1, EndsCall, IdleNamed
  <2>3. CASE req[q].refused
    <3>1. UNCHANGED Logins!tables
      BY <1>6, <2>3 DEF Logins!UnbindCommit
    <3> QED
      BY <1>0, <2>1, <2>2, <3>1, TypedCall
  <2>4. CASE ~req[q].refused
    <3>1. /\ tokens' \in Seq(Logins!Tokens) /\ Len(tokens') = Len(tokens) /\ DOMAIN tokens' = DOMAIN tokens
      BY <1>6, <2>4, UnbindCommitDoes, UnboundIs
    <3>2. /\ refresh' \in Seq(Logins!RefreshTokens) /\ Len(refresh') = Len(refresh)
          /\ DOMAIN refresh' = DOMAIN refresh /\ regs' \subseteq regs
          /\ bound' \subseteq bound /\ ever' = ever
      BY <1>6, <2>4, UnbindCommitDoes DEF Sets
    <3> QED
      BY <1>0, <2>1, <2>2, <3>1, <3>2, TypedMove
  <2> QED
    BY <2>3, <2>4
<1>7. CASE Logins!MintInsert(q)
  <2>1. Logins!End(q) /\ UNCHANGED <<bound, ever, refresh, regs, credLock, bootLock>>
    BY <1>7 DEF Logins!MintInsert
  <2> QED
    BY <1>0, <1>7, <2>1, MintInsertDoes, EndsCall, IdleNamed, TypedMove DEF NewToken
<1>8. ASSUME NEW i \in Identities, Logins!BootPair(q, i) PROVE Typed'
  <2>1. /\ Logins!End(q) /\ UNCHANGED <<regs, credLock>> /\ bootLock' = NoIdentity
        /\ bound' = bound \cup {i} /\ ever' = ever \cup {i}
    BY <1>8 DEF Logins!BootPair
  <2>2. bound' \subseteq ever' /\ ever' \subseteq Identities
    BY <1>0, <2>1
  <2> QED
    BY <1>0, <1>8, <2>1, <2>2, BootPairDoes, EndsCall, IdleNamed, TypedMove DEF NewToken,
       NewRefresh
<1>9. ASSUME NEW i \in Identities, Logins!SignIn(q, i) PROVE Typed'
  <2>1. UNCHANGED <<bound, ever, refresh, regs, credLock, bootLock>>
    BY <1>9 DEF Logins!SignIn
  <2>2. /\ NewToken(Logins!Access(i, Logins!NewSession))
        /\ Others(q) /\ req' \in [CallIds -> Called] /\ req'[q].op = "signin" /\ req'[q].pc = "pair"
    BY <1>9, SignInDoes
  <2>3. Named(q)'
    BY <2>2 DEF Named
  <2> QED
    BY <1>0, <2>1, <2>2, <2>3, TypedMove DEF NewToken
<1>10. ASSUME NEW u \in CallIds, Logins!DeadlockVictim(q, u) PROVE Typed'
  <2>1. UNCHANGED <<Logins!tables, bootLock>> /\ credLock' \in {NoIdentity, credLock} /\ (Logins!End(q) \/ Logins!End(u))
    BY <1>10 DEF Logins!DeadlockVictim
  <2> QED
    BY <1>0, <2>1, EndsCall, IdleNamed, TypedCall
<1> QED
  BY <1>1, <1>2, <1>3, <1>4, <1>5, <1>6, <1>7, <1>8, <1>9, <1>10 DEF Filling

LEMMA ExpireRefreshDoes ==
  ASSUME Logins!CredentialsAssumption, Typed, NEW r \in DOMAIN refresh, Logins!ExpireRefresh(r)
  PROVE  /\ refresh' \in Seq(Logins!RefreshTokens) /\ Len(refresh') = Len(refresh)
         /\ Sets(refresh', {r}, "expired")
<1>1. refresh' = [refresh EXCEPT ![r].state = "expired"]
  BY DEF Logins!ExpireRefresh
<1> QED
  BY <1>1, RefreshSetOne

\* What a sweep makes of a row.
Deleted(rec) == IF rec.state = "expired" THEN "lapsed" ELSE "gone"

LEMMA SweepDoes ==
  ASSUME Logins!CredentialsAssumption, Typed, NEW r \in DOMAIN refresh, Logins!Sweep(r)
  PROVE  /\ refresh' \in Seq(Logins!RefreshTokens) /\ Len(refresh') = Len(refresh)
         /\ Deleted(refresh[r]) \in {"gone", "lapsed"}
         /\ Sets(refresh', {r}, Deleted(refresh[r]))
<1>1. PICK n : n = Deleted(refresh[r])
  OBVIOUS
<1>2. n \in {"gone", "lapsed"}
  BY <1>1 DEF Deleted
<1>3. refresh' = [refresh EXCEPT ![r].state = n]
  BY <1>1 DEF Logins!Sweep, Deleted
<1>4. /\ refresh' \in Seq(Logins!RefreshTokens) /\ Len(refresh') = Len(refresh)
      /\ Sets(refresh', {r}, n)
  BY <1>2, <1>3, RefreshSetOne
<1> QED
  BY <1>1, <1>2, <1>4

\* The steps of no call.
Apart ==
  \/ Logins!IssueToken
  \/ \E i \in Identities : Logins!Bind(i) \/ Logins!SignInNative(i)
  \/ \E k \in DOMAIN tokens : Logins!Register(k) \/ Logins!ExpireToken(k)
  \/ \E r \in DOMAIN refresh : Logins!ExpireRefresh(r) \/ Logins!Sweep(r)

LEMMA RestTyped == ASSUME Logins!CredentialsAssumption, Typed, Apart PROVE Typed'
<1>0. /\ credLock \in CallIds \cup {NoIdentity} /\ bootLock \in CallIds \cup {NoIdentity}
      /\ bound \subseteq ever /\ ever \subseteq Identities /\ regs \subseteq 1..MaxTokens
      /\ tokens \in Seq(Logins!Tokens) /\ Len(tokens) <= MaxTokens
      /\ refresh \in Seq(Logins!RefreshTokens) /\ Len(refresh) <= MaxRefresh
  BY DEF Typed, Logins!TypeOK
<1>1. CASE Logins!IssueToken
  <2>1. UNCHANGED <<bound, ever, refresh, regs, credLock, bootLock, req>>
    BY <1>1 DEF Logins!IssueToken
  <2> QED
    BY <1>0, <1>1, <2>1, IssueTokenDoes, TypedRest DEF NewToken
<1>2. ASSUME NEW i \in Identities, Logins!Bind(i) PROVE Typed'
  <2>1. /\ UNCHANGED <<tokens, refresh, regs, credLock, bootLock, req>>
        /\ bound' = bound \cup {i} /\ ever' = ever \cup {i}
    BY <1>2 DEF Logins!Bind
  <2>2. bound' \subseteq ever' /\ ever' \subseteq Identities
    BY <1>0, <2>1
  <2> QED
    BY <1>0, <2>1, <2>2, TypedRest
<1>3. ASSUME NEW i \in Identities, Logins!SignInNative(i) PROVE Typed'
  <2>1. UNCHANGED <<bound, ever, regs, credLock, bootLock, req>>
    BY <1>3 DEF Logins!SignInNative
  <2> QED
    BY <1>0, <1>3, <2>1, SignInNativeDoes, TypedRest DEF NewToken, NewRefresh
<1>4. ASSUME NEW k \in DOMAIN tokens, Logins!Register(k) PROVE Typed'
  <2>1. /\ UNCHANGED <<bound, ever, tokens, refresh, credLock, bootLock, req>>
        /\ regs' = regs \cup {tokens[k].session}
    BY <1>4 DEF Logins!Register
  <2>2. tokens[k].session \in 1..MaxTokens
    BY Rows DEF Typed, Logins!Tokens
  <2>3. regs' \subseteq 1..MaxTokens
    BY <1>0, <2>1, <2>2
  <2> QED
    BY <1>0, <2>1, <2>3, TypedRest
<1>5. ASSUME NEW k \in DOMAIN tokens, Logins!ExpireToken(k) PROVE Typed'
  <2>1. UNCHANGED <<bound, ever, refresh, regs, credLock, bootLock, req>>
    BY <1>5 DEF Logins!ExpireToken
  <2> QED
    BY <1>0, <1>5, <2>1, ExpireTokenDoes, TypedRest
<1>6. ASSUME NEW r \in DOMAIN refresh, Logins!ExpireRefresh(r) PROVE Typed'
  <2>1. UNCHANGED <<bound, ever, tokens, regs, credLock, bootLock, req>>
    BY <1>6 DEF Logins!ExpireRefresh
  <2> QED
    BY <1>0, <1>6, <2>1, ExpireRefreshDoes, TypedRest DEF Sets
<1>7. ASSUME NEW r \in DOMAIN refresh, Logins!Sweep(r) PROVE Typed'
  <2>1. UNCHANGED <<bound, ever, tokens, regs, credLock, bootLock, req>>
    BY <1>7 DEF Logins!Sweep
  <2> QED
    BY <1>0, <1>7, <2>1, SweepDoes, TypedRest DEF Sets
<1> QED
  BY <1>1, <1>2, <1>3, <1>4, <1>5, <1>6, <1>7 DEF Apart

LEMMA NextIs ==
  ASSUME [Logins!Next]_Logins!vars
  PROVE  (\E q \in CallIds : Moving(q) \/ Filling(q)) \/ Apart \/ UNCHANGED Logins!vars
BY DEF Logins!Next, Logins!Step, Moving, Filling, Apart

LEMMA NextTyped == Logins!CredentialsAssumption /\ Typed /\ [Logins!Next]_Logins!vars => Typed'
<1> SUFFICES ASSUME Logins!CredentialsAssumption, Typed, [Logins!Next]_Logins!vars PROVE Typed'
  OBVIOUS
<1>1. CASE UNCHANGED Logins!vars
  BY <1>1 DEF Logins!vars, Typed, Logins!TypeOK, Named
<1> QED
  BY <1>1, CallTyped, StepTyped, RestTyped, NextIs

\* Every credential, lock and history stays what it is declared to be, and a call names only
\* rows that are there.
THEOREM TypeCorrect == ASSUME Logins!CredentialsAssumption PROVE Logins!Spec => []Logins!TypeOK
<1>1. Logins!Init => Typed
  BY InitTyped
<1>2. Typed /\ [Logins!Next]_Logins!vars => Typed'
  BY NextTyped
<1>3. Typed => Logins!TypeOK
  BY DEF Typed
<1> QED
  BY <1>1, <1>2, <1>3, PTL DEF Logins!Spec

-----------------------------------------------------------------------------
(* One bootstrap *)

LEMMA BootLockDoes ==
  ASSUME Logins!CredentialsAssumption, Typed, NEW q \in CallIds, Logins!BootLock(q)
  PROVE  Others(q) /\ req'[q].op = "boot" /\ req'[q].pc = "boot"
<1>1. PICK t : t = [op |-> "boot", pc |-> "boot"]
  OBVIOUS
<1>2. t \in Called /\ t.op = "boot" /\ t.pc = "boot"
  BY <1>1 DEF Called, Boots
<1>3. req' = [req EXCEPT ![q] = t]
  BY <1>1 DEF Logins!BootLock
<1> QED
  BY <1>2, <1>3, Becomes

LEMMA RotateDoes ==
  ASSUME Logins!CredentialsAssumption, Typed, NEW q \in CallIds, NEW r \in DOMAIN refresh,
         Logins!Rotate(q, r)
  PROVE  Others(q) /\ req'[q].op = "rotate" /\ req'[q].pc = "fk" /\ req'[q].row = r
<1>1. PICK t : t = [op |-> "rotate", pc |-> "fk", row |-> r]
  OBVIOUS
<1>2. t \in Called /\ t.op = "rotate" /\ t.pc = "fk" /\ t.row = r
  BY <1>1, Rows DEF Called, Rotations, Typed
<1>3. req' = [req EXCEPT ![q] = t]
  BY <1>1 DEF Logins!Rotate
<1> QED
  BY <1>2, <1>3, Becomes

LEMMA MintStartDoes ==
  ASSUME Logins!CredentialsAssumption, Typed, NEW q \in CallIds, NEW k \in DOMAIN tokens,
         Logins!MintStart(q, k)
  PROVE  Others(q) /\ req'[q].op = "mint" /\ req'[q].pc = "insert"
<1>1. PICK t : t = [op |-> "mint", pc |-> "insert", parent |-> k]
  OBVIOUS
<1>2. t \in Called /\ t.op = "mint" /\ t.pc = "insert"
  BY <1>1, Rows DEF Called, Mints, Typed
<1>3. req' = [req EXCEPT ![q] = t]
  BY <1>1 DEF Logins!MintStart
<1> QED
  BY <1>2, <1>3, Becomes

LEMMA UnbindLockDoes ==
  ASSUME Logins!CredentialsAssumption, Typed, NEW q \in CallIds, Logins!UnbindLock(q)
  PROVE  /\ Others(q) /\ req[q] \in Unbinds /\ req[q].pc = "lock" /\ credLock = NoIdentity
         /\ \/ /\ req[q].ident \in bound /\ credLock' = q /\ SameUnbind(req[q], req'[q])
               /\ req'[q].pc = "ident"
            \/ credLock' = credLock /\ req'[q] = Logins!Idle
<1>1. req[q] \in Unbinds /\ req[q].pc = "lock" /\ credLock = NoIdentity
  BY Kinds DEF Typed, Logins!UnbindLock, Logins!CredentialsFree
<1>2. CASE req[q].ident \in bound /\ credLock' = q /\ Logins!Goto(q, "ident")
  BY <1>1, <1>2, UnbindGoes
<1>3. CASE UNCHANGED credLock /\ Logins!End(q)
  BY <1>1, <1>3, EndsCall
<1> QED
  BY <1>2, <1>3 DEF Logins!UnbindLock

LEMMA UnbindIdentityDoes ==
  ASSUME Logins!CredentialsAssumption, Typed, NEW q \in CallIds, Logins!UnbindIdentity(q)
  PROVE  /\ Others(q) /\ req[q] \in Unbinds /\ req[q].pc = "ident"
         /\ SameUnbind(req[q], req'[q]) /\ req'[q].pc = "tokens"
<1>1. req[q] \in Unbinds /\ req[q].pc = "ident" /\ Logins!Goto(q, "tokens")
  BY Kinds DEF Typed, Logins!UnbindIdentity
<1> QED
  BY <1>1, UnbindGoes

LEMMA UnbindRowsDoes ==
  ASSUME Logins!CredentialsAssumption, Typed, NEW q \in CallIds, Logins!UnbindRows(q)
  PROVE  /\ Others(q) /\ req[q] \in Unbinds /\ req[q].pc = "rows"
         /\ SameUnbind(req[q], req'[q]) /\ req'[q].pc = "count"
         /\ req'[q].doomed = req[q].doomed /\ req'[q].rows = req[q].rows
<1>1. req[q] \in Unbinds /\ req[q].pc = "rows" /\ Logins!Goto(q, "count")
  BY Kinds DEF Typed, Logins!UnbindRows
<1> QED
  BY <1>1, UnbindGoes

\* Only the bootstrap's own steps are at its stage or touch its lock.
LEMMA MovingBoots ==
  ASSUME Logins!CredentialsAssumption, Typed, NEW q \in CallIds, Moving(q), ~Logins!BootLock(q)
  PROVE  Others(q) /\ UNCHANGED Logins!tables /\ req'[q].pc # "boot" /\ bootLock' = bootLock
<1>1. CASE Logins!RotateInsert(q)
  BY <1>1, RotateInsertDoes DEF Logins!RotateInsert
<1>2. CASE Logins!EndLock(q)
  <2>1. UNCHANGED Logins!tables /\ bootLock' = bootLock
    BY <1>2 DEF Logins!EndLock
  <2> QED
    BY <1>2, <2>1, EndLockDoes
<1>3. CASE Logins!EndSelect(q)
  BY <1>3, EndSelectDoes DEF Logins!EndSelect
<1>4. CASE Logins!EndUpdate(q)
  BY <1>4, EndUpdateDoes DEF Logins!EndUpdate
<1>5. CASE Logins!EndCount(q)
  <2>1. UNCHANGED Logins!tables /\ bootLock' = bootLock
    BY <1>5 DEF Logins!EndCount
  <2> QED
    BY <1>5, <2>1, EndCountDoes
<1>6. CASE Logins!UnbindLock(q)
  <2>1. UNCHANGED Logins!tables /\ bootLock' = bootLock
    BY <1>6 DEF Logins!UnbindLock
  <2> QED
    BY <1>6, <2>1, UnbindLockDoes DEF Logins!Idle
<1>7. CASE Logins!UnbindIdentity(q)
  BY <1>7, UnbindIdentityDoes DEF Logins!UnbindIdentity
<1>8. CASE Logins!UnbindTokens(q)
  <2>1. UNCHANGED Logins!tables /\ bootLock' = bootLock
    BY <1>8 DEF Logins!UnbindTokens
  <2> QED
    BY <1>8, <2>1, UnbindTokensDoes
<1>9. CASE Logins!UnbindRows(q)
  BY <1>9, UnbindRowsDoes DEF Logins!UnbindRows
<1>10. CASE Logins!UnbindCount(q)
  <2>1. UNCHANGED Logins!tables /\ bootLock' = bootLock
    BY <1>10 DEF Logins!UnbindCount
  <2> QED
    BY <1>10, <2>1, UnbindCountDoes
<1>11. ASSUME NEW i \in Identities, Logins!Unbind(q, i)
       PROVE  Others(q) /\ UNCHANGED Logins!tables /\ req'[q].pc # "boot" /\ bootLock' = bootLock
  BY <1>11, UnbindDoes DEF Logins!Unbind
<1>12. ASSUME NEW r \in DOMAIN refresh, Logins!Rotate(q, r) \/ Logins!Replay(q,
              r) \/ Logins!EndLockRow(q, r) \/ Logins!EndUpdateRow(q, r)
       PROVE  Others(q) /\ UNCHANGED Logins!tables /\ req'[q].pc # "boot" /\ bootLock' = bootLock
  <2>1. UNCHANGED Logins!tables /\ bootLock' = bootLock
    BY <1>12 DEF Logins!Rotate, Logins!Replay, Logins!EndLockRow, Logins!EndUpdateRow
  <2> QED
    BY <1>12, <2>1, RotateDoes, ReplayDoes, EndLockRowDoes, EndUpdateRowDoes
<1>13. ASSUME NEW k \in DOMAIN tokens, Logins!Revoke(q, k) \/ Logins!MintStart(q, k)
       PROVE  Others(q) /\ UNCHANGED Logins!tables /\ req'[q].pc # "boot" /\ bootLock' = bootLock
  <2>1. UNCHANGED Logins!tables /\ bootLock' = bootLock
    BY <1>13 DEF Logins!Revoke, Logins!MintStart
  <2> QED
    BY <1>13, <2>1, RevokeDoes, MintStartDoes
<1> QED
  BY <1>1, <1>2, <1>3, <1>4, <1>5, <1>6, <1>7, <1>8, <1>9, <1>10, <1>11, <1>12, <1>13 DEF
     Moving

\* A call that bootstraps has the lock, and nobody has bootstrapped.
BootOwned == \A q \in CallIds : req[q].pc = "boot" =>
               bootLock = q /\ \A k \in DOMAIN tokens : ~tokens[k].boot
BootedOnce == \A j, k \in DOMAIN tokens : tokens[j].boot /\ tokens[k].boot => j = k

BootInv == Typed /\ BootOwned /\ BootedOnce

\* A step that makes no bootstrap token.
Bootless == \A k \in DOMAIN tokens' : tokens'[k].boot => k \in DOMAIN tokens /\ tokens[k].boot

LEMMA BootMove ==
  ASSUME BootInv, NEW q \in CallIds, Others(q), req'[q].pc # "boot", bootLock' = bootLock,
         Bootless
  PROVE  BootOwned' /\ BootedOnce'
BY DEF BootInv, BootOwned, BootedOnce, Others, Bootless

LEMMA BootRest ==
  ASSUME BootInv, req' = req, bootLock' = bootLock, Bootless
  PROVE  BootOwned' /\ BootedOnce'
BY DEF BootInv, BootOwned, BootedOnce, Bootless

\* The step that makes one, at the end of the call that has the lock.
LEMMA BootDone ==
  ASSUME Logins!CredentialsAssumption, BootInv, NEW q \in CallIds, req[q].pc = "boot",
         Logins!End(q),
         NEW rec, NewToken(rec)
  PROVE  BootOwned' /\ BootedOnce'
<1>1. \A k \in DOMAIN tokens : ~tokens[k].boot
  BY DEF BootInv, BootOwned
<1>2. ASSUME NEW p \in CallIds PROVE req'[p].pc # "boot"
  <2>1. CASE p = q
    BY <2>1, EndsCall DEF Logins!Idle, BootInv
  <2>2. CASE p # q
    <3>1. req'[p] = req[p]
      BY <2>2, EndsCall DEF Others, BootInv
    <3> QED
      BY <2>2, <3>1 DEF BootInv, BootOwned
  <2> QED
    BY <2>1, <2>2
<1>3. \A k \in DOMAIN tokens' : tokens'[k].boot => k = Len(tokens) + 1
  BY <1>1 DEF NewToken, Adds
<1> QED
  BY <1>2, <1>3 DEF BootOwned, BootedOnce

LEMMA AccessIs ==
  ASSUME NEW i, NEW s
  PROVE  LET rec == Logins!Access(i, s)
         IN /\ rec.ident = i /\ rec.perm = FALSE /\ rec.session = s /\ rec.root = i
            /\ rec.boot = FALSE /\ rec.state = "live" /\ rec.parent = 0
BY DEF Logins!Access

LEMMA BootlessAdd == ASSUME NEW rec, NewToken(rec), ~rec.boot PROVE Bootless
BY DEF NewToken, Adds, Bootless

LEMMA NextBoot == Logins!CredentialsAssumption /\ BootInv /\ [Logins!Next]_Logins!vars => BootInv'
<1> SUFFICES ASSUME Logins!CredentialsAssumption, BootInv,
                    [Logins!Next]_Logins!vars PROVE BootInv'
  OBVIOUS
<1>0. Typed /\ Typed'
  BY NextTyped DEF BootInv
<1>1. ASSUME NEW q \in CallIds, Moving(q) PROVE BootOwned' /\ BootedOnce'
  <2>1. CASE Logins!BootLock(q)
    <3>1. /\ tokens = <<>> /\ tokens' = tokens /\ bootLock' = q /\ bootLock = NoIdentity
      BY <2>1 DEF Logins!BootLock, Logins!BootstrapAvailable, Logins!tables
    <3>2. \A p \in CallIds : req[p].pc # "boot"
      BY <3>1 DEF BootInv, BootOwned, Logins!CredentialsAssumption
    <3> QED
      BY <1>0, <2>1, <3>1, <3>2, BootLockDoes DEF BootOwned, BootedOnce, Others
  <2>2. CASE ~Logins!BootLock(q)
    <3>1. Others(q) /\ UNCHANGED Logins!tables /\ req'[q].pc # "boot" /\ bootLock' = bootLock
      BY <1>0, <1>1, <2>2, MovingBoots
    <3>2. Bootless
      BY <3>1 DEF Bootless, Logins!tables
    <3> QED
      BY <3>1, <3>2, BootMove
  <2> QED
    BY <2>1, <2>2
<1>2. ASSUME NEW q \in CallIds, Filling(q) PROVE BootOwned' /\ BootedOnce'
  <2>1. CASE Logins!BootToken(q)
    BY <1>0, <2>1, BootTokenDoes, BootDone DEF Logins!BootToken
  <2>2. CASE Logins!SignInPair(q)
    <3>1. Logins!End(q) /\ tokens' = tokens /\ bootLock' = bootLock
      BY <2>2 DEF Logins!SignInPair
    <3> QED
      BY <1>0, <3>1, EndsCall, BootMove DEF Bootless, Logins!Idle
  <2>3. CASE Logins!RotateCommit(q)
    <3>1. Bootless /\ bootLock' = bootLock
      BY <2>3 DEF Logins!RotateCommit, Bootless
    <3>2. Others(q) /\ req'[q].pc = "access"
      BY <1>0, <2>3, RotateCommitDoes
    <3> QED
      BY <3>1, <3>2, BootMove
  <2>4. CASE Logins!RotateAccess(q)
    <3>1. Logins!End(q) /\ bootLock' = bootLock
      BY <2>4 DEF Logins!RotateAccess
    <3>2. Bootless
      BY <1>0, <2>4, RotateAccessDoes, AccessIs, BootlessAdd DEF Bootless
    <3> QED
      BY <1>0, <3>1, <3>2, EndsCall, BootMove DEF Logins!Idle
  <2>5. CASE Logins!EndCommit(q)
    <3>1. Logins!End(q) /\ bootLock' = bootLock
      BY <2>5 DEF Logins!EndCommit
    <3>2. CASE req[q].refused
      <4>1. Bootless
        BY <2>5, <3>2 DEF Logins!EndCommit, Bootless
      <4> QED
        BY <1>0, <3>1, <4>1, EndsCall, BootMove DEF Logins!Idle
    <3>3. CASE ~req[q].refused
      <4>1. tokens' = Logins!Ended(q) /\ req[q] \in Ends
        BY <1>0, <2>5, <3>3, EndCommitDoes
      <4>2. Bootless
        BY <1>0, <4>1, EndedIs DEF Bootless, Same
      <4> QED
        BY <1>0, <3>1, <4>2, EndsCall, BootMove DEF Logins!Idle
    <3> QED
      BY <3>2, <3>3
  <2>6. CASE Logins!UnbindCommit(q)
    <3>1. Logins!End(q) /\ bootLock' = bootLock
      BY <2>6 DEF Logins!UnbindCommit
    <3>2. CASE req[q].refused
      <4>1. Bootless
        BY <2>6, <3>2 DEF Logins!UnbindCommit, Bootless, Logins!tables
      <4> QED
        BY <1>0, <3>1, <4>1, EndsCall, BootMove DEF Logins!Idle
    <3>3. CASE ~req[q].refused
      <4>1. tokens' = Logins!Unbound(q) /\ req[q] \in Unbinds
        BY <1>0, <2>6, <3>3, UnbindCommitDoes
      <4>2. Bootless
        BY <1>0, <4>1, UnboundIs DEF Bootless
      <4> QED
        BY <1>0, <3>1, <4>2, EndsCall, BootMove DEF Logins!Idle
    <3> QED
      BY <3>2, <3>3
  <2>7. CASE Logins!MintInsert(q)
    <3>1. Logins!End(q) /\ bootLock' = bootLock
      BY <2>7 DEF Logins!MintInsert
    <3>2. Bootless
      <4>1. ~Logins!Permanent(req[q].parent, tokens[req[q].parent].root, FALSE).boot
        BY DEF Logins!Permanent
      <4> QED
        BY <1>0, <2>7, <4>1, MintInsertDoes, BootlessAdd
    <3> QED
      BY <1>0, <3>1, <3>2, EndsCall, BootMove DEF Logins!Idle
  <2>8. ASSUME NEW i \in Identities, Logins!BootPair(q, i) PROVE BootOwned' /\ BootedOnce'
    <3>1. req[q].pc = "boot" /\ Logins!End(q)
      BY <2>8 DEF Logins!BootPair
    <3> QED
      BY <1>0, <2>8, <3>1, BootPairDoes, BootDone
  <2>9. ASSUME NEW i \in Identities, Logins!SignIn(q, i) PROVE BootOwned' /\ BootedOnce'
    <3>1. bootLock' = bootLock
      BY <2>9 DEF Logins!SignIn
    <3>2. NewToken(Logins!Access(i, Logins!NewSession)) /\ Others(q) /\ req'[q].pc = "pair"
      BY <1>0, <2>9, SignInDoes
    <3>3. Bootless
      BY <3>2, AccessIs, BootlessAdd
    <3> QED
      BY <3>1, <3>2, <3>3, BootMove
  <2>10. ASSUME NEW u \in CallIds, Logins!DeadlockVictim(q, u) PROVE BootOwned' /\ BootedOnce'
    <3>1. (Logins!End(q) \/ Logins!End(u)) /\ bootLock' = bootLock /\ tokens' = tokens
      BY <2>10 DEF Logins!DeadlockVictim, Logins!tables
    <3> QED
      BY <1>0, <3>1, EndsCall, BootMove DEF Bootless, Logins!Idle
  <2> QED
    BY <1>2, <2>1, <2>2, <2>3, <2>4, <2>5, <2>6, <2>7, <2>8, <2>9, <2>10 DEF Filling
<1>3. ASSUME Apart PROVE BootOwned' /\ BootedOnce'
  <2>1. bootLock' = bootLock /\ req' = req
    BY <1>3 DEF Apart, Logins!IssueToken, Logins!Bind, Logins!SignInNative, Logins!Register,
       Logins!ExpireToken, Logins!ExpireRefresh, Logins!Sweep
  <2>2. Bootless
    <3>1. CASE Logins!IssueToken
      <4>1. ~Logins!Permanent(0, NoIdentity, FALSE).boot
        BY DEF Logins!Permanent
      <4> QED
        BY <1>0, <3>1, <4>1, IssueTokenDoes, BootlessAdd
    <3>2. ASSUME NEW i \in Identities, Logins!SignInNative(i) PROVE Bootless
      BY <1>0, <3>2, SignInNativeDoes, AccessIs, BootlessAdd
    <3>3. ASSUME NEW k \in DOMAIN tokens, Logins!ExpireToken(k) PROVE Bootless
      <4>1. DOMAIN tokens' = DOMAIN tokens /\ \A j \in DOMAIN tokens : Same(tokens[j], tokens'[j])
        BY <1>0, <3>3, ExpireTokenDoes
      <4> QED
        BY <4>1 DEF Bootless, Same
    <3>4. CASE tokens' = tokens
      BY <3>4 DEF Bootless
    <3> QED
      BY <1>3, <3>1, <3>2, <3>3, <3>4 DEF Apart, Logins!Bind, Logins!Register,
         Logins!ExpireRefresh, Logins!Sweep
  <2> QED
    BY <2>1, <2>2, BootRest
<1>4. CASE UNCHANGED Logins!vars
  <2>1. req' = req /\ bootLock' = bootLock /\ Bootless
    BY <1>4 DEF Logins!vars, Bootless
  <2> QED
    BY <1>0, <2>1, BootRest DEF BootInv
<1> QED
  BY <1>0, <1>1, <1>2, <1>3, <1>4, NextIs DEF BootInv

LEMMA SameCount == \A S : Logins!Cardinality(S) = Cardinality(S)
  BY Zenon DEF Logins!Cardinality, Cardinality

\* The first-run bootstrap makes one credential, however many requests, tokens and identities
\* there are, whichever of its doors are tried at once and whatever else goes on.
THEOREM BootstrapCorrect == ASSUME Logins!CredentialsAssumption PROVE Logins!Spec => []Logins!OneBootstrap
<1>1. Logins!Init => BootInv
  <2>1. ASSUME Logins!Init PROVE BootOwned /\ BootedOnce
    BY <2>1 DEF Logins!Init, Logins!Idle, BootOwned, BootedOnce
  <2> QED
    BY <2>1, InitTyped DEF BootInv
<1>2. BootInv /\ [Logins!Next]_Logins!vars => BootInv'
  BY NextBoot
<1>3. BootInv => Logins!OneBootstrap
  <2> SUFFICES ASSUME BootInv PROVE Logins!OneBootstrap
    OBVIOUS
  <2> DEFINE booted == {k \in DOMAIN tokens : tokens[k].boot}
  <2>1. CASE booted = {}
    BY <2>1, FS_EmptySet, SameCount DEF Logins!OneBootstrap
  <2>2. CASE booted # {}
    <3>1. PICK k \in DOMAIN tokens : tokens[k].boot
      BY <2>2
    <3>2. booted = {k}
      BY <3>1 DEF BootInv, BootedOnce
    <3>3. Logins!Cardinality(booted) = 1
      BY <3>2, FS_Singleton, SameCount
    <3> QED
      BY <3>3 DEF Logins!OneBootstrap
  <2> QED
    BY <2>1, <2>2
<1> QED
  BY <1>1, <1>2, <1>3, PTL DEF Logins!Spec

-----------------------------------------------------------------------------
(* One rotation of a refresh token *)

\* A call in the state t has the lock of row r.
Locks(t, r) ==
  \/ t.pc \in {"fk", "rotated"} /\ t.row = r
  \/ t.pc \in {"select", "locking", "updating", "count", "commit"} /\ t.op = "end" /\ r \in t.mine
  \/ t.pc \in {"count", "commit"} /\ t.op = "unbind" /\ r \in t.rows

Alone(q, r) == \A p \in CallIds : p # q => ~Locks(req[p], r)

LEMMA HoldersAre ==
  ASSUME NEW r, NEW q \in CallIds
  PROVE  /\ Logins!Holders(r) = {} => \A p \in CallIds : ~Locks(req[p], r)
         /\ Logins!FreeFor(q, r) => Alone(q, r)
BY DEF Logins!Holders, Logins!FreeFor, Locks, Alone

\* The lock of a row has one holder; the row that is being rotated is still active; a row that
\* was rotated is spent, and stays so.
OneLocker == \A r : \A p, q \in CallIds : Locks(req[p], r) /\ Locks(req[q], r) => p = q
Rotating == \A q \in CallIds : req[q].pc \in {"fk", "rotated"} => refresh[req[q].row].state = "active"
Spent(rec) == rec.state \in {"revoked", "gone"}
FromSpent == \A s \in DOMAIN refresh : refresh[s].from # 0 =>
               refresh[s].from \in DOMAIN refresh /\ Spent(refresh[refresh[s].from])

RowInv == Typed /\ OneLocker /\ Rotating /\ FromSpent /\ Logins!RotatedOnce

\* What a step of q takes, and that it rotates an active row.
Takes(q) == \A r : Locks(req'[q], r) => Locks(req[q], r) \/ Alone(q, r)
Rotates(q) == req'[q].pc \in {"fk", "rotated"} => refresh[req'[q].row].state = "active"

LEMMA OneHolderMove ==
  ASSUME OneLocker, NEW q \in CallIds, Others(q), Takes(q)
  PROVE  OneLocker'
<1> SUFFICES ASSUME NEW r, NEW p \in CallIds, NEW s \in CallIds, Locks(req'[p], r),
                    Locks(req'[s], r)
             PROVE  p = s
  BY DEF OneLocker, Locks
<1>1. CASE p # q /\ s # q
  <2>1. req'[p] = req[p] /\ req'[s] = req[s]
    BY <1>1 DEF Others
  <2> QED
    BY <2>1 DEF OneLocker
<1>2. CASE p = q /\ s # q
  <2>1. req'[s] = req[s]
    BY <1>2 DEF Others
  <2>2. Locks(req[q], r) \/ Alone(q, r)
    BY <1>2 DEF Takes
  <2> QED
    BY <1>2, <2>1, <2>2 DEF OneLocker, Alone
<1>3. CASE p # q /\ s = q
  <2>1. req'[p] = req[p]
    BY <1>3 DEF Others
  <2>2. Locks(req[q], r) \/ Alone(q, r)
    BY <1>3 DEF Takes
  <2> QED
    BY <1>3, <2>1, <2>2 DEF OneLocker, Alone
<1> QED
  BY <1>1, <1>2, <1>3

\* A call at none of these stages holds nothing.
LEMMA HoldsNothing ==
  ASSUME NEW q \in CallIds,
         req'[q].pc \in {"idle", "boot", "pair", "access", "insert", "lock", "ident", "tokens", "rows"}
  PROVE  Takes(q) /\ Rotates(q)
BY DEF Takes, Rotates, Locks

LEMMA MovingHolds ==
  ASSUME Logins!CredentialsAssumption, RowInv, NEW q \in CallIds, Moving(q)
  PROVE  Others(q) /\ UNCHANGED Logins!tables /\ Takes(q) /\ Rotates(q)
<1>0. Typed /\ Named(q)
  BY DEF RowInv, Typed
<1>a. Others(q) /\ UNCHANGED Logins!tables
  <2>1. CASE Logins!BootLock(q)
    BY <1>0, <2>1, BootLockDoes DEF Logins!BootLock
  <2>2. CASE ~Logins!BootLock(q)
    BY <1>0, <2>2, MovingBoots
  <2> QED
    BY <2>1, <2>2
<1>1. CASE Logins!BootLock(q)
  BY <1>0, <1>a, <1>1, BootLockDoes, HoldsNothing
<1>2. CASE Logins!RotateInsert(q)
  BY <1>0, <1>a, <1>2, RotateInsertDoes DEF Takes, Rotates, Locks, Rotations, RowInv, Rotating
<1>3. CASE Logins!EndLock(q)
  <2>1. req[q].mine = {}
    BY <1>0, <1>3 DEF Named, Logins!EndLock
  <2> QED
    BY <1>0, <1>a, <1>3, <2>1, EndLockDoes DEF Takes, Rotates, Locks, SameEnd
<1>4. CASE Logins!EndSelect(q)
  <2>1. req[q].mine = {}
    BY <1>0, <1>4, EndSelectDoes DEF Named, Logins!EndSelect, Ends
  <2> QED
    BY <1>0, <1>a, <1>4, <2>1, EndSelectDoes DEF Takes, Rotates, Locks, SameEnd
<1>5. CASE Logins!EndUpdate(q)
  BY <1>0, <1>a, <1>5, EndUpdateDoes DEF Takes, Rotates, Locks, SameEnd, Ends
<1>6. CASE Logins!EndCount(q)
  <2>1. /\ req[q] \in Ends /\ SameEnd(req[q], req'[q]) /\ req[q].pc \in {"count", "updating"}
        /\ req'[q].pc = "commit" /\ req'[q].mine = req[q].mine
    BY <1>0, <1>6, EndCountDoes
  <2> QED
    BY <1>a, <2>1 DEF Takes, Rotates, Locks, SameEnd, Ends
<1>7. CASE Logins!UnbindLock(q)
  <2>1. req'[q].pc \in {"ident", "idle"}
    BY <1>0, <1>7, UnbindLockDoes DEF Logins!Idle
  <2> QED
    BY <1>a, <2>1, HoldsNothing
<1>8. CASE Logins!UnbindIdentity(q)
  BY <1>0, <1>a, <1>8, UnbindIdentityDoes, HoldsNothing
<1>9. CASE Logins!UnbindTokens(q)
  BY <1>0, <1>a, <1>9, UnbindTokensDoes, HoldsNothing
<1>10. CASE Logins!UnbindRows(q)
  <2>1. \A r \in req[q].rows : Alone(q, r)
    BY <1>10, HoldersAre DEF Logins!UnbindRows
  <2> QED
    BY <1>0, <1>a, <1>10, <2>1, UnbindRowsDoes DEF Takes, Rotates, Locks, SameUnbind
<1>11. CASE Logins!UnbindCount(q)
  <2>1. /\ req[q] \in Unbinds /\ SameUnbind(req[q], req'[q]) /\ req[q].pc = "count"
        /\ req'[q].pc = "commit" /\ req'[q].rows = req[q].rows
    BY <1>0, <1>11, UnbindCountDoes
  <2> QED
    BY <1>a, <2>1 DEF Takes, Rotates, Locks, SameUnbind, Unbinds
<1>12. ASSUME NEW i \in Identities, Logins!Unbind(q, i) PROVE Takes(q) /\ Rotates(q)
  BY <1>0, <1>12, UnbindDoes, HoldsNothing
<1>13. ASSUME NEW r \in DOMAIN refresh, Logins!Rotate(q, r) PROVE Takes(q) /\ Rotates(q)
  <2>1. Alone(q, r) /\ refresh[r].state = "active"
    BY <1>13, HoldersAre DEF Logins!Rotate, Logins!Rotatable, Alone
  <2> QED
    BY <1>0, <1>13, <2>1, RotateDoes DEF Takes, Rotates, Locks
<1>14. ASSUME NEW r \in DOMAIN refresh, Logins!Replay(q, r) PROVE Takes(q) /\ Rotates(q)
  BY <1>0, <1>14, ReplayDoes, HoldsNothing
<1>15. ASSUME NEW r \in DOMAIN refresh, Logins!EndLockRow(q, r) PROVE Takes(q) /\ Rotates(q)
  <2>1. Alone(q, r)
    BY <1>15, HoldersAre DEF Logins!EndLockRow
  <2> QED
    BY <1>0, <1>15, <2>1, EndLockRowDoes DEF Takes, Rotates, Locks, SameEnd, Ends
<1>16. ASSUME NEW r \in DOMAIN refresh, Logins!EndUpdateRow(q, r) PROVE Takes(q) /\ Rotates(q)
  <2>1. Alone(q, r)
    BY <1>16, HoldersAre DEF Logins!EndUpdateRow
  <2> QED
    BY <1>0, <1>16, <2>1, EndUpdateRowDoes DEF Takes, Rotates, Locks, SameEnd, Ends
<1>17. ASSUME NEW k \in DOMAIN tokens, Logins!Revoke(q, k) PROVE Takes(q) /\ Rotates(q)
  BY <1>0, <1>17, RevokeDoes, HoldsNothing
<1>18. ASSUME NEW k \in DOMAIN tokens, Logins!MintStart(q, k) PROVE Takes(q) /\ Rotates(q)
  BY <1>0, <1>18, MintStartDoes, HoldsNothing
<1> QED
  BY <1>a, <1>1, <1>2, <1>3, <1>4, <1>5, <1>6, <1>7, <1>8, <1>9, <1>10, <1>11, <1>12, <1>13,
     <1>14, <1>15, <1>16, <1>17, <1>18 DEF Moving

\* A step that adds no rotated row: it spends no row that another call rotates, and a spent
\* row stays spent.
Keeps(q) ==
  /\ DOMAIN refresh \subseteq DOMAIN refresh'
  /\ \A r \in DOMAIN refresh : /\ refresh'[r].from = refresh[r].from
                               /\ Spent(refresh[r]) => Spent(refresh'[r])
                               /\ refresh'[r].state = refresh[r].state \/ Alone(q, r)
  /\ \A r \in DOMAIN refresh' \ DOMAIN refresh : refresh'[r].from = 0

LEMMA RowsKept ==
  ASSUME Logins!CredentialsAssumption, RowInv, NEW q \in CallIds, Others(q), Keeps(q),
         req'[q].pc \notin {"fk", "rotated"}
  PROVE  Rotating' /\ FromSpent' /\ Logins!RotatedOnce'
<1>1. Rotating'
  <2> SUFFICES ASSUME NEW p \in CallIds, req'[p].pc \in {"fk", "rotated"}
               PROVE  refresh'[req'[p].row].state = "active"
    BY DEF Rotating
  <2>1. p # q /\ req'[p] = req[p]
    BY DEF Others
  <2>2. /\ req[p].row \in DOMAIN refresh /\ refresh[req[p].row].state = "active"
        /\ Locks(req[p], req[p].row)
    BY <2>1 DEF RowInv, Typed, Named, Rotating, Locks
  <2>3. ~Alone(q, req[p].row)
    BY <2>1, <2>2 DEF Alone
  <2> QED
    BY <2>1, <2>2, <2>3 DEF Keeps
<1>2. FromSpent'
  BY DEF RowInv, FromSpent, Keeps
<1>3. Logins!RotatedOnce'
  BY DEF RowInv, Logins!RotatedOnce, Keeps
<1> QED
  BY <1>1, <1>2, <1>3

\* The same of a step of no call.
LEMMA RowsApart ==
  ASSUME Logins!CredentialsAssumption, RowInv, req' = req,
         DOMAIN refresh \subseteq DOMAIN refresh',
         \A r \in DOMAIN refresh : /\ refresh'[r].from = refresh[r].from
                                   /\ Spent(refresh[r]) => Spent(refresh'[r])
                                   /\ \/ refresh'[r].state = refresh[r].state
                                      \/ \A p \in CallIds : ~Locks(req[p], r),
         \A r \in DOMAIN refresh' \ DOMAIN refresh : refresh'[r].from = 0
  PROVE  OneLocker' /\ Rotating' /\ FromSpent' /\ Logins!RotatedOnce'
<1>1. OneLocker'
  BY DEF RowInv, OneLocker
<1>2. Rotating'
  <2> SUFFICES ASSUME NEW p \in CallIds, req[p].pc \in {"fk", "rotated"}
               PROVE  refresh'[req[p].row].state = "active"
    BY DEF Rotating
  <2>1. /\ req[p].row \in DOMAIN refresh /\ refresh[req[p].row].state = "active"
        /\ Locks(req[p], req[p].row)
    BY DEF RowInv, Typed, Named, Rotating, Locks
  <2> QED
    BY <2>1
<1>3. FromSpent'
  BY DEF RowInv, FromSpent
<1>4. Logins!RotatedOnce'
  BY DEF RowInv, Logins!RotatedOnce
<1> QED
  BY <1>1, <1>2, <1>3, <1>4

LEMMA KeepsSame == ASSUME NEW q \in CallIds, refresh' = refresh PROVE Keeps(q)
BY DEF Keeps

LEMMA KeepsNew ==
  ASSUME NEW q \in CallIds, NEW i, NEW s, NewRefresh(Logins!Refreshing(i, s, 0))
  PROVE  Keeps(q)
<1>1. Logins!Refreshing(i, s, 0).from = 0
  BY DEF Logins!Refreshing
<1>2. PICK rec : rec = Logins!Refreshing(i, s, 0)
  OBVIOUS
<1>3. rec.from = 0 /\ Adds(refresh, refresh', rec) /\ DOMAIN refresh \subseteq DOMAIN refresh'
  BY <1>1, <1>2 DEF NewRefresh
<1> QED
  BY <1>3 DEF Keeps, Adds

\* A call that ends holds nothing any more.
LEMMA RowsEnd ==
  ASSUME Logins!CredentialsAssumption, RowInv, NEW q \in CallIds, Logins!End(q), Keeps(q)
  PROVE  OneLocker' /\ Rotating' /\ FromSpent' /\ Logins!RotatedOnce'
<1>1. Others(q) /\ req'[q] = Logins!Idle
  BY EndsCall DEF RowInv
<1>2. req'[q].pc = "idle"
  BY <1>1 DEF Logins!Idle
<1> QED
  BY <1>1, <1>2, HoldsNothing, OneHolderMove, RowsKept DEF RowInv

LEMMA RotateCommitRows ==
  ASSUME Logins!CredentialsAssumption, RowInv, NEW q \in CallIds, Logins!RotateCommit(q)
  PROVE  OneLocker' /\ Rotating' /\ FromSpent' /\ Logins!RotatedOnce'
<1>1. PICK x : x = req[q].row
  OBVIOUS
<1>2. PICK n : n = Len(refresh) + 1
  OBVIOUS
<1>3. /\ Others(q) /\ req[q].pc = "rotated" /\ x \in DOMAIN refresh /\ req'[q].pc = "access"
      /\ n \notin DOMAIN refresh /\ DOMAIN refresh' = DOMAIN refresh \cup {n}
      /\ \A r \in DOMAIN refresh : /\ SameRefresh(refresh[r], refresh'[r])
                                   /\ r = x => refresh'[r].state = "revoked"
                                   /\ r # x => refresh'[r] = refresh[r]
      /\ refresh'[n] = Logins!Refreshing(refresh[x].ident, refresh[x].session, x)
  BY <1>1, <1>2, RotateCommitDoes DEF RowInv
<1>4. refresh'[n].from = x
  BY <1>3 DEF Logins!Refreshing
<1>5. refresh[x].state = "active" /\ Locks(req[q], x)
  BY <1>1, <1>3 DEF RowInv, Rotating, Locks
<1>6. OneLocker'
  BY <1>3, HoldsNothing, OneHolderMove DEF RowInv
<1>7. Rotating'
  <2> SUFFICES ASSUME NEW p \in CallIds, req'[p].pc \in {"fk", "rotated"}
               PROVE  refresh'[req'[p].row].state = "active"
    BY DEF Rotating
  <2>1. p # q /\ req'[p] = req[p]
    BY <1>3 DEF Others
  <2>2. /\ req[p].row \in DOMAIN refresh /\ refresh[req[p].row].state = "active"
        /\ Locks(req[p], req[p].row)
    BY <2>1 DEF RowInv, Typed, Named, Rotating, Locks
  <2>3. req[p].row # x
    BY <1>5, <2>1, <2>2 DEF RowInv, OneLocker
  <2> QED
    BY <1>3, <2>1, <2>2, <2>3
<1>8. FromSpent'
  <2> SUFFICES ASSUME NEW s \in DOMAIN refresh', refresh'[s].from # 0
               PROVE  refresh'[s].from \in DOMAIN refresh' /\ Spent(refresh'[refresh'[s].from])
    BY DEF FromSpent, Spent
  <2>1. CASE s = n
    BY <1>3, <1>4, <2>1 DEF Spent
  <2>2. CASE s # n
    <3>1. s \in DOMAIN refresh /\ refresh'[s].from = refresh[s].from
      BY <1>3, <2>2 DEF SameRefresh
    <3>2. refresh[s].from \in DOMAIN refresh /\ Spent(refresh[refresh[s].from])
      BY <3>1 DEF RowInv, FromSpent
    <3> QED
      BY <1>3, <3>1, <3>2 DEF Spent
  <2> QED
    BY <2>1, <2>2
<1>9. Logins!RotatedOnce'
  <2>1. \A s \in DOMAIN refresh : refresh[s].from # x
    <3> SUFFICES ASSUME NEW s \in DOMAIN refresh, refresh[s].from = x PROVE FALSE
      OBVIOUS
    <3>1. x # 0
      BY <1>3, Rows DEF RowInv, Typed
    <3>2. Spent(refresh[x])
      BY <3>1 DEF RowInv, FromSpent
    <3> QED
      BY <1>5, <3>2 DEF Spent
  <2>2. \A s \in DOMAIN refresh : refresh'[s].from = refresh[s].from
    BY <1>3 DEF SameRefresh
  <2> QED
    BY <1>3, <1>4, <2>1, <2>2 DEF RowInv, Logins!RotatedOnce
<1> QED
  BY <1>6, <1>7, <1>8, <1>9

\* A commit spends rows that its own call holds.
LEMMA KeepsSet ==
  ASSUME Logins!CredentialsAssumption, RowInv, NEW q \in CallIds, NEW R,
         NEW n \in {"revoked", "gone"},
         Sets(refresh', R, n), \A r \in R : Locks(req[q], r)
  PROVE  Keeps(q)
<1>1. \A r \in R : Alone(q, r)
  BY DEF RowInv, OneLocker, Alone
<1> QED
  BY <1>1 DEF Keeps, Sets, SameRefresh, Spent

LEMMA NextRow == Logins!CredentialsAssumption /\ RowInv /\ [Logins!Next]_Logins!vars => RowInv'
<1> SUFFICES ASSUME Logins!CredentialsAssumption, RowInv,
                    [Logins!Next]_Logins!vars PROVE RowInv'
  OBVIOUS
<1>0. Typed /\ Typed'
  BY NextTyped DEF RowInv
<1> DEFINE Good == OneLocker' /\ Rotating' /\ FromSpent' /\ Logins!RotatedOnce'
<1>1. ASSUME NEW q \in CallIds, Moving(q) PROVE Good
  <2>1. Others(q) /\ UNCHANGED Logins!tables /\ Takes(q) /\ Rotates(q)
    BY <1>1, MovingHolds
  <2>2. refresh' = refresh
    BY <2>1 DEF Logins!tables
  <2>3. OneLocker'
    BY <2>1, OneHolderMove DEF RowInv
  <2>4. Rotating'
    BY <2>1, <2>2 DEF RowInv, Rotating, Rotates, Others
  <2>5. FromSpent' /\ Logins!RotatedOnce'
    BY <2>2 DEF RowInv, FromSpent, Logins!RotatedOnce
  <2> QED
    BY <2>3, <2>4, <2>5
<1>2. ASSUME NEW q \in CallIds, Filling(q) PROVE Good
  <2>1. CASE Logins!BootToken(q) \/ Logins!RotateAccess(q) \/ Logins!MintInsert(q)
    <3>1. Logins!End(q) /\ refresh' = refresh
      BY <2>1 DEF Logins!BootToken, Logins!RotateAccess, Logins!MintInsert
    <3> QED
      BY <3>1, KeepsSame, RowsEnd
  <2>2. CASE Logins!SignInPair(q)
    <3>1. Logins!End(q)
      BY <2>2 DEF Logins!SignInPair
    <3> QED
      BY <1>0, <2>2, <3>1, SignInPairDoes, KeepsSame, KeepsNew, RowsEnd
  <2>3. CASE Logins!RotateCommit(q)
    BY <2>3, RotateCommitRows
  <2>4. CASE Logins!EndCommit(q)
    <3>1. Logins!End(q)
      BY <2>4 DEF Logins!EndCommit
    <3>2. CASE req[q].refused
      BY <2>4, <3>1, <3>2, KeepsSame, RowsEnd DEF Logins!EndCommit
    <3>3. CASE ~req[q].refused
      <4>1. req[q] \in Ends /\ req[q].pc = "commit" /\ Sets(refresh', req[q].hit, "revoked")
        BY <1>0, <2>4, <3>3, EndCommitDoes
      <4>2. req[q].hit \subseteq req[q].mine /\ req[q].op = "end"
        BY <1>0, <4>1 DEF Typed, Named, Ends
      <4>3. \A r \in req[q].hit : Locks(req[q], r)
        BY <4>1, <4>2 DEF Locks
      <4> QED
        BY <3>1, <4>1, <4>3, KeepsSet, RowsEnd
    <3> QED
      BY <3>2, <3>3
  <2>5. CASE Logins!UnbindCommit(q)
    <3>1. Logins!End(q)
      BY <2>5 DEF Logins!UnbindCommit
    <3>2. CASE req[q].refused
      BY <2>5, <3>1, <3>2, KeepsSame, RowsEnd DEF Logins!UnbindCommit, Logins!tables
    <3>3. CASE ~req[q].refused
      <4>1. req[q] \in Unbinds /\ req[q].pc = "commit" /\ Sets(refresh', req[q].rows, "gone")
        BY <1>0, <2>5, <3>3, UnbindCommitDoes
      <4>2. \A r \in req[q].rows : Locks(req[q], r)
        BY <4>1 DEF Locks, Unbinds
      <4> QED
        BY <3>1, <4>1, <4>2, KeepsSet, RowsEnd
    <3> QED
      BY <3>2, <3>3
  <2>6. ASSUME NEW i \in Identities, Logins!BootPair(q, i) PROVE Good
    <3>1. Logins!End(q)
      BY <2>6 DEF Logins!BootPair
    <3> QED
      BY <1>0, <2>6, <3>1, BootPairDoes, KeepsNew, RowsEnd
  <2>7. ASSUME NEW i \in Identities, Logins!SignIn(q, i) PROVE Good
    <3>1. refresh' = refresh
      BY <2>7 DEF Logins!SignIn
    <3>2. Others(q) /\ req'[q].pc = "pair"
      BY <1>0, <2>7, SignInDoes
    <3> QED
      BY <3>1, <3>2, KeepsSame, HoldsNothing, OneHolderMove, RowsKept DEF RowInv
  <2>8. ASSUME NEW u \in CallIds, Logins!DeadlockVictim(q, u) PROVE Good
    <3>1. (Logins!End(q) \/ Logins!End(u)) /\ refresh' = refresh
      BY <2>8 DEF Logins!DeadlockVictim, Logins!tables
    <3> QED
      BY <3>1, KeepsSame, RowsEnd
  <2> QED
    BY <1>2, <2>1, <2>2, <2>3, <2>4, <2>5, <2>6, <2>7, <2>8 DEF Filling
<1>3. ASSUME Apart PROVE Good
  <2>1. req' = req
    BY <1>3 DEF Apart, Logins!IssueToken, Logins!Bind, Logins!SignInNative, Logins!Register,
       Logins!ExpireToken, Logins!ExpireRefresh, Logins!Sweep
  <2>2. CASE refresh' = refresh
    BY <2>1, <2>2, RowsApart
  <2>3. ASSUME NEW i \in Identities, Logins!SignInNative(i) PROVE Good
    <3>1. PICK rec : rec = Logins!Refreshing(i, Logins!NewSession, 0)
      OBVIOUS
    <3>2. rec.from = 0
      BY <3>1 DEF Logins!Refreshing
    <3>3. Adds(refresh, refresh', rec) /\ DOMAIN refresh \subseteq DOMAIN refresh'
      BY <1>0, <2>3, <3>1, SignInNativeDoes DEF NewRefresh
    <3>4. \A r \in DOMAIN refresh : refresh'[r] = refresh[r]
      BY <3>3 DEF Adds
    <3>5. \A r \in DOMAIN refresh' \ DOMAIN refresh : refresh'[r].from = 0
      BY <3>2, <3>3 DEF Adds
    <3> QED
      BY <2>1, <3>3, <3>4, <3>5, RowsApart
  <2>4. ASSUME NEW r \in DOMAIN refresh, Logins!ExpireRefresh(r) PROVE Good
    <3>1. Sets(refresh', {r}, "expired") /\ refresh[r].state = "active"
      BY <1>0, <2>4, ExpireRefreshDoes DEF Logins!ExpireRefresh
    <3>2. \A p \in CallIds : ~Locks(req[p], r)
      BY <2>4, HoldersAre DEF Logins!ExpireRefresh
    <3> QED
      BY <2>1, <3>1, <3>2, RowsApart DEF Sets, SameRefresh, Spent
  <2>5. ASSUME NEW r \in DOMAIN refresh, Logins!Sweep(r) PROVE Good
    <3>1. /\ Sets(refresh', {r}, Deleted(refresh[r])) /\ \A p \in CallIds : req[p] = Logins!Idle
          /\ refresh[r].state # "active"
      BY <1>0, <2>5, SweepDoes DEF Logins!Sweep
    <3>2. \A p \in CallIds : ~Locks(req[p], r)
      BY <3>1 DEF Locks, Logins!Idle
    <3> QED
      BY <2>1, <3>1, <3>2, RowsApart DEF Sets, SameRefresh, Spent, Deleted
  <2> QED
    BY <1>3, <2>2, <2>3, <2>4, <2>5 DEF Apart, Logins!IssueToken, Logins!Bind,
       Logins!Register, Logins!ExpireToken
<1>4. ASSUME UNCHANGED Logins!vars PROVE Good
  <2>1. req' = req /\ refresh' = refresh
    BY <1>4 DEF Logins!vars
  <2> QED
    BY <2>1, RowsApart
<1>5. Good
  BY <1>1, <1>2, <1>3, <1>4, NextIs
<1> QED
  BY <1>0, <1>5 DEF RowInv

\* A refresh token is rotated at most once, for any number of redemptions, replays,
\* revocations, unbinds, expiries and sweeps at once.
THEOREM RotationCorrect == ASSUME Logins!CredentialsAssumption PROVE Logins!Spec => []Logins!RotatedOnce
<1>1. Logins!Init => RowInv
  <2> SUFFICES ASSUME Logins!Init PROVE RowInv
    OBVIOUS
  <2>1. Typed
    BY InitTyped
  <2>2. OneLocker /\ Rotating
    BY DEF Logins!Init, Logins!Idle, OneLocker, Rotating, Locks
  <2>3. FromSpent /\ Logins!RotatedOnce
    BY DEF Logins!Init, FromSpent, Logins!RotatedOnce
  <2> QED
    BY <2>1, <2>2, <2>3 DEF RowInv
<1>2. RowInv /\ [Logins!Next]_Logins!vars => RowInv'
  BY NextRow
<1>3. RowInv => Logins!RotatedOnce
  BY DEF RowInv
<1> QED
  BY <1>1, <1>2, <1>3, PTL DEF Logins!Spec

-----------------------------------------------------------------------------
(* The owner can sign in *)

\* A call in the state t has the credential lock.
Locked(t) ==
  \/ t.op = "end" /\ t.pc \in {"select", "locking", "updating", "count", "commit"}
  \/ t.op = "unbind" /\ t.pc \in {"ident", "tokens", "rows", "count", "commit"}

LockOwned == \A q \in CallIds : Locked(req[q]) => credLock = q
BoundHeld == \A q \in CallIds : Locked(req[q]) /\ req[q].op = "unbind" => req[q].ident \in bound

LockInv == Typed /\ LockOwned /\ BoundHeld

\* The lock is taken while it is free, and given back by the call that has it.
NoneElse(q) == \A p \in CallIds : p # q => ~Locked(req[p])
LocksRight(q) ==
  /\ Locked(req'[q]) => credLock' = q
  /\ Locked(req'[q]) /\ req'[q].op = "unbind" => req'[q].ident \in bound'
  /\ (credLock' = credLock /\ bound \subseteq bound') \/ NoneElse(q)

LEMMA LockMove ==
  ASSUME LockInv, NEW q \in CallIds, Others(q), LocksRight(q)
  PROVE  LockOwned' /\ BoundHeld'
<1>1. ASSUME NEW p \in CallIds, Locked(req'[p])
      PROVE  credLock' = p /\ (req'[p].op = "unbind" => req'[p].ident \in bound')
  <2>1. CASE p = q
    BY <1>1, <2>1 DEF LocksRight
  <2>2. CASE p # q
    <3>1. req'[p] = req[p]
      BY <2>2 DEF Others
    <3>2. ~NoneElse(q)
      BY <1>1, <2>2, <3>1 DEF NoneElse
    <3>3. credLock' = credLock /\ bound \subseteq bound'
      BY <3>2 DEF LocksRight
    <3> QED
      BY <1>1, <3>1, <3>3 DEF LockInv, LockOwned, BoundHeld
  <2> QED
    BY <2>1, <2>2
<1> QED
  BY <1>1 DEF LockOwned, BoundHeld, Locked

LEMMA LockFree ==
  ASSUME Logins!CredentialsAssumption, LockInv, NEW q \in CallIds,
         credLock = NoIdentity \/ credLock = q
  PROVE  NoneElse(q)
BY DEF LockInv, LockOwned, NoneElse, Logins!CredentialsAssumption

\* A call that does not have the lock, or had it before, and leaves it alone.
LEMMA LocksAlone ==
  ASSUME LockInv, NEW q \in CallIds, credLock' = credLock, bound \subseteq bound',
         \/ req'[q].op \notin {"end", "unbind"} \/ req'[q].pc = "lock"
         \/ /\ Locked(req[q]) /\ req'[q].op = req[q].op
            /\ req[q].op = "unbind" => req'[q].ident = req[q].ident
  PROVE  LocksRight(q)
BY DEF LockInv, LockOwned, BoundHeld, LocksRight, Locked

LEMMA MovingLocks ==
  ASSUME Logins!CredentialsAssumption, LockInv, NEW q \in CallIds, Moving(q)
  PROVE  Others(q) /\ UNCHANGED Logins!tables /\ LocksRight(q)
<1>0. Typed
  BY DEF LockInv
<1>a. Others(q) /\ UNCHANGED Logins!tables
  <2>1. CASE Logins!BootLock(q)
    BY <1>0, <2>1, BootLockDoes DEF Logins!BootLock
  <2>2. CASE ~Logins!BootLock(q)
    BY <1>0, <2>2, MovingBoots
  <2> QED
    BY <2>1, <2>2
<1>b. bound' = bound
  BY <1>a DEF Logins!tables
<1>1. ASSUME Logins!BootLock(q) PROVE LocksRight(q)
  BY <1>0, <1>b, <1>1, BootLockDoes, LocksAlone DEF Logins!BootLock
<1>2. ASSUME Logins!RotateInsert(q) PROVE LocksRight(q)
  <2>1. req'[q].op = "rotate" /\ credLock' = credLock
    BY <1>0, <1>2, RotateInsertDoes DEF Logins!RotateInsert, Rotations
  <2> QED
    BY <1>b, <2>1, LocksAlone
<1>3. ASSUME Logins!EndLock(q) PROVE LocksRight(q)
  <2>1. credLock = NoIdentity /\ credLock' = q
    BY <1>3 DEF Logins!EndLock, Logins!CredentialsFree
  <2>2. NoneElse(q) /\ req'[q].op = "end"
    BY <1>0, <1>3, <2>1, LockFree, EndLockDoes DEF SameEnd
  <2> QED
    BY <2>1, <2>2 DEF LocksRight
<1>4. ASSUME Logins!EndSelect(q) PROVE LocksRight(q)
  <2>1. /\ credLock' = credLock /\ req[q].op = "end" /\ req[q].pc = "select" /\ req'[q].op = "end"
    BY <1>0, <1>4, EndSelectDoes DEF Logins!EndSelect, Ends, SameEnd
  <2> QED
    BY <1>b, <2>1, LocksAlone DEF Locked
<1>5. ASSUME Logins!EndUpdate(q) PROVE LocksRight(q)
  <2>1. /\ credLock' = credLock /\ req[q].op = "end" /\ req[q].pc = "locking" /\ req'[q].op = "end"
    BY <1>0, <1>5, EndUpdateDoes DEF Logins!EndUpdate, Ends, SameEnd
  <2> QED
    BY <1>b, <2>1, LocksAlone DEF Locked
<1>6. ASSUME Logins!EndCount(q) PROVE LocksRight(q)
  <2>1. /\ req[q] \in Ends /\ SameEnd(req[q], req'[q]) /\ req[q].pc \in {"count", "updating"}
    BY <1>0, <1>6, EndCountDoes
  <2>2. credLock' = credLock /\ req[q].op = "end" /\ req'[q].op = "end"
    BY <1>6, <2>1 DEF Logins!EndCount, SameEnd
  <2> QED
    BY <1>b, <2>1, <2>2, LocksAlone DEF Locked
<1>7. ASSUME Logins!UnbindLock(q) PROVE LocksRight(q)
  <2>1. CASE /\ req[q].ident \in bound /\ credLock' = q /\ SameUnbind(req[q], req'[q])
             /\ credLock = NoIdentity
    <3>1. NoneElse(q)
      BY <2>1, LockFree
    <3> QED
      BY <1>b, <2>1, <3>1 DEF LocksRight, SameUnbind
  <2>2. CASE credLock' = credLock /\ req'[q] = Logins!Idle
    BY <1>b, <2>2, LocksAlone DEF Logins!Idle
  <2> QED
    BY <1>0, <1>7, <2>1, <2>2, UnbindLockDoes
<1>8. ASSUME Logins!UnbindIdentity(q) PROVE LocksRight(q)
  <2>1. /\ credLock' = credLock /\ req[q].op = "unbind" /\ req[q].pc = "ident"
        /\ req'[q].op = "unbind" /\ req'[q].ident = req[q].ident
    BY <1>0, <1>8, UnbindIdentityDoes DEF Logins!UnbindIdentity, Unbinds, SameUnbind
  <2> QED
    BY <1>b, <2>1, LocksAlone DEF Locked
<1>9. ASSUME Logins!UnbindTokens(q) PROVE LocksRight(q)
  <2>1. req[q] \in Unbinds /\ SameUnbind(req[q], req'[q]) /\ req[q].pc = "tokens"
    BY <1>0, <1>9, UnbindTokensDoes
  <2>2. /\ credLock' = credLock /\ req[q].op = "unbind"
        /\ req'[q].op = "unbind" /\ req'[q].ident = req[q].ident
    BY <1>9, <2>1 DEF Logins!UnbindTokens, Unbinds, SameUnbind
  <2> QED
    BY <1>b, <2>1, <2>2, LocksAlone DEF Locked
<1>10. ASSUME Logins!UnbindRows(q) PROVE LocksRight(q)
  <2>1. /\ credLock' = credLock /\ req[q].op = "unbind" /\ req[q].pc = "rows"
        /\ req'[q].op = "unbind" /\ req'[q].ident = req[q].ident
    BY <1>0, <1>10, UnbindRowsDoes DEF Logins!UnbindRows, Unbinds, SameUnbind
  <2> QED
    BY <1>b, <2>1, LocksAlone DEF Locked
<1>11. ASSUME Logins!UnbindCount(q) PROVE LocksRight(q)
  <2>1. req[q] \in Unbinds /\ SameUnbind(req[q], req'[q]) /\ req[q].pc = "count"
    BY <1>0, <1>11, UnbindCountDoes
  <2>2. /\ credLock' = credLock /\ req[q].op = "unbind"
        /\ req'[q].op = "unbind" /\ req'[q].ident = req[q].ident
    BY <1>11, <2>1 DEF Logins!UnbindCount, SameUnbind
  <2> QED
    BY <1>b, <2>1, <2>2, LocksAlone DEF Locked
<1>12. ASSUME NEW i \in Identities, Logins!Unbind(q, i) PROVE LocksRight(q)
  <2>1. req'[q].pc = "lock" /\ credLock' = credLock
    BY <1>0, <1>12, UnbindDoes DEF Logins!Unbind
  <2> QED
    BY <1>b, <2>1, LocksAlone
<1>13. ASSUME NEW r \in DOMAIN refresh, Logins!Rotate(q, r) PROVE LocksRight(q)
  <2>1. req'[q].op = "rotate" /\ credLock' = credLock
    BY <1>0, <1>13, RotateDoes DEF Logins!Rotate
  <2> QED
    BY <1>b, <2>1, LocksAlone
<1>14. ASSUME NEW r \in DOMAIN refresh, Logins!Replay(q, r) PROVE LocksRight(q)
  <2>1. req'[q].pc = "lock" /\ credLock' = credLock
    BY <1>0, <1>14, ReplayDoes DEF Logins!Replay
  <2> QED
    BY <1>b, <2>1, LocksAlone
<1>15. ASSUME NEW r \in DOMAIN refresh, Logins!EndLockRow(q, r) PROVE LocksRight(q)
  <2>1. /\ credLock' = credLock /\ req[q].op = "end" /\ req[q].pc = "locking" /\ req'[q].op = "end"
    BY <1>0, <1>15, EndLockRowDoes DEF Logins!EndLockRow, Ends, SameEnd
  <2> QED
    BY <1>b, <2>1, LocksAlone DEF Locked
<1>16. ASSUME NEW r \in DOMAIN refresh, Logins!EndUpdateRow(q, r) PROVE LocksRight(q)
  <2>1. /\ credLock' = credLock /\ req[q].op = "end" /\ req[q].pc = "updating" /\ req'[q].op = "end"
    BY <1>0, <1>16, EndUpdateRowDoes DEF Logins!EndUpdateRow, Ends, SameEnd
  <2> QED
    BY <1>b, <2>1, LocksAlone DEF Locked
<1>17. ASSUME NEW k \in DOMAIN tokens, Logins!Revoke(q, k) PROVE LocksRight(q)
  <2>1. req'[q].pc = "lock" /\ credLock' = credLock
    BY <1>0, <1>17, RevokeDoes DEF Logins!Revoke
  <2> QED
    BY <1>b, <2>1, LocksAlone
<1>18. ASSUME NEW k \in DOMAIN tokens, Logins!MintStart(q, k) PROVE LocksRight(q)
  <2>1. req'[q].op = "mint" /\ credLock' = credLock
    BY <1>0, <1>18, MintStartDoes DEF Logins!MintStart
  <2> QED
    BY <1>b, <2>1, LocksAlone
<1> QED
  BY <1>a, <1>1, <1>2, <1>3, <1>4, <1>5, <1>6, <1>7, <1>8, <1>9, <1>10, <1>11, <1>12, <1>13,
     <1>14, <1>15, <1>16, <1>17, <1>18 DEF Moving

\* A commit is alone with the lock.
LEMMA CommitsAlone ==
  ASSUME Logins!CredentialsAssumption, LockInv, NEW q \in CallIds,
         Logins!EndCommit(q) \/ Logins!UnbindCommit(q)
  PROVE  NoneElse(q)
<1>1. Locked(req[q])
  BY DEF Logins!EndCommit, Logins!UnbindCommit, Locked
<1>2. credLock = q
  BY <1>1 DEF LockInv, LockOwned
<1> QED
  BY <1>2, LockFree

LEMMA NextLock == Logins!CredentialsAssumption /\ LockInv /\ [Logins!Next]_Logins!vars => LockInv'
<1> SUFFICES ASSUME Logins!CredentialsAssumption, LockInv,
                    [Logins!Next]_Logins!vars PROVE LockInv'
  OBVIOUS
<1>0. Typed /\ Typed'
  BY NextTyped DEF LockInv
<1> DEFINE Good == LockOwned' /\ BoundHeld'
<1>1. ASSUME NEW q \in CallIds, Moving(q) PROVE Good
  BY <1>1, MovingLocks, LockMove
<1>2. ASSUME NEW q \in CallIds, Filling(q) PROVE Good
  <2>1. CASE Logins!BootToken(q) \/ Logins!SignInPair(q) \/ Logins!RotateAccess(q) \/ Logins!MintInsert(q)
             \/ \E i \in Identities : Logins!BootPair(q, i)
    <3>1. Logins!End(q) /\ credLock' = credLock /\ bound \subseteq bound'
      BY <2>1 DEF Logins!BootToken, Logins!SignInPair, Logins!RotateAccess, Logins!MintInsert,
         Logins!BootPair
    <3>2. Others(q) /\ req'[q].op = "none"
      BY <1>0, <3>1, EndsCall DEF Logins!Idle
    <3> QED
      BY <3>1, <3>2, LocksAlone, LockMove
  <2>2. CASE Logins!RotateCommit(q)
    <3>1. Others(q) /\ req'[q].op = "rotate"
      BY <1>0, <2>2, RotateCommitDoes
    <3>2. credLock' = credLock /\ bound' = bound
      BY <2>2 DEF Logins!RotateCommit
    <3> QED
      BY <3>1, <3>2, LocksAlone, LockMove
  <2>3. CASE Logins!EndCommit(q) \/ Logins!UnbindCommit(q)
    <3>1. Logins!End(q)
      BY <2>3 DEF Logins!EndCommit, Logins!UnbindCommit
    <3>2. Others(q) /\ ~Locked(req'[q])
      BY <1>0, <3>1, EndsCall DEF Logins!Idle, Locked
    <3> QED
      BY <2>3, <3>2, CommitsAlone, LockMove DEF LocksRight
  <2>4. ASSUME NEW i \in Identities, Logins!SignIn(q, i) PROVE Good
    <3>1. Others(q) /\ req'[q].op = "signin"
      BY <1>0, <2>4, SignInDoes
    <3>2. credLock' = credLock /\ bound' = bound
      BY <2>4 DEF Logins!SignIn
    <3> QED
      BY <3>1, <3>2, LocksAlone, LockMove
  <2>5. ASSUME NEW u \in CallIds, Logins!DeadlockVictim(q, u) PROVE Good
    <3>0. bound' = bound
      BY <2>5 DEF Logins!DeadlockVictim, Logins!tables
    <3>1. CASE Logins!End(q) /\ credLock' = credLock
      <4>1. Others(q) /\ req'[q].op = "none"
        BY <1>0, <3>1, EndsCall DEF Logins!Idle
      <4> QED
        BY <3>0, <3>1, <4>1, LocksAlone, LockMove
    <3>2. CASE Logins!End(u) /\ credLock' = NoIdentity
      <4>1. Others(u) /\ ~Locked(req'[u])
        BY <1>0, <3>2, EndsCall DEF Logins!Idle, Locked
      <4>2. Locked(req[u])
        BY <2>5 DEF Logins!DeadlockVictim, Logins!Unbinding, Locked
      <4>3. NoneElse(u)
        BY <4>2, LockFree DEF LockInv, LockOwned
      <4> QED
        BY <4>1, <4>3, LockMove DEF LocksRight
    <3> QED
      BY <2>5, <3>1, <3>2 DEF Logins!DeadlockVictim
  <2> QED
    BY <1>2, <2>1, <2>2, <2>3, <2>4, <2>5 DEF Filling
<1>3. ASSUME Apart \/ UNCHANGED Logins!vars PROVE Good
  <2>1. req' = req /\ credLock' = credLock /\ bound \subseteq bound'
    BY <1>3 DEF Apart, Logins!IssueToken, Logins!Bind, Logins!SignInNative, Logins!Register,
       Logins!ExpireToken, Logins!ExpireRefresh, Logins!Sweep, Logins!vars
  <2> QED
    BY <2>1 DEF LockInv, LockOwned, BoundHeld
<1>4. Good
  BY <1>1, <1>2, <1>3, NextIs
<1> QED
  BY <1>0, <1>4 DEF LockInv

\* A token that signs the owner in by itself.
Lasting(rec) == rec.perm /\ rec.state = "live"

\* There has been a way to sign in.
Had == ever # {} \/ \E k \in DOMAIN tokens : tokens[k].perm

\* What the commit of a revocation, and of an unbind, will leave.
LeftByEnd(q) ==
  bound # {} \/ \E k \in DOMAIN tokens : k # req[q].token /\ Lasting(tokens[k])
LeftByUnbind(q) ==
  bound \ {req[q].ident} # {} \/ \E k \in DOMAIN tokens : k \notin req[q].doomed /\ Lasting(tokens[k])

LEMMA EndLeaves ==
  ASSUME Logins!CredentialsAssumption, Typed, NEW q \in CallIds, req[q] \in Ends
  PROVE  Logins!Survivor(Logins!Ended(q), bound) <=> LeftByEnd(q)
<1>1. PICK e : e = Logins!Ended(q)
  OBVIOUS
<1>2. DOMAIN e = DOMAIN tokens
  BY <1>1, EndedIs
<1>3. ASSUME NEW k \in DOMAIN tokens
      PROVE  (e[k].perm /\ e[k].state = "live") <=> (k # req[q].token /\ Lasting(tokens[k]))
  <2>1. /\ k # req[q].token => e[k] = tokens[k]
        /\ k = req[q].token => e[k].state = "revoked"
    BY <1>1, EndedIs
  <2> QED
    BY <2>1 DEF Lasting
<1> QED
  BY <1>1, <1>2, <1>3 DEF Logins!Survivor, LeftByEnd

LEMMA UnbindLeaves ==
  ASSUME Logins!CredentialsAssumption, Typed, NEW q \in CallIds, req[q] \in Unbinds
  PROVE  Logins!Survivor(Logins!Unbound(q), bound \ {req[q].ident}) <=> LeftByUnbind(q)
<1>1. PICK e : e = Logins!Unbound(q)
  OBVIOUS
<1>2. DOMAIN e = DOMAIN tokens
  BY <1>1, UnboundIs
<1>3. ASSUME NEW k \in DOMAIN tokens
      PROVE  (e[k].perm /\ e[k].state = "live") <=> (k \notin req[q].doomed /\ Lasting(tokens[k]))
  <2>1. /\ k \notin req[q].doomed => e[k] = tokens[k]
        /\ k \in req[q].doomed => e[k].state = "revoked"
    BY <1>1, UnboundIs
  <2> QED
    BY <2>1 DEF Lasting
<1> QED
  BY <1>1, <1>2, <1>3 DEF Logins!Survivor, LeftByUnbind

\* Every removal is guarded, except for the cut after a reuse, which removes no token; and what
\* a removal has counted is still there when it commits.
GuardOf(t) == /\ t.op = "unbind" => t.guarded
              /\ t.op = "end" => t.guarded \/ t.token = 0
Guards == \A q \in CallIds : GuardOf(req[q])
CountOf(q) == req[q].pc = "commit" /\ ~req[q].refused =>
                /\ req[q].op = "end" => (Had => LeftByEnd(q))
                /\ req[q].op = "unbind" => LeftByUnbind(q)
Counted == \A q \in CallIds : CountOf(q)

GuardInv == LockInv /\ Guards /\ Counted /\ Logins!OwnerCanSignIn

\* A step that takes no way to sign in.
Grows ==
  /\ bound \subseteq bound'
  /\ \A k \in DOMAIN tokens : Lasting(tokens[k]) => k \in DOMAIN tokens' /\ Lasting(tokens'[k])
  /\ Had' => Had \/ bound' # {} \/ \E k \in DOMAIN tokens' \ DOMAIN tokens : Lasting(tokens'[k])

LEMMA OwnerKept == ASSUME GuardInv, Grows PROVE Logins!OwnerCanSignIn'
<1>1. Had => Logins!Survivor(tokens, bound)
  BY DEF GuardInv, Logins!OwnerCanSignIn, Had
<1>2. Logins!Survivor(tokens, bound) => Logins!Survivor(tokens', bound')
  BY DEF Logins!Survivor, Grows, Lasting
<1>3. (Had \/ bound' # {} \/ \E k \in DOMAIN tokens' \ DOMAIN tokens : Lasting(tokens'[k])) =>
        Logins!Survivor(tokens', bound')
  BY <1>1, <1>2 DEF Logins!Survivor, Lasting
<1>4. Had' => Logins!Survivor(tokens', bound')
  BY <1>3 DEF Grows
<1> QED
  BY <1>4 DEF Logins!OwnerCanSignIn, Had

LEMMA CountKept ==
  ASSUME GuardInv, Typed', Grows, NEW p \in CallIds, req'[p] = req[p] PROVE CountOf(p)'
<1> SUFFICES ASSUME req[p].pc = "commit", ~req[p].refused
             PROVE  /\ req[p].op = "end" => (Had' => LeftByEnd(p)')
                    /\ req[p].op = "unbind" => LeftByUnbind(p)'
  BY DEF CountOf
<1>1. /\ req[p].op = "end" => (Had => LeftByEnd(p))
      /\ req[p].op = "unbind" => LeftByUnbind(p)
  BY DEF GuardInv, Counted, CountOf
<1>2. ASSUME req[p].op = "unbind" PROVE LeftByUnbind(p)'
  BY <1>1, <1>2 DEF LeftByUnbind, Grows
<1>3. ASSUME req[p].op = "end", Had' PROVE LeftByEnd(p)'
  <2>1. CASE Had
    BY <1>1, <1>3, <2>1 DEF LeftByEnd, Grows
  <2>2. CASE bound' # {}
    BY <2>2 DEF LeftByEnd
  <2>3. ASSUME NEW k \in DOMAIN tokens' \ DOMAIN tokens, Lasting(tokens'[k]) PROVE LeftByEnd(p)'
    <3>1. k # req[p].token
      <4>1. req[p].token = 0 \/ req[p].token \in DOMAIN tokens
        BY <1>3 DEF GuardInv, LockInv, Typed, Named
      <4>2. tokens' \in Seq(Logins!Tokens)
        BY DEF Typed, Logins!TypeOK
      <4>3. k # 0
        BY <2>3, <4>2
      <4> QED
        BY <2>3, <4>1, <4>3
    <3> QED
      BY <2>3, <3>1 DEF LeftByEnd
  <2> QED
    BY <1>3, <2>1, <2>2, <2>3 DEF Grows
<1> QED
  BY <1>2, <1>3

LEMMA GuardMove ==
  ASSUME GuardInv, Typed', Grows, NEW q \in CallIds, Others(q), GuardOf(req'[q]), CountOf(q)'
  PROVE  Guards' /\ Counted' /\ Logins!OwnerCanSignIn'
<1>1. ASSUME NEW p \in CallIds PROVE GuardOf(req'[p]) /\ CountOf(p)'
  <2>1. CASE p = q
    BY <2>1
  <2>2. CASE p # q
    <3>1. req'[p] = req[p]
      BY <2>2 DEF Others
    <3> QED
      BY <3>1, CountKept DEF GuardInv, Guards
  <2> QED
    BY <2>1, <2>2
<1> QED
  BY <1>1, OwnerKept DEF Guards, Counted

LEMMA GrowsSame == ASSUME tokens' = tokens, bound' = bound, ever' = ever PROVE Grows
BY DEF Grows, Had

LEMMA GrowsNew ==
  ASSUME NEW rec, NewToken(rec), rec.perm => rec.state = "live", bound \subseteq bound',
         ever' = ever \/ bound' # {}
  PROVE  Grows
<1>1. PICK n : n = Len(tokens) + 1
  OBVIOUS
<1>2. /\ n \notin DOMAIN tokens /\ DOMAIN tokens' = DOMAIN tokens \cup {n}
      /\ \A k \in DOMAIN tokens : tokens'[k] = tokens[k]
      /\ tokens'[n] = rec
  BY <1>1 DEF NewToken, Adds
<1>3. ASSUME Had', bound' = {}, ~\E k \in DOMAIN tokens' \ DOMAIN tokens : Lasting(tokens'[k])
      PROVE  Had
  <2>1. ~rec.perm
    BY <1>2, <1>3 DEF Lasting
  <2> QED
    BY <1>2, <1>3, <2>1 DEF Had
<1>4. \A k \in DOMAIN tokens : Lasting(tokens[k]) => k \in DOMAIN tokens' /\ Lasting(tokens'[k])
  BY <1>2
<1> QED
  BY <1>3, <1>4 DEF Grows

\* A call that has not counted has nothing to keep.
LEMMA NotCounted == ASSUME NEW q \in CallIds, req'[q].pc # "commit" PROVE CountOf(q)'
BY DEF CountOf

LEMMA EndCountGuards ==
  ASSUME Logins!CredentialsAssumption, GuardInv, NEW q \in CallIds, Logins!EndCount(q)
  PROVE  GuardOf(req'[q]) /\ CountOf(q)'
<1>0. Typed /\ GuardOf(req[q])
  BY DEF GuardInv, LockInv, Guards
<1>1. /\ req[q] \in Ends /\ SameEnd(req[q], req'[q])
      /\ req'[q].refused <=> /\ req[q].guarded /\ req[q].token # 0
                             /\ tokens[req[q].token].perm /\ tokens[req[q].token].state = "live"
                             /\ ~Logins!Survivor(Logins!Ended(q), bound)
  BY <1>0, EndCountDoes
<1>2. /\ req[q].op = "end" /\ req'[q].op = "end" /\ req'[q].token = req[q].token
      /\ req'[q].guarded = req[q].guarded
  BY <1>1 DEF Ends, SameEnd
<1>3. GuardOf(req'[q])
  BY <1>0, <1>2 DEF GuardOf
<1>4. tokens' = tokens /\ bound' = bound /\ ever' = ever
  BY DEF Logins!EndCount, Logins!tables
<1>5. LeftByEnd(q)' <=> LeftByEnd(q)
  BY <1>2, <1>4 DEF LeftByEnd
<1>6. Had' <=> Had
  BY <1>4 DEF Had
<1>7. ASSUME ~req'[q].refused, Had PROVE LeftByEnd(q)
  <2>1. bound # {} \/ \E k \in DOMAIN tokens : Lasting(tokens[k])
    BY <1>7 DEF GuardInv, Logins!OwnerCanSignIn, Had, Logins!Survivor, Lasting
  <2>2. CASE req[q].token = 0
    <3>1. 0 \notin DOMAIN tokens
      BY <1>0, Rows DEF Typed
    <3> QED
      BY <2>1, <2>2, <3>1 DEF LeftByEnd
  <2>3. CASE req[q].token # 0 /\ ~Lasting(tokens[req[q].token])
    BY <2>1, <2>3 DEF LeftByEnd
  <2>4. CASE req[q].token # 0 /\ Lasting(tokens[req[q].token])
    <3>1. req[q].guarded
      BY <1>0, <1>2, <2>4 DEF GuardOf
    <3>2. Logins!Survivor(Logins!Ended(q), bound)
      BY <1>1, <1>7, <2>4, <3>1 DEF Lasting
    <3> QED
      BY <1>0, <1>1, <3>2, EndLeaves
  <2> QED
    BY <2>2, <2>3, <2>4
<1>8. CountOf(q)'
  BY <1>2, <1>5, <1>6, <1>7 DEF CountOf
<1> QED
  BY <1>3, <1>8

LEMMA UnbindCountGuards ==
  ASSUME Logins!CredentialsAssumption, GuardInv, NEW q \in CallIds, Logins!UnbindCount(q)
  PROVE  GuardOf(req'[q]) /\ CountOf(q)'
<1>0. Typed /\ GuardOf(req[q])
  BY DEF GuardInv, LockInv, Guards
<1>1. /\ req[q] \in Unbinds /\ SameUnbind(req[q], req'[q]) /\ req'[q].doomed = req[q].doomed
      /\ req'[q].refused <=> req[q].guarded /\ ~Logins!Survivor(Logins!Unbound(q), bound \ {req[q].ident})
  BY <1>0, UnbindCountDoes
<1>2. /\ req[q].op = "unbind" /\ req'[q].op = "unbind" /\ req'[q].ident = req[q].ident
      /\ req'[q].guarded = req[q].guarded
  BY <1>1 DEF Unbinds, SameUnbind
<1>3. GuardOf(req'[q]) /\ req[q].guarded
  BY <1>0, <1>2 DEF GuardOf
<1>4. tokens' = tokens /\ bound' = bound
  BY DEF Logins!UnbindCount, Logins!tables
<1>5. LeftByUnbind(q)' <=> LeftByUnbind(q)
  BY <1>1, <1>2, <1>4 DEF LeftByUnbind
<1>6. ~req'[q].refused => LeftByUnbind(q)
  BY <1>0, <1>1, <1>3, UnbindLeaves
<1>7. CountOf(q)'
  BY <1>2, <1>5, <1>6 DEF CountOf
<1> QED
  BY <1>3, <1>7

LEMMA SameEndGuards ==
  ASSUME GuardInv, NEW q \in CallIds, req[q] \in Ends, SameEnd(req[q], req'[q])
  PROVE  GuardOf(req'[q])
<1>1. GuardOf(req[q])
  BY DEF GuardInv, Guards
<1> QED
  BY <1>1 DEF GuardOf, Ends, SameEnd

LEMMA SameUnbindGuards ==
  ASSUME GuardInv, NEW q \in CallIds, req[q] \in Unbinds, SameUnbind(req[q], req'[q])
  PROVE  GuardOf(req'[q])
<1>1. GuardOf(req[q])
  BY DEF GuardInv, Guards
<1> QED
  BY <1>1 DEF GuardOf, Unbinds, SameUnbind

LEMMA MovingGuards ==
  ASSUME Logins!CredentialsAssumption, "unguarded" \notin Calls, GuardInv, NEW q \in CallIds,
         Moving(q)
  PROVE  GuardOf(req'[q]) /\ CountOf(q)'
<1> DEFINE Good == GuardOf(req'[q]) /\ CountOf(q)'
<1>0. Typed
  BY DEF GuardInv, LockInv
<1>1. ASSUME Logins!BootLock(q) PROVE Good
  <2>1. req'[q].op = "boot" /\ req'[q].pc = "boot"
    BY <1>0, <1>1, BootLockDoes
  <2> QED
    BY <2>1, NotCounted DEF GuardOf
<1>2. ASSUME Logins!RotateInsert(q) PROVE Good
  <2>1. req'[q].op = "rotate" /\ req'[q].pc = "rotated"
    BY <1>0, <1>2, RotateInsertDoes DEF Rotations
  <2> QED
    BY <2>1, NotCounted DEF GuardOf
<1>3. ASSUME Logins!EndLock(q) PROVE Good
  <2>1. req[q] \in Ends /\ SameEnd(req[q], req'[q]) /\ req'[q].pc \in {"count", "select"}
    BY <1>0, <1>3, EndLockDoes
  <2> QED
    BY <2>1, NotCounted, SameEndGuards
<1>4. ASSUME Logins!EndSelect(q) PROVE Good
  <2>1. req[q] \in Ends /\ SameEnd(req[q], req'[q]) /\ req'[q].pc = "locking"
    BY <1>0, <1>4, EndSelectDoes
  <2> QED
    BY <2>1, NotCounted, SameEndGuards
<1>5. ASSUME Logins!EndUpdate(q) PROVE Good
  <2>1. req[q] \in Ends /\ SameEnd(req[q], req'[q]) /\ req'[q].pc = "updating"
    BY <1>0, <1>5, EndUpdateDoes
  <2> QED
    BY <2>1, NotCounted, SameEndGuards
<1>6. ASSUME Logins!EndCount(q) PROVE Good
  BY <1>6, EndCountGuards
<1>7. ASSUME Logins!UnbindLock(q) PROVE Good
  <2>1. /\ req[q] \in Unbinds
        /\ (SameUnbind(req[q], req'[q]) /\ req'[q].pc = "ident") \/ req'[q] = Logins!Idle
    BY <1>0, <1>7, UnbindLockDoes
  <2>2. CASE SameUnbind(req[q], req'[q]) /\ req'[q].pc = "ident"
    BY <2>1, <2>2, NotCounted, SameUnbindGuards
  <2>3. CASE req'[q] = Logins!Idle
    <3>1. req'[q].op = "none" /\ req'[q].pc = "idle"
      BY <2>3 DEF Logins!Idle
    <3> QED
      BY <3>1, NotCounted DEF GuardOf
  <2> QED
    BY <2>1, <2>2, <2>3
<1>8. ASSUME Logins!UnbindIdentity(q) PROVE Good
  <2>1. req[q] \in Unbinds /\ SameUnbind(req[q], req'[q]) /\ req'[q].pc = "tokens"
    BY <1>0, <1>8, UnbindIdentityDoes
  <2> QED
    BY <2>1, NotCounted, SameUnbindGuards
<1>9. ASSUME Logins!UnbindTokens(q) PROVE Good
  <2>1. req[q] \in Unbinds /\ SameUnbind(req[q], req'[q]) /\ req'[q].pc = "rows"
    BY <1>0, <1>9, UnbindTokensDoes
  <2> QED
    BY <2>1, NotCounted, SameUnbindGuards
<1>10. ASSUME Logins!UnbindRows(q) PROVE Good
  <2>1. req[q] \in Unbinds /\ SameUnbind(req[q], req'[q]) /\ req'[q].pc = "count"
    BY <1>0, <1>10, UnbindRowsDoes
  <2> QED
    BY <2>1, NotCounted, SameUnbindGuards
<1>11. ASSUME Logins!UnbindCount(q) PROVE Good
  BY <1>11, UnbindCountGuards
<1>12. ASSUME NEW i \in Identities, Logins!Unbind(q, i) PROVE Good
  <2>1. req'[q].op = "unbind" /\ req'[q].pc = "lock" /\ req'[q].guarded
    BY <1>0, <1>12, UnbindDoes
  <2> QED
    BY <2>1, NotCounted DEF GuardOf
<1>13. ASSUME NEW r \in DOMAIN refresh, Logins!Rotate(q, r) PROVE Good
  <2>1. req'[q].op = "rotate" /\ req'[q].pc = "fk"
    BY <1>0, <1>13, RotateDoes
  <2> QED
    BY <2>1, NotCounted DEF GuardOf
<1>14. ASSUME NEW r \in DOMAIN refresh, Logins!Replay(q, r) PROVE Good
  <2>1. req'[q].op = "end" /\ req'[q].pc = "lock" /\ req'[q].token = 0
    BY <1>0, <1>14, ReplayDoes
  <2> QED
    BY <2>1, NotCounted DEF GuardOf
<1>15. ASSUME NEW r \in DOMAIN refresh, Logins!EndLockRow(q, r) PROVE Good
  <2>1. req[q] \in Ends /\ SameEnd(req[q], req'[q]) /\ req'[q].pc = "locking"
    BY <1>0, <1>15, EndLockRowDoes
  <2> QED
    BY <2>1, NotCounted, SameEndGuards
<1>16. ASSUME NEW r \in DOMAIN refresh, Logins!EndUpdateRow(q, r) PROVE Good
  <2>1. req[q] \in Ends /\ SameEnd(req[q], req'[q]) /\ req'[q].pc = "updating"
    BY <1>0, <1>16, EndUpdateRowDoes
  <2> QED
    BY <2>1, NotCounted, SameEndGuards
<1>17. ASSUME NEW k \in DOMAIN tokens, Logins!Revoke(q, k) PROVE Good
  <2>1. req'[q].op = "end" /\ req'[q].pc = "lock" /\ req'[q].guarded
    BY <1>0, <1>17, RevokeDoes
  <2> QED
    BY <2>1, NotCounted DEF GuardOf
<1>18. ASSUME NEW k \in DOMAIN tokens, Logins!MintStart(q, k) PROVE Good
  <2>1. req'[q].op = "mint" /\ req'[q].pc = "insert"
    BY <1>0, <1>18, MintStartDoes
  <2> QED
    BY <2>1, NotCounted DEF GuardOf
<1> QED
  BY <1>1, <1>2, <1>3, <1>4, <1>5, <1>6, <1>7, <1>8, <1>9, <1>10, <1>11, <1>12, <1>13, <1>14,
     <1>15, <1>16, <1>17, <1>18 DEF Moving

\* A commit that is not refused leaves what was counted; no other removal has counted.
LEMMA CommitGuards ==
  ASSUME Logins!CredentialsAssumption, GuardInv, NEW q \in CallIds, Others(q),
         req'[q] = Logins!Idle,
         NoneElse(q), Logins!OwnerCanSignIn'
  PROVE  Guards' /\ Counted' /\ Logins!OwnerCanSignIn'
<1>1. ASSUME NEW p \in CallIds PROVE GuardOf(req'[p]) /\ CountOf(p)'
  <2>1. CASE p = q
    <3>1. req'[p].op = "none" /\ req'[p].pc = "idle"
      BY <2>1 DEF Logins!Idle
    <3> QED
      BY <3>1, NotCounted DEF GuardOf
  <2>2. CASE p # q
    <3>1. req'[p] = req[p] /\ ~Locked(req[p]) /\ GuardOf(req[p])
      BY <2>2 DEF Others, NoneElse, GuardInv, Guards
    <3>2. req[p].pc = "commit" => req[p].op \notin {"end", "unbind"}
      BY <3>1 DEF Locked
    <3> QED
      BY <3>1, <3>2 DEF CountOf
  <2> QED
    BY <2>1, <2>2
<1> QED
  BY <1>1 DEF Guards, Counted

LEMMA EndCommitLeaves ==
  ASSUME Logins!CredentialsAssumption, GuardInv, NEW q \in CallIds, Logins!EndCommit(q),
         ~req[q].refused
  PROVE  Logins!OwnerCanSignIn'
<1>0. Typed
  BY DEF GuardInv, LockInv
<1>1. req[q] \in Ends /\ req[q].pc = "commit" /\ tokens' = Logins!Ended(q)
  BY <1>0, EndCommitDoes
<1>2. bound' = bound /\ ever' = ever
  BY DEF Logins!EndCommit
<1>3. /\ DOMAIN tokens' = DOMAIN tokens
      /\ \A k \in DOMAIN tokens : tokens'[k].perm = tokens[k].perm
  BY <1>0, <1>1, EndedIs DEF Same
<1>4. Had' => Had
  BY <1>2, <1>3 DEF Had
<1>5. Had => LeftByEnd(q)
  BY <1>1 DEF GuardInv, Counted, CountOf, Ends
<1>6. Had' => Logins!Survivor(tokens', bound')
  BY <1>0, <1>1, <1>2, <1>4, <1>5, EndLeaves
<1> QED
  BY <1>6 DEF Logins!OwnerCanSignIn, Had

LEMMA UnbindCommitLeaves ==
  ASSUME Logins!CredentialsAssumption, GuardInv, NEW q \in CallIds, Logins!UnbindCommit(q),
         ~req[q].refused
  PROVE  Logins!OwnerCanSignIn'
<1>0. Typed
  BY DEF GuardInv, LockInv
<1>1. /\ req[q] \in Unbinds /\ req[q].pc = "commit" /\ tokens' = Logins!Unbound(q)
      /\ bound' = bound \ {req[q].ident}
  BY <1>0, UnbindCommitDoes
<1>2. LeftByUnbind(q)
  BY <1>1 DEF GuardInv, Counted, CountOf, Unbinds
<1>3. Logins!Survivor(tokens', bound')
  BY <1>0, <1>1, <1>2, UnbindLeaves
<1> QED
  BY <1>3 DEF Logins!OwnerCanSignIn

LEMMA GuardEnd ==
  ASSUME Logins!CredentialsAssumption, GuardInv, Typed', Grows, NEW q \in CallIds, Logins!End(q)
  PROVE  Guards' /\ Counted' /\ Logins!OwnerCanSignIn'
<1>1. Others(q) /\ req'[q] = Logins!Idle
  BY EndsCall DEF GuardInv, LockInv
<1>2. req'[q].op = "none" /\ req'[q].pc = "idle"
  BY <1>1 DEF Logins!Idle
<1>3. GuardOf(req'[q]) /\ CountOf(q)'
  BY <1>2, NotCounted DEF GuardOf
<1> QED
  BY <1>1, <1>3, GuardMove

LEMMA GuardRest ==
  ASSUME GuardInv, Typed', Grows, req' = req PROVE Guards' /\ Counted' /\ Logins!OwnerCanSignIn'
<1>1. ASSUME NEW p \in CallIds PROVE CountOf(p)'
  BY CountKept
<1> QED
  BY <1>1, OwnerKept DEF GuardInv, Guards, Counted

LEMMA WritingGuards ==
  ASSUME Logins!CredentialsAssumption, GuardInv, Typed', NEW q \in CallIds, Filling(q)
  PROVE  Guards' /\ Counted' /\ Logins!OwnerCanSignIn'
<1> DEFINE Good == Guards' /\ Counted' /\ Logins!OwnerCanSignIn'
<1>0. Typed /\ LockInv
  BY DEF GuardInv, LockInv
<1>1. ASSUME Logins!BootToken(q) PROVE Good
  <2>1. NewToken(Logins!Permanent(0, NoIdentity, TRUE)) /\ Logins!Permanent(0, NoIdentity, TRUE).state = "live"
    BY <1>0, <1>1, BootTokenDoes DEF Logins!Permanent
  <2>2. Logins!End(q) /\ bound' = bound /\ ever' = ever
    BY <1>1 DEF Logins!BootToken
  <2>3. Grows
    BY <2>1, <2>2, GrowsNew
  <2> QED
    BY <2>2, <2>3, GuardEnd
<1>2. ASSUME Logins!SignInPair(q) PROVE Good
  <2>1. Logins!End(q) /\ tokens' = tokens /\ bound' = bound /\ ever' = ever
    BY <1>2 DEF Logins!SignInPair
  <2> QED
    BY <2>1, GrowsSame, GuardEnd
<1>3. ASSUME Logins!RotateCommit(q) PROVE Good
  <2>1. Others(q) /\ req'[q].op = "rotate" /\ req'[q].pc = "access"
    BY <1>0, <1>3, RotateCommitDoes
  <2>2. tokens' = tokens /\ bound' = bound /\ ever' = ever
    BY <1>3 DEF Logins!RotateCommit
  <2>3. GuardOf(req'[q]) /\ CountOf(q)'
    BY <2>1, NotCounted DEF GuardOf
  <2> QED
    BY <2>1, <2>2, <2>3, GrowsSame, GuardMove
<1>4. ASSUME Logins!RotateAccess(q) PROVE Good
  <2>1. \/ NewToken(Logins!Access(req[q].ident, req[q].session))
        \/ tokens' = tokens
    BY <1>0, <1>4, RotateAccessDoes
  <2>2. Logins!End(q) /\ bound' = bound /\ ever' = ever
    BY <1>4 DEF Logins!RotateAccess
  <2>3. ~Logins!Access(req[q].ident, req[q].session).perm
    BY DEF Logins!Access
  <2>4. Grows
    BY <2>1, <2>2, <2>3, GrowsNew, GrowsSame
  <2> QED
    BY <2>2, <2>4, GuardEnd
<1>5. ASSUME Logins!EndCommit(q) PROVE Good
  <2>1. Logins!End(q) /\ bound' = bound /\ ever' = ever
    BY <1>5 DEF Logins!EndCommit
  <2>2. ASSUME req[q].refused PROVE Good
    <3>1. tokens' = tokens
      BY <1>5, <2>2 DEF Logins!EndCommit
    <3> QED
      BY <2>1, <3>1, GrowsSame, GuardEnd
  <2>3. ASSUME ~req[q].refused PROVE Good
    <3>1. Others(q) /\ req'[q] = Logins!Idle
      BY <1>0, <2>1, EndsCall
    <3> QED
      BY <1>0, <1>5, <2>3, <3>1, CommitsAlone, EndCommitLeaves, CommitGuards
  <2> QED
    BY <2>2, <2>3
<1>6. ASSUME Logins!UnbindCommit(q) PROVE Good
  <2>1. Logins!End(q)
    BY <1>6 DEF Logins!UnbindCommit
  <2>2. ASSUME req[q].refused PROVE Good
    <3>1. tokens' = tokens /\ bound' = bound /\ ever' = ever
      BY <1>6, <2>2 DEF Logins!UnbindCommit, Logins!tables
    <3> QED
      BY <2>1, <3>1, GrowsSame, GuardEnd
  <2>3. ASSUME ~req[q].refused PROVE Good
    <3>1. Others(q) /\ req'[q] = Logins!Idle
      BY <1>0, <2>1, EndsCall
    <3> QED
      BY <1>0, <1>6, <2>3, <3>1, CommitsAlone, UnbindCommitLeaves, CommitGuards
  <2> QED
    BY <2>2, <2>3
<1>7. ASSUME Logins!MintInsert(q) PROVE Good
  <2>1. PICK rec : rec = Logins!Permanent(req[q].parent, tokens[req[q].parent].root, FALSE)
    OBVIOUS
  <2>2. NewToken(rec) /\ rec.state = "live"
    <3>1. NewToken(rec)
      BY <1>0, <1>7, <2>1, MintInsertDoes
    <3>2. rec.state = "live"
      BY <2>1 DEF Logins!Permanent
    <3> QED
      BY <3>1, <3>2
  <2>3. Logins!End(q) /\ bound' = bound /\ ever' = ever
    BY <1>7 DEF Logins!MintInsert
  <2>4. Grows
    BY <2>2, <2>3, GrowsNew
  <2> QED
    BY <2>3, <2>4, GuardEnd
<1>8. ASSUME NEW i \in Identities, Logins!BootPair(q, i) PROVE Good
  <2>1. PICK rec : rec = [Logins!Access(i, Logins!NewSession) EXCEPT !.boot = TRUE]
    OBVIOUS
  <2>2. NewToken(rec)
    BY <1>0, <1>8, <2>1, BootPairDoes
  <2>3. ~rec.perm
    BY <2>1 DEF Logins!Access
  <2>4. Logins!End(q) /\ bound' = bound \cup {i}
    BY <1>8 DEF Logins!BootPair
  <2>5. Grows
    BY <2>2, <2>3, <2>4, GrowsNew
  <2> QED
    BY <2>4, <2>5, GuardEnd
<1>9. ASSUME NEW i \in Identities, Logins!SignIn(q, i) PROVE Good
  <2>1. PICK rec : rec = Logins!Access(i, Logins!NewSession)
    OBVIOUS
  <2>2. NewToken(rec) /\ Others(q) /\ req'[q].op = "signin" /\ req'[q].pc = "pair"
    BY <1>0, <1>9, <2>1, SignInDoes
  <2>3. ~rec.perm
    BY <2>1 DEF Logins!Access
  <2>4. bound' = bound /\ ever' = ever
    BY <1>9 DEF Logins!SignIn
  <2>5. Grows
    BY <2>2, <2>3, <2>4, GrowsNew
  <2>6. GuardOf(req'[q]) /\ CountOf(q)'
    BY <2>2, NotCounted DEF GuardOf
  <2> QED
    BY <2>2, <2>5, <2>6, GuardMove
<1>10. ASSUME NEW u \in CallIds, Logins!DeadlockVictim(q, u) PROVE Good
  <2>1. Logins!End(q) \/ Logins!End(u)
    BY <1>10 DEF Logins!DeadlockVictim
  <2>2. tokens' = tokens /\ bound' = bound /\ ever' = ever
    BY <1>10 DEF Logins!DeadlockVictim, Logins!tables
  <2> QED
    BY <2>1, <2>2, GrowsSame, GuardEnd
<1> QED
  BY <1>1, <1>2, <1>3, <1>4, <1>5, <1>6, <1>7, <1>8, <1>9, <1>10 DEF Filling

LEMMA ApartGrows == ASSUME Logins!CredentialsAssumption, Typed, Apart PROVE Grows /\ req' = req
<1>0. req' = req
  BY DEF Apart, Logins!IssueToken, Logins!Bind, Logins!SignInNative, Logins!Register,
     Logins!ExpireToken, Logins!ExpireRefresh, Logins!Sweep
<1>1. ASSUME Logins!IssueToken PROVE Grows
  <2>1. NewToken(Logins!Permanent(0, NoIdentity, FALSE)) /\ Logins!Permanent(0, NoIdentity, FALSE).state = "live"
    BY <1>1, IssueTokenDoes DEF Logins!Permanent
  <2>2. bound' = bound /\ ever' = ever
    BY <1>1 DEF Logins!IssueToken
  <2> QED
    BY <2>1, <2>2, GrowsNew
<1>2. ASSUME NEW i \in Identities, Logins!Bind(i) PROVE Grows
  BY <1>2 DEF Logins!Bind, Grows
<1>3. ASSUME NEW i \in Identities, Logins!SignInNative(i) PROVE Grows
  <2>1. PICK rec : rec = Logins!Access(i, Logins!NewSession)
    OBVIOUS
  <2>2. NewToken(rec)
    BY <1>3, <2>1, SignInNativeDoes
  <2>3. ~rec.perm
    BY <2>1 DEF Logins!Access
  <2>4. bound' = bound /\ ever' = ever
    BY <1>3 DEF Logins!SignInNative
  <2> QED
    BY <2>2, <2>3, <2>4, GrowsNew
<1>4. ASSUME NEW k \in DOMAIN tokens, Logins!Register(k) PROVE Grows
  BY <1>4, GrowsSame DEF Logins!Register
<1>5. ASSUME NEW k \in DOMAIN tokens, Logins!ExpireToken(k) PROVE Grows
  <2>1. /\ DOMAIN tokens' = DOMAIN tokens
        /\ \A j \in DOMAIN tokens : /\ tokens'[j].perm = tokens[j].perm
                                    /\ tokens[j].perm => tokens'[j] = tokens[j]
    BY <1>5, ExpireTokenDoes DEF Same
  <2>2. bound' = bound /\ ever' = ever
    BY <1>5 DEF Logins!ExpireToken
  <2>3. Had' => Had
    BY <2>1, <2>2 DEF Had
  <2> QED
    BY <2>1, <2>2, <2>3 DEF Grows, Lasting
<1>6. ASSUME NEW r \in DOMAIN refresh, Logins!ExpireRefresh(r) \/ Logins!Sweep(r) PROVE Grows
  BY <1>6, GrowsSame DEF Logins!ExpireRefresh, Logins!Sweep
<1> QED
  BY <1>0, <1>1, <1>2, <1>3, <1>4, <1>5, <1>6 DEF Apart

LEMMA NextGuard ==
  ASSUME Logins!CredentialsAssumption, "unguarded" \notin Calls, GuardInv,
         [Logins!Next]_Logins!vars
  PROVE  GuardInv'
<1> DEFINE Good == Guards' /\ Counted' /\ Logins!OwnerCanSignIn'
<1>0. Typed /\ LockInv /\ LockInv' /\ Typed'
  BY NextLock DEF GuardInv, LockInv
<1>1. ASSUME NEW q \in CallIds, Moving(q) PROVE Good
  <2>1. Others(q) /\ UNCHANGED Logins!tables
    BY <1>0, <1>1, MovingLocks
  <2>2. Grows
    BY <2>1, GrowsSame DEF Logins!tables
  <2> QED
    BY <1>0, <1>1, <2>1, <2>2, MovingGuards, GuardMove
<1>2. ASSUME NEW q \in CallIds, Filling(q) PROVE Good
  BY <1>0, <1>2, WritingGuards
<1>3. ASSUME Apart PROVE Good
  BY <1>0, <1>3, ApartGrows, GuardRest
<1>4. ASSUME UNCHANGED Logins!vars PROVE Good
  <2>1. Grows /\ req' = req
    BY <1>4, GrowsSame DEF Logins!vars
  <2> QED
    BY <1>0, <2>1, GuardRest
<1>5. Good
  BY <1>1, <1>2, <1>3, <1>4, NextIs
<1> QED
  BY <1>0, <1>5 DEF GuardInv

LEMMA InitLock == Logins!CredentialsAssumption /\ Logins!Init => LockInv
<1> SUFFICES ASSUME Logins!CredentialsAssumption, Logins!Init PROVE LockInv
  OBVIOUS
<1>1. \A q \in CallIds : req[q].op = "none" /\ req[q].pc = "idle"
  BY DEF Logins!Init, Logins!Idle
<1> QED
  BY <1>1, InitTyped DEF LockInv, LockOwned, BoundHeld, Locked

LEMMA InitGuard == Logins!CredentialsAssumption /\ Logins!Init => GuardInv
<1> SUFFICES ASSUME Logins!CredentialsAssumption, Logins!Init PROVE GuardInv
  OBVIOUS
<1>1. \A q \in CallIds : req[q].op = "none" /\ req[q].pc = "idle"
  BY DEF Logins!Init, Logins!Idle
<1>2. Guards /\ Counted
  BY <1>1 DEF Guards, GuardOf, Counted, CountOf
<1>3. Logins!OwnerCanSignIn
  BY DEF Logins!Init, Logins!OwnerCanSignIn
<1> QED
  BY <1>2, <1>3, InitLock DEF GuardInv

\* Where every removal is the guarded one (revoke_token_unless_last_credential and
\* delete_identity_unless_last_credential, the management API's), an owner who has had a way to
\* sign in keeps one, however revocations, unbinds and the cuts after a reuse interleave with
\* sign-ins, rotations and mints: what a removal has counted as the survivor is still there when
\* it commits, because it holds CREDENTIAL_LOCK_KEY.
THEOREM OwnerCorrect ==
  ASSUME Logins!CredentialsAssumption, "unguarded" \notin Calls
  PROVE  Logins!Spec => []Logins!OwnerCanSignIn
<1>1. Logins!Init => GuardInv
  BY InitGuard
<1>2. GuardInv /\ [Logins!Next]_Logins!vars => GuardInv'
  BY NextGuard
<1>3. GuardInv => Logins!OwnerCanSignIn
  BY DEF GuardInv
<1> QED
  BY <1>1, <1>2, <1>3, PTL DEF Logins!Spec

-----------------------------------------------------------------------------
(* A registered session is backed *)

\* What backs a session in the given tables.
Backing == {"active", "expired", "lapsed"}
BackedIn(ts, rs, s) ==
  \/ \E k \in DOMAIN ts : ts[k].session = s /\ Lasting(ts[k])
  \/ \E r \in DOMAIN rs : rs[r].session = s /\ rs[r].state \in Backing

LEMMA RegisteredIs == Logins!RegisteredIsBacked <=> \A s \in regs : BackedIn(tokens, refresh, s)
BY DEF Logins!RegisteredIsBacked, BackedIn, Backing, Lasting

LEMMA RegisteredIsNext == Logins!RegisteredIsBacked' <=> \A s \in regs' : BackedIn(tokens', refresh', s)
BY DEF Logins!RegisteredIsBacked, BackedIn, Backing, Lasting

\* A step that ends no backing of a session that stays registered.
TokensBack(s) == \A k \in DOMAIN tokens : tokens[k].session = s /\ Lasting(tokens[k]) =>
                   k \in DOMAIN tokens' /\ tokens'[k].session = s /\ Lasting(tokens'[k])
RowsBack(s) == \A r \in DOMAIN refresh : refresh[r].session = s /\ refresh[r].state \in Backing =>
                 \E n \in DOMAIN refresh' : refresh'[n].session = s /\ refresh'[n].state \in Backing

LEMMA BackedStill ==
  ASSUME Logins!RegisteredIsBacked, regs' \subseteq regs,
         \A s \in regs' : TokensBack(s) /\ RowsBack(s)
  PROVE  Logins!RegisteredIsBacked'
<1>1. ASSUME NEW s \in regs' PROVE BackedIn(tokens', refresh', s)
  <2>1. BackedIn(tokens, refresh, s) /\ TokensBack(s) /\ RowsBack(s)
    BY <1>1, RegisteredIs
  <2> QED
    BY <2>1 DEF BackedIn, TokensBack, RowsBack
<1> QED
  BY <1>1, RegisteredIsNext

LEMMA TokensSame == ASSUME NEW s, tokens' = tokens PROVE TokensBack(s)
BY DEF TokensBack

LEMMA TokensNew == ASSUME NEW s, NEW rec, NewToken(rec) PROVE TokensBack(s)
BY DEF TokensBack, NewToken, Adds

LEMMA RowsSame == ASSUME NEW s, refresh' = refresh PROVE RowsBack(s)
BY DEF RowsBack, Backing

LEMMA RowsNew == ASSUME NEW s, NEW rec, NewRefresh(rec) PROVE RowsBack(s)
BY DEF RowsBack, Backing, NewRefresh, Adds

LEMMA WritingBacks ==
  ASSUME Logins!CredentialsAssumption, Typed, Logins!RegisteredIsBacked, NEW q \in CallIds,
         Filling(q)
  PROVE  Logins!RegisteredIsBacked'
<1> DEFINE Good == Logins!RegisteredIsBacked'
<1>1. ASSUME Logins!BootToken(q) PROVE Good
  <2>1. NewToken(Logins!Permanent(0, NoIdentity, TRUE)) /\ refresh' = refresh /\ regs' = regs
    BY <1>1, BootTokenDoes DEF Logins!BootToken
  <2> QED
    BY <2>1, TokensNew, RowsSame, BackedStill
<1>2. ASSUME Logins!SignInPair(q) PROVE Good
  <2>1. tokens' = tokens /\ regs' = regs
    BY <1>2 DEF Logins!SignInPair
  <2>2. NewRefresh(Logins!Refreshing(req[q].ident, req[q].session, 0)) \/ refresh' = refresh
    BY <1>2, SignInPairDoes
  <2>3. \A s : RowsBack(s)
    BY <2>2, RowsNew, RowsSame
  <2> QED
    BY <2>1, <2>3, TokensSame, BackedStill
<1>3. ASSUME Logins!RotateCommit(q) PROVE Good
  <2>1. PICK n, o : n = Len(refresh) + 1 /\ o = req[q].row
    OBVIOUS
  <2>2. /\ o \in DOMAIN refresh /\ DOMAIN refresh' = DOMAIN refresh \cup {n}
        /\ \A r \in DOMAIN refresh : r # o => refresh'[r] = refresh[r]
        /\ refresh'[n] = Logins!Refreshing(refresh[o].ident, refresh[o].session, o)
    BY <1>3, <2>1, RotateCommitDoes
  <2>3. refresh'[n].session = refresh[o].session /\ refresh'[n].state = "active"
    BY <2>2 DEF Logins!Refreshing
  <2>4. \A s : RowsBack(s)
    BY <2>2, <2>3 DEF RowsBack, Backing
  <2>5. tokens' = tokens /\ regs' = regs
    BY <1>3 DEF Logins!RotateCommit
  <2> QED
    BY <2>4, <2>5, TokensSame, BackedStill
<1>4. ASSUME Logins!RotateAccess(q) PROVE Good
  <2>1. refresh' = refresh /\ regs' = regs
    BY <1>4 DEF Logins!RotateAccess
  <2>2. NewToken(Logins!Access(req[q].ident, req[q].session)) \/ tokens' = tokens
    BY <1>4, RotateAccessDoes
  <2>3. \A s : TokensBack(s)
    BY <2>2, TokensNew, TokensSame
  <2> QED
    BY <2>1, <2>3, RowsSame, BackedStill
<1>5. ASSUME Logins!EndCommit(q) PROVE Good
  <2>1. ASSUME req[q].refused PROVE Good
    <3>1. tokens' = tokens /\ refresh' = refresh /\ regs' = regs
      BY <1>5, <2>1 DEF Logins!EndCommit
    <3> QED
      BY <3>1, TokensSame, RowsSame, BackedStill
  <2>2. ASSUME ~req[q].refused PROVE Good
    <3>1. /\ req[q] \in Ends /\ tokens' = Logins!Ended(q) /\ Sets(refresh', req[q].hit, "revoked")
          /\ regs' \subseteq regs
          /\ \A r \in req[q].hit : refresh[r].session \notin regs'
          /\ req[q].token # 0 => tokens[req[q].token].session \notin regs'
      BY <1>5, <2>2, EndCommitDoes
    <3>2. /\ DOMAIN tokens' = DOMAIN tokens
          /\ \A k \in DOMAIN tokens : k # req[q].token => tokens'[k] = tokens[k]
      BY <3>1, EndedIs
    <3>3. 0 \notin DOMAIN tokens
      BY Rows DEF Typed
    <3>4. ASSUME NEW s \in regs' PROVE TokensBack(s)
      BY <3>1, <3>2, <3>3 DEF TokensBack
    <3>5. ASSUME NEW s \in regs' PROVE RowsBack(s)
      BY <3>1 DEF RowsBack, Backing, Sets
    <3> QED
      BY <3>1, <3>4, <3>5, BackedStill
  <2> QED
    BY <2>1, <2>2
<1>6. ASSUME Logins!UnbindCommit(q) PROVE Good
  <2>1. ASSUME req[q].refused PROVE Good
    <3>1. tokens' = tokens /\ refresh' = refresh /\ regs' = regs
      BY <1>6, <2>1 DEF Logins!UnbindCommit, Logins!tables
    <3> QED
      BY <3>1, TokensSame, RowsSame, BackedStill
  <2>2. ASSUME ~req[q].refused PROVE Good
    <3>1. /\ req[q] \in Unbinds /\ tokens' = Logins!Unbound(q) /\ Sets(refresh', req[q].rows, "gone")
          /\ regs' \subseteq regs
          /\ \A r \in req[q].rows : refresh[r].session \notin regs'
          /\ \A k \in req[q].doomed : tokens[k].session \notin regs'
      BY <1>6, <2>2, UnbindCommitDoes
    <3>2. /\ DOMAIN tokens' = DOMAIN tokens
          /\ \A k \in DOMAIN tokens : k \notin req[q].doomed => tokens'[k] = tokens[k]
      BY <3>1, UnboundIs
    <3>3. ASSUME NEW s \in regs' PROVE TokensBack(s)
      BY <3>1, <3>2 DEF TokensBack
    <3>4. ASSUME NEW s \in regs' PROVE RowsBack(s)
      BY <3>1 DEF RowsBack, Backing, Sets
    <3> QED
      BY <3>1, <3>3, <3>4, BackedStill
  <2> QED
    BY <2>1, <2>2
<1>7. ASSUME Logins!MintInsert(q) PROVE Good
  <2>1. /\ NewToken(Logins!Permanent(req[q].parent, tokens[req[q].parent].root, FALSE))
        /\ refresh' = refresh /\ regs' = regs
    BY <1>7, MintInsertDoes DEF Logins!MintInsert
  <2> QED
    BY <2>1, TokensNew, RowsSame, BackedStill
<1>8. ASSUME NEW i \in Identities, Logins!BootPair(q, i) PROVE Good
  <2>1. /\ NewToken([Logins!Access(i, Logins!NewSession) EXCEPT !.boot = TRUE])
        /\ NewRefresh(Logins!Refreshing(i, Logins!NewSession, 0)) /\ regs' = regs
    BY <1>8, BootPairDoes DEF Logins!BootPair
  <2> QED
    BY <2>1, TokensNew, RowsNew, BackedStill
<1>9. ASSUME NEW i \in Identities, Logins!SignIn(q, i) PROVE Good
  <2>1. NewToken(Logins!Access(i, Logins!NewSession)) /\ refresh' = refresh /\ regs' = regs
    BY <1>9, SignInDoes DEF Logins!SignIn
  <2> QED
    BY <2>1, TokensNew, RowsSame, BackedStill
<1>10. ASSUME NEW u \in CallIds, Logins!DeadlockVictim(q, u) PROVE Good
  <2>1. tokens' = tokens /\ refresh' = refresh /\ regs' = regs
    BY <1>10 DEF Logins!DeadlockVictim, Logins!tables
  <2> QED
    BY <2>1, TokensSame, RowsSame, BackedStill
<1> QED
  BY <1>1, <1>2, <1>3, <1>4, <1>5, <1>6, <1>7, <1>8, <1>9, <1>10 DEF Filling

LEMMA ApartBacks ==
  ASSUME Logins!CredentialsAssumption, Typed, Logins!RegisteredIsBacked,
         Apart PROVE Logins!RegisteredIsBacked'
<1> DEFINE Good == Logins!RegisteredIsBacked'
<1>1. ASSUME Logins!IssueToken PROVE Good
  <2>1. NewToken(Logins!Permanent(0, NoIdentity, FALSE)) /\ refresh' = refresh /\ regs' = regs
    BY <1>1, IssueTokenDoes DEF Logins!IssueToken
  <2> QED
    BY <2>1, TokensNew, RowsSame, BackedStill
<1>2. ASSUME NEW i \in Identities, Logins!Bind(i) PROVE Good
  <2>1. tokens' = tokens /\ refresh' = refresh /\ regs' = regs
    BY <1>2 DEF Logins!Bind
  <2> QED
    BY <2>1, TokensSame, RowsSame, BackedStill
<1>3. ASSUME NEW i \in Identities, Logins!SignInNative(i) PROVE Good
  <2>1. /\ NewToken(Logins!Access(i, Logins!NewSession)) /\ NewRefresh(Logins!Refreshing(i, Logins!NewSession, 0))
        /\ regs' = regs
    BY <1>3, SignInNativeDoes DEF Logins!SignInNative
  <2> QED
    BY <2>1, TokensNew, RowsNew, BackedStill
<1>4. ASSUME NEW k \in DOMAIN tokens, Logins!Register(k) PROVE Good
  <2>1. /\ tokens' = tokens /\ refresh' = refresh /\ regs' = regs \cup {tokens[k].session}
        /\ tokens[k].state = "live" /\ (tokens[k].perm \/ Logins!Renewable(tokens[k].session))
    BY <1>4 DEF Logins!Register
  <2>2. BackedIn(tokens, refresh, tokens[k].session)
    BY <2>1 DEF BackedIn, Backing, Lasting, Logins!Renewable
  <2>3. \A s \in regs' : BackedIn(tokens', refresh', s)
    BY <2>1, <2>2, RegisteredIs
  <2> QED
    BY <2>3, RegisteredIsNext
<1>5. ASSUME NEW k \in DOMAIN tokens, Logins!ExpireToken(k) PROVE Good
  <2>1. /\ DOMAIN tokens' = DOMAIN tokens
        /\ \A j \in DOMAIN tokens : tokens[j].perm => tokens'[j] = tokens[j]
    BY <1>5, ExpireTokenDoes
  <2>2. \A s : TokensBack(s)
    BY <2>1 DEF TokensBack, Lasting
  <2>3. refresh' = refresh /\ regs' = regs
    BY <1>5 DEF Logins!ExpireToken
  <2> QED
    BY <2>2, <2>3, RowsSame, BackedStill
<1>6. ASSUME NEW r \in DOMAIN refresh, Logins!ExpireRefresh(r) PROVE Good
  <2>1. Sets(refresh', {r}, "expired") /\ tokens' = tokens /\ regs' = regs
    BY <1>6, ExpireRefreshDoes DEF Logins!ExpireRefresh
  <2>2. \A s : RowsBack(s)
    BY <2>1 DEF RowsBack, Backing, Sets, SameRefresh
  <2> QED
    BY <2>1, <2>2, TokensSame, BackedStill
<1>7. ASSUME NEW r \in DOMAIN refresh, Logins!Sweep(r) PROVE Good
  <2>1. /\ Sets(refresh', {r}, Deleted(refresh[r])) /\ tokens' = tokens /\ regs' = regs
        /\ refresh[r].state \in {"revoked", "expired"}
    BY <1>7, SweepDoes DEF Logins!Sweep
  <2>2. \A s : RowsBack(s)
    BY <2>1 DEF RowsBack, Backing, Sets, SameRefresh, Deleted
  <2> QED
    BY <2>1, <2>2, TokensSame, BackedStill
<1> QED
  BY <1>1, <1>2, <1>3, <1>4, <1>5, <1>6, <1>7 DEF Apart

\* A session push_registrations has rows of is backed by a token that does not expire or by a
\* refresh token that is not revoked, or its time has run out: whichever removal ends the session, and whatever rotation
\* it meets, the registration goes in the same transaction.
THEOREM RegisteredCorrect == ASSUME Logins!CredentialsAssumption PROVE Logins!Spec => []Logins!RegisteredIsBacked
<1>1. Logins!Init => Typed /\ Logins!RegisteredIsBacked
  <2>1. Logins!Init => Logins!RegisteredIsBacked
    BY DEF Logins!Init, Logins!RegisteredIsBacked
  <2> QED
    BY <2>1, InitTyped
<1>2. Typed /\ Logins!RegisteredIsBacked /\ [Logins!Next]_Logins!vars => (Typed /\ Logins!RegisteredIsBacked)'
  <2> SUFFICES ASSUME Typed, Logins!RegisteredIsBacked,
                      [Logins!Next]_Logins!vars PROVE Typed' /\ Logins!RegisteredIsBacked'
    OBVIOUS
  <2>1. Typed'
    BY NextTyped
  <2>2. ASSUME NEW q \in CallIds, Moving(q) PROVE Logins!RegisteredIsBacked'
    <3>1. UNCHANGED Logins!tables
      <4>1. CASE Logins!BootLock(q)
        BY <4>1 DEF Logins!BootLock
      <4>2. CASE ~Logins!BootLock(q)
        BY <2>2, <4>2, MovingBoots
      <4> QED
        BY <4>1, <4>2
    <3>2. tokens' = tokens /\ refresh' = refresh /\ regs' = regs
      BY <3>1 DEF Logins!tables
    <3> QED
      BY <3>2, TokensSame, RowsSame, BackedStill
  <2>3. ASSUME UNCHANGED Logins!vars PROVE Logins!RegisteredIsBacked'
    <3>1. tokens' = tokens /\ refresh' = refresh /\ regs' = regs
      BY <2>3 DEF Logins!vars
    <3> QED
      BY <3>1, TokensSame, RowsSame, BackedStill
  <2> QED
    BY <2>1, <2>2, <2>3, WritingBacks, ApartBacks, NextIs
<1> QED
  BY <1>1, <1>2, PTL DEF Logins!Spec

-----------------------------------------------------------------------------
(* An unbound identity leaves nothing behind *)

\* A row a revocation has hit has not been deleted.
HitOf(t, recs) == t.op = "end" => \A r \in t.hit : recs[r].state \notin {"gone", "lapsed"}
Hits == \A q \in CallIds : HitOf(req[q], refresh)
NoneGone == \A r \in DOMAIN refresh : refresh'[r].state \in {"gone", "lapsed"} => refresh[r].state \in {"gone", "lapsed"}

LEMMA HitsMove ==
  ASSUME Typed, Hits, NoneGone, NEW q \in CallIds, Others(q), HitOf(req'[q], refresh')
  PROVE  Hits'
<1>1. ASSUME NEW p \in CallIds, p # q PROVE HitOf(req'[p], refresh')
  <2>1. req'[p] = req[p] /\ HitOf(req[p], refresh)
    BY <1>1 DEF Others, Hits
  <2>2. req[p].op = "end" => req[p].hit \subseteq DOMAIN refresh
    BY <1>1 DEF Typed, Named
  <2> QED
    BY <2>1, <2>2 DEF HitOf, NoneGone
<1> QED
  BY <1>1 DEF Hits

LEMMA HitsEnd ==
  ASSUME Logins!CredentialsAssumption, Typed, Hits, NoneGone, NEW q \in CallIds,
         Logins!End(q) PROVE Hits'
<1>1. Others(q) /\ req'[q].op = "none"
  BY EndsCall DEF Logins!Idle
<1> QED
  BY <1>1, HitsMove DEF HitOf

LEMMA HitsRest == ASSUME Typed, Hits, NoneGone, req' = req PROVE Hits'
<1>1. ASSUME NEW p \in CallIds PROVE HitOf(req[p], refresh')
  <2>1. req[p].op = "end" => req[p].hit \subseteq DOMAIN refresh
    BY DEF Typed, Named
  <2> QED
    BY <2>1 DEF Hits, HitOf, NoneGone
<1> QED
  BY <1>1 DEF Hits

LEMMA MovingHits ==
  ASSUME Logins!CredentialsAssumption, Typed, Hits, NEW q \in CallIds, Moving(q),
         refresh' = refresh
  PROVE  HitOf(req'[q], refresh')
<1> DEFINE Good == HitOf(req'[q], refresh')
<1>0. HitOf(req[q], refresh)
  BY DEF Hits
<1>1. ASSUME req'[q].op # "end" PROVE Good
  BY <1>1 DEF HitOf
<1>2. ASSUME req'[q].hit = {} PROVE Good
  BY <1>2 DEF HitOf
<1>3. ASSUME req[q] \in Ends, req'[q].hit = req[q].hit PROVE Good
  BY <1>0, <1>3 DEF HitOf, Ends
<1>4. ASSUME Logins!BootLock(q) PROVE Good
  BY <1>1, <1>4, BootLockDoes
<1>5. ASSUME Logins!RotateInsert(q) PROVE Good
  BY <1>1, <1>5, RotateInsertDoes DEF Rotations
<1>6. ASSUME Logins!EndLock(q) \/ Logins!EndSelect(q) \/ Logins!EndUpdate(q) \/ Logins!EndCount(q) PROVE Good
  BY <1>3, <1>6, EndLockDoes, EndSelectDoes, EndUpdateDoes, EndCountDoes
<1>7. ASSUME Logins!UnbindLock(q) \/ Logins!UnbindIdentity(q) \/ Logins!UnbindTokens(q) \/ Logins!UnbindRows(q) \/ Logins!UnbindCount(q)
      PROVE  Good
  <2>1. SameUnbind(req[q], req'[q]) \/ req'[q] = Logins!Idle
    <3>1. CASE Logins!UnbindLock(q)
      BY <3>1, UnbindLockDoes
    <3>2. CASE Logins!UnbindIdentity(q) \/ Logins!UnbindRows(q)
      BY <3>2, UnbindIdentityDoes, UnbindRowsDoes
    <3>3. CASE Logins!UnbindTokens(q)
      BY <3>3, UnbindTokensDoes
    <3>4. CASE Logins!UnbindCount(q)
      BY <3>4, UnbindCountDoes
    <3> QED
      BY <1>7, <3>1, <3>2, <3>3, <3>4
  <2>2. req'[q].op # "end"
    BY <2>1 DEF SameUnbind, Logins!Idle
  <2> QED
    BY <1>1, <2>2
<1>8. ASSUME NEW i \in Identities, Logins!Unbind(q, i) PROVE Good
  BY <1>1, <1>8, UnbindDoes
<1>9. ASSUME NEW r \in DOMAIN refresh, Logins!Rotate(q, r) PROVE Good
  BY <1>1, <1>9, RotateDoes
<1>10. ASSUME NEW r \in DOMAIN refresh, Logins!Replay(q, r) PROVE Good
  BY <1>2, <1>10, ReplayDoes
<1>11. ASSUME NEW r \in DOMAIN refresh, Logins!EndLockRow(q, r) PROVE Good
  BY <1>3, <1>11, EndLockRowDoes
<1>12. ASSUME NEW r \in DOMAIN refresh, Logins!EndUpdateRow(q, r) PROVE Good
  <2>1. /\ req[q] \in Ends /\ req'[q].hit \subseteq req[q].hit \cup {r}
        /\ r \in req'[q].hit => r \in req[q].hit \/ refresh[r].state \notin {"gone", "lapsed"}
    BY <1>12, EndUpdateRowDoes
  <2> QED
    BY <1>0, <2>1 DEF HitOf, Ends
<1>13. ASSUME NEW k \in DOMAIN tokens, Logins!Revoke(q, k) PROVE Good
  BY <1>2, <1>13, RevokeDoes
<1>14. ASSUME NEW k \in DOMAIN tokens, Logins!MintStart(q, k) PROVE Good
  BY <1>1, <1>14, MintStartDoes
<1> QED
  BY <1>4, <1>5, <1>6, <1>7, <1>8, <1>9, <1>10, <1>11, <1>12, <1>13, <1>14 DEF Moving

\* An unbind deletes its rows while no revocation is under way.
LEMMA UnbindCommitHits ==
  ASSUME Logins!CredentialsAssumption, LockInv, Hits, NEW q \in CallIds,
         Logins!UnbindCommit(q) PROVE Hits'
<1>0. Typed /\ NoneElse(q)
  BY CommitsAlone DEF LockInv
<1>1. Others(q) /\ req'[q].op = "none"
  BY <1>0, EndsCall DEF Logins!UnbindCommit, Logins!Idle
<1>2. ASSUME NEW p \in CallIds PROVE HitOf(req'[p], refresh')
  <2>1. CASE p = q
    BY <1>1, <2>1 DEF HitOf
  <2>2. CASE p # q
    <3>1. req'[p] = req[p] /\ ~Locked(req[p])
      BY <1>0, <1>1, <2>2 DEF Others, NoneElse
    <3>2. ASSUME req[p].op = "end" PROVE req[p].hit = {}
      <4>1. req[p] \in Ends
        BY <1>0, <3>2, Kinds DEF Typed
      <4>2. req[p].pc = "lock"
        BY <3>1, <3>2, <4>1 DEF Locked, Ends
      <4> QED
        BY <1>0, <3>2, <4>2 DEF Typed, Named
    <3> QED
      BY <3>1, <3>2 DEF HitOf
  <2> QED
    BY <2>1, <2>2
<1> QED
  BY <1>2 DEF Hits

LEMMA NextHits == ASSUME Logins!CredentialsAssumption, LockInv, Hits, [Logins!Next]_Logins!vars PROVE Hits'
<1>0. Typed
  BY DEF LockInv
<1>a. ASSUME refresh' = refresh PROVE NoneGone
  BY <1>a DEF NoneGone
<1>b. ASSUME NEW rec, NewRefresh(rec) PROVE NoneGone
  BY <1>b DEF NoneGone, NewRefresh, Adds
<1>c. ASSUME NEW R, NEW n, n \notin {"gone", "lapsed"}, Sets(refresh', R, n) PROVE NoneGone
  BY <1>c DEF NoneGone, Sets
<1>1. ASSUME NEW q \in CallIds, Moving(q) PROVE Hits'
  <2>1. Others(q) /\ refresh' = refresh
    BY <1>1, MovingLocks DEF Logins!tables
  <2> QED
    BY <1>0, <1>1, <1>a, <2>1, MovingHits, HitsMove
<1>2. ASSUME NEW q \in CallIds, Filling(q) PROVE Hits'
  <2>1. CASE Logins!BootToken(q) \/ Logins!RotateAccess(q) \/ Logins!MintInsert(q)
    <3>1. Logins!End(q) /\ refresh' = refresh
      BY <2>1 DEF Logins!BootToken, Logins!RotateAccess, Logins!MintInsert
    <3> QED
      BY <1>0, <1>a, <3>1, HitsEnd
  <2>2. CASE Logins!SignInPair(q)
    <3>1. Logins!End(q)
      BY <2>2 DEF Logins!SignInPair
    <3>2. NoneGone
      BY <1>0, <1>a, <1>b, <2>2, SignInPairDoes
    <3> QED
      BY <1>0, <3>1, <3>2, HitsEnd
  <2>3. ASSUME NEW i \in Identities, Logins!BootPair(q, i) PROVE Hits'
    <3>1. Logins!End(q)
      BY <2>3 DEF Logins!BootPair
    <3>2. NoneGone
      BY <1>0, <1>b, <2>3, BootPairDoes
    <3> QED
      BY <1>0, <3>1, <3>2, HitsEnd
  <2>4. ASSUME NEW i \in Identities, Logins!SignIn(q, i) PROVE Hits'
    <3>1. Others(q) /\ req'[q].op = "signin" /\ refresh' = refresh
      BY <1>0, <2>4, SignInDoes DEF Logins!SignIn
    <3> QED
      BY <1>0, <1>a, <3>1, HitsMove DEF HitOf
  <2>5. CASE Logins!RotateCommit(q)
    <3>1. /\ Others(q) /\ req'[q].op = "rotate"
          /\ \A r \in DOMAIN refresh : /\ r = req[q].row => refresh'[r].state = "revoked"
                                       /\ r # req[q].row => refresh'[r] = refresh[r]
      BY <1>0, <2>5, RotateCommitDoes
    <3>2. NoneGone
      BY <3>1 DEF NoneGone
    <3> QED
      BY <1>0, <3>1, <3>2, HitsMove DEF HitOf
  <2>6. CASE Logins!EndCommit(q)
    <3>1. Logins!End(q) /\ (req[q].refused => refresh' = refresh)
      BY <2>6 DEF Logins!EndCommit
    <3>2. ~req[q].refused => Sets(refresh', req[q].hit, "revoked")
      BY <1>0, <2>6, EndCommitDoes
    <3>3. NoneGone
      BY <1>a, <1>c, <3>1, <3>2
    <3> QED
      BY <1>0, <3>1, <3>3, HitsEnd
  <2>7. CASE Logins!UnbindCommit(q)
    BY <2>7, UnbindCommitHits
  <2>8. ASSUME NEW u \in CallIds, Logins!DeadlockVictim(q, u) PROVE Hits'
    <3>1. refresh' = refresh /\ (Logins!End(q) \/ Logins!End(u))
      BY <2>8 DEF Logins!DeadlockVictim, Logins!tables
    <3> QED
      BY <1>0, <1>a, <3>1, HitsEnd
  <2> QED
    BY <1>2, <2>1, <2>2, <2>3, <2>4, <2>5, <2>6, <2>7, <2>8 DEF Filling
<1>3. ASSUME Apart PROVE Hits'
  <2>0. req' = req
    BY <1>3 DEF Apart, Logins!IssueToken, Logins!Bind, Logins!SignInNative, Logins!Register,
       Logins!ExpireToken, Logins!ExpireRefresh, Logins!Sweep
  <2>1. ASSUME NEW r \in DOMAIN refresh, Logins!Sweep(r) PROVE Hits'
    <3>1. \A p \in CallIds : req[p].op = "none"
      BY <2>1 DEF Logins!Sweep, Logins!Idle
    <3> QED
      BY <2>0, <3>1 DEF Hits, HitOf
  <2>2. ASSUME NEW r \in DOMAIN refresh, Logins!ExpireRefresh(r) PROVE NoneGone
    BY <1>0, <1>c, <2>2, ExpireRefreshDoes
  <2>3. ASSUME NEW i \in Identities, Logins!SignInNative(i) PROVE NoneGone
    BY <1>0, <1>b, <2>3, SignInNativeDoes
  <2>4. NoneGone \/ \E r \in DOMAIN refresh : Logins!Sweep(r)
    BY <1>3, <1>a, <2>2, <2>3 DEF Apart, Logins!IssueToken, Logins!Bind, Logins!Register,
       Logins!ExpireToken
  <2> QED
    BY <1>0, <2>0, <2>1, <2>4, HitsRest
<1>4. ASSUME UNCHANGED Logins!vars PROVE Hits'
  <2>1. req' = req /\ refresh' = refresh
    BY <1>4 DEF Logins!vars
  <2> QED
    BY <1>0, <1>a, <2>1, HitsRest
<1> QED
  BY <1>1, <1>2, <1>3, <1>4, NextIs

\* Session s is a sign-in of identity i, named by the row of its first access token.
SessionOf(i, s) == s \in DOMAIN tokens /\ ~tokens[s].perm /\ tokens[s].root = i /\ tokens[s].session = s

\* The tables: an access token names its identity while that is bound and is revoked after; each
\* token and refresh row belongs to a session of its identity; the registered sessions are those
\* of permanent tokens and of bound identities.
Roots == \A k \in DOMAIN tokens : ~tokens[k].perm =>
           /\ tokens[k].root \in ever
           /\ tokens[k].root \in bound => tokens[k].ident = tokens[k].root
           /\ tokens[k].root \notin bound => tokens[k].state = "revoked"
Sessions == \A k \in DOMAIN tokens : IF tokens[k].perm THEN tokens[k].session = k
                                     ELSE SessionOf(tokens[k].root, tokens[k].session)
RowSessions == \A r \in DOMAIN refresh : /\ SessionOf(refresh[r].ident, refresh[r].session)
                                         /\ refresh[r].state \notin {"gone", "lapsed"} => refresh[r].ident \in bound
RegsHeld == \A s \in regs : /\ s \in DOMAIN tokens /\ tokens[s].session = s
                            /\ tokens[s].perm \/ tokens[s].root \in bound
TablesClean == Roots /\ Sessions /\ RowSessions /\ RegsHeld

\* The calls: a pair or an access token to come is for a session of its identity; an unbind that
\* has collected what is to go has all of it; none holds an identity that a rotation shares.
Bars(t, i) == t.op = "unbind" /\ t.pc \in {"tokens", "rows", "count", "commit"} /\ t.ident = i
Sweeping(t) == t.op = "unbind" /\ t.pc \in {"rows", "count", "commit"}
Taken(i, doomed, recs) == /\ \A k \in DOMAIN tokens : tokens[k].ident = i => k \in doomed
                          /\ \A r \in DOMAIN refresh :
                               refresh[r].ident = i /\ refresh[r].state \notin {"gone", "lapsed"} => r \in recs
CallOf(q) == /\ req[q].pc \in {"pair", "access"} => SessionOf(req[q].ident, req[q].session)
             /\ Sweeping(req[q]) => Taken(req[q].ident, req[q].doomed, req[q].rows)
CallsClean == \A q \in CallIds : CallOf(q)
ShareFree == \A p, q \in CallIds : req[p].pc = "rotated" => ~Bars(req[q], refresh[req[p].row].ident)

CleanInv == LockInv /\ RowInv /\ Hits /\ TablesClean /\ CallsClean /\ ShareFree

LEMMA BarsIs ==
  ASSUME NEW i
  PROVE  Logins!Unbinding(i) = {} <=> \A p \in CallIds : ~Bars(req[p], i)
BY DEF Logins!Unbinding, Bars

LEMMA BarsBound ==
  ASSUME LockInv, NEW i, NEW p \in CallIds, Bars(req[p], i) PROVE i \in bound
BY DEF LockInv, BoundHeld, Bars, Locked

\* What every step keeps, and what no step may add while an unbind is collecting.
Heads == \A k \in DOMAIN tokens :
           /\ k \in DOMAIN tokens' /\ tokens'[k].perm = tokens[k].perm
           /\ tokens'[k].session = tokens[k].session /\ tokens'[k].root = tokens[k].root
RowIdents == \A r \in DOMAIN refresh : r \in DOMAIN refresh' /\ refresh'[r].ident = refresh[r].ident
NoNewTokens(i) == \A k \in DOMAIN tokens' : tokens'[k].ident = i => k \in DOMAIN tokens /\ tokens[k].ident = i
NoNewRows(i) == \A r \in DOMAIN refresh' : refresh'[r].ident = i /\ refresh'[r].state \notin {"gone", "lapsed"} =>
                  r \in DOMAIN refresh /\ refresh[r].ident = i /\ refresh[r].state \notin {"gone", "lapsed"}
Barred(i) == \E p \in CallIds : Bars(req[p], i)
Steady == Heads /\ RowIdents /\ \A i \in Identities : Barred(i) => NoNewTokens(i) /\ NoNewRows(i)

LEMMA SessionStays == ASSUME Heads, NEW i, NEW s, SessionOf(i, s) PROVE SessionOf(i, s)'
BY DEF Heads, SessionOf

LEMMA CallStays ==
  ASSUME CleanInv, Steady, NEW p \in CallIds, req'[p] = req[p] PROVE CallOf(p)'
<1>0. CallOf(p) /\ Typed
  BY DEF CleanInv, CallsClean, LockInv
<1>1. PICK t : t = req[p]
  OBVIOUS
<1>2. ASSUME t.pc \in {"pair", "access"} PROVE SessionOf(t.ident, t.session)'
  BY <1>0, <1>1, <1>2, SessionStays DEF CallOf, Steady
<1>3. ASSUME Sweeping(t) PROVE Taken(t.ident, t.doomed, t.rows)'
  <2>1. t \in Unbinds
    BY <1>0, <1>1, <1>3, Kinds DEF Sweeping, Typed
  <2>2. PICK i : i = t.ident
    OBVIOUS
  <2>3. i \in Identities /\ Barred(i)
    BY <1>1, <1>3, <2>1, <2>2 DEF Unbinds, Barred, Bars, Sweeping
  <2>4. NoNewTokens(i) /\ NoNewRows(i)
    BY <2>3 DEF Steady
  <2>5. Taken(i, t.doomed, t.rows)
    BY <1>0, <1>1, <1>3, <2>2 DEF CallOf
  <2> QED
    BY <2>2, <2>4, <2>5 DEF Taken, NoNewTokens, NoNewRows
<1> QED
  BY <1>1, <1>2, <1>3 DEF CallOf

ShareRight(q) ==
  /\ req'[q].pc = "rotated" =>
       /\ req'[q].row \in DOMAIN refresh
       /\ \A p \in CallIds : p # q => ~Bars(req[p], refresh[req'[q].row].ident)
  /\ \A p \in CallIds : p # q /\ req[p].pc = "rotated" => ~Bars(req'[q], refresh[req[p].row].ident)

LEMMA ShareMove ==
  ASSUME CleanInv, RowIdents, NEW q \in CallIds, Others(q), ShareRight(q) PROVE ShareFree'
<1> SUFFICES ASSUME NEW p \in CallIds, NEW u \in CallIds, req'[p].pc = "rotated"
             PROVE  ~Bars(req'[u], refresh'[req'[p].row].ident)
  BY DEF ShareFree, Bars
<1>1. CASE p = q /\ u = q
  BY <1>1 DEF Bars
<1>2. CASE p = q /\ u # q
  <2>1. req'[u] = req[u]
    BY <1>2 DEF Others
  <2>2. refresh'[req'[p].row].ident = refresh[req'[p].row].ident
    BY <1>2 DEF ShareRight, RowIdents
  <2> QED
    BY <1>2, <2>1, <2>2 DEF ShareRight
<1>3. CASE p # q
  <2>1. req'[p] = req[p]
    BY <1>3 DEF Others
  <2>2. req[p].row \in DOMAIN refresh
    BY <2>1 DEF CleanInv, LockInv, Typed, Named
  <2>3. refresh'[req'[p].row].ident = refresh[req[p].row].ident
    BY <2>1, <2>2 DEF RowIdents
  <2>4. CASE u = q
    BY <1>3, <2>1, <2>3, <2>4 DEF ShareRight
  <2>5. CASE u # q
    <3>1. req'[u] = req[u]
      BY <2>5 DEF Others
    <3> QED
      BY <2>1, <2>3, <3>1 DEF CleanInv, ShareFree
  <2> QED
    BY <2>4, <2>5
<1> QED
  BY <1>1, <1>2, <1>3

LEMMA CleanMove ==
  ASSUME CleanInv, Steady, NEW q \in CallIds, Others(q), CallOf(q)', ShareRight(q)
  PROVE  CallsClean' /\ ShareFree'
<1>1. ASSUME NEW p \in CallIds PROVE CallOf(p)'
  <2>1. CASE p = q
    BY <2>1
  <2>2. CASE p # q
    BY <2>2, CallStays DEF Others
  <2> QED
    BY <2>1, <2>2
<1>2. ShareFree'
  BY ShareMove DEF Steady
<1> QED
  BY <1>1, <1>2 DEF CallsClean

\* A call that is in none of the stages these parts are about.
LEMMA QuietCall ==
  ASSUME NEW q \in CallIds, req'[q].pc \notin {"pair", "access", "rotated"},
         req'[q].op # "unbind" \/ req'[q].pc \in {"lock", "ident"}
  PROVE  CallOf(q)' /\ ShareRight(q)
BY DEF CallOf, ShareRight, Sweeping, Bars

LEMMA CleanEnd ==
  ASSUME Logins!CredentialsAssumption, CleanInv, Steady, NEW q \in CallIds, Logins!End(q)
  PROVE  CallsClean' /\ ShareFree'
<1>1. Others(q) /\ req'[q].op = "none" /\ req'[q].pc = "idle"
  BY EndsCall DEF CleanInv, LockInv, Logins!Idle
<1> QED
  BY <1>1, QuietCall, CleanMove

LEMMA CleanRest == ASSUME CleanInv, Steady, req' = req PROVE CallsClean' /\ ShareFree'
<1>1. CallsClean'
  BY CallStays DEF CallsClean
<1>2. ShareFree'
  <2> SUFFICES ASSUME NEW p \in CallIds, NEW u \in CallIds, req[p].pc = "rotated"
               PROVE  ~Bars(req[u], refresh'[req[p].row].ident)
    BY DEF ShareFree, Bars
  <2>1. req[p].row \in DOMAIN refresh
    BY DEF CleanInv, LockInv, Typed, Named
  <2> QED
    BY <2>1 DEF Steady, RowIdents, CleanInv, ShareFree
<1> QED
  BY <1>1, <1>2

LEMMA SteadySame == ASSUME tokens' = tokens, refresh' = refresh PROVE Steady
BY DEF Steady, Heads, RowIdents, NoNewTokens, NoNewRows

LEMMA TablesSame == ASSUME CleanInv, UNCHANGED Logins!tables PROVE TablesClean'
BY DEF CleanInv, TablesClean, Roots, Sessions, RowSessions, RegsHeld, SessionOf, Logins!tables

LEMMA RotateInsertCleans ==
  ASSUME Logins!CredentialsAssumption, CleanInv, NEW q \in CallIds, Logins!RotateInsert(q)
  PROVE  CallOf(q)' /\ ShareRight(q)
<1>0. Typed
  BY DEF CleanInv, LockInv
<1>1. /\ req[q] \in Rotations /\ req'[q] \in Rotations
      /\ req[q].pc = "fk" /\ req'[q].pc = "rotated" /\ req'[q].row = req[q].row
  BY <1>0, RotateInsertDoes
<1>2. req'[q].op = "rotate" /\ req[q].row \in DOMAIN refresh
  BY <1>0, <1>1 DEF Rotations, Typed, Named
<1>3. \A p \in CallIds : ~Bars(req[p], refresh[req[q].row].ident)
  BY BarsIs DEF Logins!RotateInsert
<1>4. CallOf(q)'
  BY <1>1, <1>2 DEF CallOf, Sweeping
<1>5. ShareRight(q)
  BY <1>1, <1>2, <1>3 DEF ShareRight, Bars
<1> QED
  BY <1>4, <1>5

LEMMA UnbindIdentityCleans ==
  ASSUME Logins!CredentialsAssumption, CleanInv, NEW q \in CallIds, Logins!UnbindIdentity(q)
  PROVE  CallOf(q)' /\ ShareRight(q)
<1>0. Typed
  BY DEF CleanInv, LockInv
<1>1. req[q] \in Unbinds /\ SameUnbind(req[q], req'[q]) /\ req'[q].pc = "tokens"
  BY <1>0, UnbindIdentityDoes
<1>2. \A p \in CallIds : req[p].pc = "rotated" => refresh[req[p].row].ident # req[q].ident
  BY DEF Logins!UnbindIdentity, Logins!Sharing
<1>3. CallOf(q)'
  BY <1>1 DEF CallOf, Sweeping
<1>4. ShareRight(q)
  BY <1>1, <1>2 DEF ShareRight, Bars, SameUnbind
<1> QED
  BY <1>3, <1>4

\* An unbind that goes on holding its identity.
LEMMA BarredStill ==
  ASSUME CleanInv, NEW q \in CallIds, req[q] \in Unbinds, SameUnbind(req[q], req'[q]),
         req[q].pc \in {"tokens", "rows", "count"}, req'[q].pc \in {"rows", "count", "commit"}
  PROVE  ShareRight(q)
<1>1. \A i : Bars(req'[q], i) => Bars(req[q], i)
  BY DEF Bars, Unbinds, SameUnbind
<1>2. \A p \in CallIds : req[p].pc = "rotated" => ~Bars(req[q], refresh[req[p].row].ident)
  BY DEF CleanInv, ShareFree
<1> QED
  BY <1>1, <1>2 DEF ShareRight

LEMMA UnbindTokensCleans ==
  ASSUME Logins!CredentialsAssumption, CleanInv, NEW q \in CallIds, Logins!UnbindTokens(q)
  PROVE  CallOf(q)' /\ ShareRight(q)
<1>0. Typed
  BY DEF CleanInv, LockInv
<1>1. /\ req[q] \in Unbinds /\ SameUnbind(req[q], req'[q])
      /\ req[q].pc = "tokens" /\ req'[q].pc = "rows"
      /\ \A k \in DOMAIN tokens : tokens[k].ident = req[q].ident => k \in req'[q].doomed
      /\ req'[q].rows = Logins!OfIdentity(req[q].ident)
  BY <1>0, UnbindTokensDoes
<1>2. tokens' = tokens /\ refresh' = refresh
  BY DEF Logins!UnbindTokens, Logins!tables
<1>3. req'[q].ident = req[q].ident
  BY <1>1 DEF SameUnbind
<1>4. Taken(req[q].ident, req[q].doomed, req[q].rows)'
  BY <1>1, <1>2, <1>3 DEF Taken, Logins!OfIdentity
<1>5. CallOf(q)'
  BY <1>1, <1>4 DEF CallOf
<1> QED
  BY <1>1, <1>5, BarredStill

LEMMA SweptStill ==
  ASSUME CleanInv, NEW q \in CallIds, UNCHANGED Logins!tables, req[q] \in Unbinds,
         SameUnbind(req[q], req'[q]), req[q].pc \in {"rows", "count"},
         req'[q].pc \in {"count", "commit"},
         req'[q].doomed = req[q].doomed, req'[q].rows = req[q].rows
  PROVE  CallOf(q)' /\ ShareRight(q)
<1>1. Taken(req[q].ident, req[q].doomed, req[q].rows)
  BY DEF CleanInv, CallsClean, CallOf, Sweeping, Unbinds
<1>2. req'[q].ident = req[q].ident
  BY DEF SameUnbind
<1>3. Taken(req[q].ident, req[q].doomed, req[q].rows)'
  BY <1>1, <1>2 DEF Taken, Logins!tables
<1>4. CallOf(q)'
  BY <1>3 DEF CallOf
<1> QED
  BY <1>4, BarredStill

LEMMA MovingCleans ==
  ASSUME Logins!CredentialsAssumption, CleanInv, NEW q \in CallIds, Moving(q)
  PROVE  CallOf(q)' /\ ShareRight(q)
<1> DEFINE Good == CallOf(q)' /\ ShareRight(q)
<1>0. Typed /\ LockInv
  BY DEF CleanInv, LockInv
<1>a. UNCHANGED Logins!tables
  BY <1>0, MovingLocks
<1>1. ASSUME Logins!BootLock(q) PROVE Good
  BY <1>0, <1>1, BootLockDoes, QuietCall
<1>2. ASSUME Logins!RotateInsert(q) PROVE Good
  BY <1>2, RotateInsertCleans
<1>3. ASSUME Logins!EndLock(q) PROVE Good
  <2>1. req'[q].op = "end" /\ req'[q].pc \in {"count", "select"}
    BY <1>0, <1>3, EndLockDoes DEF SameEnd
  <2> QED
    BY <2>1, QuietCall
<1>4. ASSUME Logins!EndSelect(q) PROVE Good
  <2>1. req'[q].op = "end" /\ req'[q].pc = "locking"
    BY <1>0, <1>4, EndSelectDoes DEF SameEnd
  <2> QED
    BY <2>1, QuietCall
<1>5. ASSUME Logins!EndUpdate(q) PROVE Good
  <2>1. req'[q].op = "end" /\ req'[q].pc = "updating"
    BY <1>0, <1>5, EndUpdateDoes DEF SameEnd
  <2> QED
    BY <2>1, QuietCall
<1>6. ASSUME Logins!EndCount(q) PROVE Good
  <2>1. req'[q].op = "end" /\ req'[q].pc = "commit"
    BY <1>0, <1>6, EndCountDoes DEF SameEnd
  <2> QED
    BY <2>1, QuietCall
<1>7. ASSUME Logins!UnbindLock(q) PROVE Good
  <2>1. req'[q].pc = "ident" \/ (req'[q].pc = "idle" /\ req'[q].op = "none")
    BY <1>0, <1>7, UnbindLockDoes DEF Logins!Idle
  <2> QED
    BY <2>1, QuietCall
<1>8. ASSUME Logins!UnbindIdentity(q) PROVE Good
  BY <1>8, UnbindIdentityCleans
<1>9. ASSUME Logins!UnbindTokens(q) PROVE Good
  BY <1>9, UnbindTokensCleans
<1>10. ASSUME Logins!UnbindRows(q) PROVE Good
  BY <1>0, <1>a, <1>10, UnbindRowsDoes, SweptStill
<1>11. ASSUME Logins!UnbindCount(q) PROVE Good
  BY <1>0, <1>a, <1>11, UnbindCountDoes, SweptStill
<1>12. ASSUME NEW i \in Identities, Logins!Unbind(q, i) PROVE Good
  BY <1>0, <1>12, UnbindDoes, QuietCall
<1>13. ASSUME NEW r \in DOMAIN refresh, Logins!Rotate(q, r) PROVE Good
  BY <1>0, <1>13, RotateDoes, QuietCall
<1>14. ASSUME NEW r \in DOMAIN refresh, Logins!Replay(q, r) PROVE Good
  BY <1>0, <1>14, ReplayDoes, QuietCall
<1>15. ASSUME NEW r \in DOMAIN refresh, Logins!EndLockRow(q, r) PROVE Good
  <2>1. req'[q].op = "end" /\ req'[q].pc = "locking"
    BY <1>0, <1>15, EndLockRowDoes DEF SameEnd
  <2> QED
    BY <2>1, QuietCall
<1>16. ASSUME NEW r \in DOMAIN refresh, Logins!EndUpdateRow(q, r) PROVE Good
  <2>1. req'[q].op = "end" /\ req'[q].pc = "updating"
    BY <1>0, <1>16, EndUpdateRowDoes DEF SameEnd
  <2> QED
    BY <2>1, QuietCall
<1>17. ASSUME NEW k \in DOMAIN tokens, Logins!Revoke(q, k) PROVE Good
  BY <1>0, <1>17, RevokeDoes, QuietCall
<1>18. ASSUME NEW k \in DOMAIN tokens, Logins!MintStart(q, k) PROVE Good
  BY <1>0, <1>18, MintStartDoes, QuietCall
<1> QED
  BY <1>1, <1>2, <1>3, <1>4, <1>5, <1>6, <1>7, <1>8, <1>9, <1>10, <1>11, <1>12, <1>13, <1>14,
     <1>15, <1>16, <1>17, <1>18 DEF Moving

\* A step that binds at most an identity that is new, and what it may add.
Binds == /\ bound \subseteq bound' /\ ever \subseteq ever' /\ bound' \subseteq ever'
         /\ \A i \in bound' : i \in bound \/ i \notin ever
TokenFits(rec) ==
  /\ rec.perm => rec.session = Len(tokens) + 1
  /\ ~rec.perm => /\ rec.root \in bound' /\ rec.ident = rec.root
                  /\ rec.session = Len(tokens) + 1 \/ SessionOf(rec.root, rec.session)

LEMMA SessionNew ==
  ASSUME NEW rec, NewToken(rec), ~rec.perm, rec.session = Len(tokens) + 1
  PROVE  SessionOf(rec.root, rec.session)'
BY DEF SessionOf, NewToken, Adds

LEMMA TokenCleans ==
  ASSUME CleanInv, Binds, NEW rec, NewToken(rec), TokenFits(rec)
  PROVE  Heads /\ Roots' /\ Sessions'
<1>1. PICK n : n = Len(tokens) + 1
  OBVIOUS
<1>2. /\ n \notin DOMAIN tokens /\ DOMAIN tokens' = DOMAIN tokens \cup {n}
      /\ \A k \in DOMAIN tokens : tokens'[k] = tokens[k]
      /\ tokens'[n] = rec
  BY <1>1 DEF NewToken, Adds
<1>3. Heads
  BY <1>2 DEF Heads
<1>4. ASSUME NEW k \in DOMAIN tokens', ~tokens'[k].perm
      PROVE  /\ tokens'[k].root \in ever'
             /\ tokens'[k].root \in bound' => tokens'[k].ident = tokens'[k].root
             /\ tokens'[k].root \notin bound' => tokens'[k].state = "revoked"
  <2>1. CASE k = n
    BY <1>2, <1>4, <2>1 DEF TokenFits, Binds
  <2>2. CASE k \in DOMAIN tokens
    <3>1. /\ tokens'[k] = tokens[k] /\ tokens[k].root \in ever
          /\ tokens[k].root \in bound => tokens[k].ident = tokens[k].root
          /\ tokens[k].root \notin bound => tokens[k].state = "revoked"
      BY <1>2, <1>4, <2>2 DEF CleanInv, TablesClean, Roots
    <3> QED
      BY <3>1 DEF Binds
  <2> QED
    BY <1>2, <2>1, <2>2
<1>5. ASSUME NEW k \in DOMAIN tokens'
      PROVE  IF tokens'[k].perm THEN tokens'[k].session = k
             ELSE SessionOf(tokens[k].root, tokens[k].session)'
  <2>1. CASE k = n /\ rec.perm
    BY <1>1, <1>2, <2>1 DEF TokenFits
  <2>2. CASE k = n /\ ~rec.perm
    <3>1. PICK i, s : i = rec.root /\ s = rec.session
      OBVIOUS
    <3>2. SessionOf(i, s)'
      BY <1>3, <2>2, <3>1, SessionNew, SessionStays DEF TokenFits
    <3> QED
      BY <1>2, <2>2, <3>1, <3>2 DEF SessionOf
  <2>3. CASE k \in DOMAIN tokens
    <3>1. PICK i, s : i = tokens[k].root /\ s = tokens[k].session
      OBVIOUS
    <3>2. IF tokens[k].perm THEN s = k ELSE SessionOf(i, s)
      BY <2>3, <3>1 DEF CleanInv, TablesClean, Sessions
    <3>3. ~tokens[k].perm => SessionOf(i, s)'
      BY <1>3, <3>2, SessionStays
    <3> QED
      BY <1>2, <2>3, <3>1, <3>2, <3>3 DEF SessionOf
  <2> QED
    BY <1>2, <2>1, <2>2, <2>3
<1>6. Roots'
  BY <1>4 DEF Roots
<1>7. Sessions'
  BY <1>5 DEF Sessions
<1> QED
  BY <1>3, <1>6, <1>7

LEMMA TokensKeep ==
  ASSUME CleanInv, Binds, tokens' = tokens PROVE Heads /\ Roots' /\ Sessions'
<1>1. Heads
  BY DEF Heads
<1>2. Roots'
  BY DEF CleanInv, TablesClean, Roots, Binds
<1>3. Sessions'
  BY DEF CleanInv, TablesClean, Sessions, SessionOf
<1> QED
  BY <1>1, <1>2, <1>3

LEMMA RowsKeep ==
  ASSUME CleanInv, Heads, bound \subseteq bound',
         refresh' = refresh PROVE RowIdents /\ RowSessions'
<1>1. ASSUME NEW r \in DOMAIN refresh
      PROVE  /\ SessionOf(refresh[r].ident, refresh[r].session)'
             /\ refresh'[r].state \notin {"gone", "lapsed"} => refresh'[r].ident \in bound'
  <2>1. PICK i, s : i = refresh[r].ident /\ s = refresh[r].session
    OBVIOUS
  <2>2. SessionOf(i, s) /\ (refresh[r].state \notin {"gone", "lapsed"} => i \in bound)
    BY <2>1 DEF CleanInv, TablesClean, RowSessions
  <2>3. SessionOf(i, s)'
    BY <2>2, SessionStays
  <2> QED
    BY <2>1, <2>2, <2>3 DEF SessionOf
<1> QED
  BY <1>1 DEF RowIdents, RowSessions

LEMMA RowCleans ==
  ASSUME CleanInv, Heads, bound \subseteq bound', NEW rec, NewRefresh(rec),
         rec.ident \in bound',
         SessionOf(rec.ident, rec.session)'
  PROVE  RowIdents /\ RowSessions'
<1>1. PICK n : n = Len(refresh) + 1
  OBVIOUS
<1>2. /\ DOMAIN refresh' = DOMAIN refresh \cup {n}
      /\ \A r \in DOMAIN refresh : refresh'[r] = refresh[r]
      /\ refresh'[n] = rec
  BY <1>1 DEF NewRefresh, Adds
<1>3. ASSUME NEW r \in DOMAIN refresh'
      PROVE  /\ SessionOf(refresh[r].ident, refresh[r].session)'
             /\ refresh'[r].state \notin {"gone", "lapsed"} => refresh'[r].ident \in bound'
  <2>1. CASE r = n
    BY <1>2, <2>1 DEF SessionOf
  <2>2. CASE r \in DOMAIN refresh
    <3>1. PICK i, s : i = refresh[r].ident /\ s = refresh[r].session
      OBVIOUS
    <3>2. SessionOf(i, s) /\ (refresh[r].state \notin {"gone", "lapsed"} => i \in bound)
      BY <2>2, <3>1 DEF CleanInv, TablesClean, RowSessions
    <3>3. SessionOf(i, s)'
      BY <3>2, SessionStays
    <3> QED
      BY <1>2, <2>2, <3>1, <3>2, <3>3 DEF SessionOf
  <2> QED
    BY <1>2, <2>1, <2>2
<1> QED
  BY <1>2, <1>3 DEF RowIdents, RowSessions

LEMMA RegsKeep ==
  ASSUME CleanInv, Heads, bound \subseteq bound', regs' \subseteq regs PROVE RegsHeld'
BY DEF CleanInv, TablesClean, RegsHeld, Heads

LEMMA NoneNew ==
  ASSUME NEW i
  PROVE  /\ tokens' = tokens => NoNewTokens(i)
         /\ refresh' = refresh => NoNewRows(i)
         /\ \A rec : NewToken(rec) /\ rec.ident # i => NoNewTokens(i)
         /\ \A rec : NewRefresh(rec) /\ rec.ident # i => NoNewRows(i)
<1>1. ASSUME NEW rec, NewToken(rec), rec.ident # i PROVE NoNewTokens(i)
  BY <1>1 DEF NoNewTokens, NewToken, Adds
<1>2. ASSUME NEW rec, NewRefresh(rec), rec.ident # i PROVE NoNewRows(i)
  BY <1>2 DEF NoNewRows, NewRefresh, Adds
<1>3. tokens' = tokens => NoNewTokens(i)
  BY DEF NoNewTokens
<1>4. refresh' = refresh => NoNewRows(i)
  BY DEF NoNewRows
<1> QED
  BY <1>1, <1>2, <1>3, <1>4

\* A permanent token is added.
LEMMA PermanentCleans ==
  ASSUME Logins!CredentialsAssumption, CleanInv, NEW rec, NewToken(rec), rec.perm,
         rec.ident = NoIdentity,
         rec.session = Len(tokens) + 1,
         bound' = bound, ever' = ever, refresh' = refresh, regs' = regs
  PROVE  Steady /\ TablesClean'
<1>1. Binds
  BY DEF Binds, CleanInv, LockInv, Typed, Logins!TypeOK
<1>2. Heads /\ Roots' /\ Sessions'
  BY <1>1, TokenCleans DEF TokenFits
<1>3. RowIdents /\ RowSessions' /\ RegsHeld'
  BY <1>2, RowsKeep, RegsKeep
<1>4. \A i \in Identities : NoNewTokens(i) /\ NoNewRows(i)
  BY NoneNew DEF Logins!CredentialsAssumption
<1> QED
  BY <1>2, <1>3, <1>4 DEF Steady, TablesClean

\* An access token of an identity that is bound and that no unbind holds is added, with or
\* without its refresh row.
LEMMA AccessCleans ==
  ASSUME Logins!CredentialsAssumption, CleanInv, Binds, NEW i \in bound', ~Barred(i),
         NEW rec, NewToken(rec), ~rec.perm, rec.ident = i, rec.root = i,
         rec.session = Len(tokens) + 1 \/ SessionOf(i, rec.session),
         \/ refresh' = refresh
         \/ NewRefresh(Logins!Refreshing(i, rec.session, 0)),
         regs' = regs
  PROVE  Steady /\ TablesClean'
<1>1. Heads /\ Roots' /\ Sessions'
  BY TokenCleans DEF TokenFits
<1>2. SessionOf(i, rec.session)'
  <2>1. PICK s : s = rec.session
    OBVIOUS
  <2>2. SessionOf(i, s)'
    BY <1>1, <2>1, SessionNew, SessionStays
  <2> QED
    BY <2>1, <2>2
<1>3. bound \subseteq bound'
  BY DEF Binds
<1>4. RowIdents /\ RowSessions'
  <2>1. CASE refresh' = refresh
    BY <1>1, <1>3, <2>1, RowsKeep
  <2>2. CASE NewRefresh(Logins!Refreshing(i, rec.session, 0))
    <3>1. PICK new : new = Logins!Refreshing(i, rec.session, 0)
      OBVIOUS
    <3>2. new.ident = i /\ new.session = rec.session
      BY <3>1 DEF Logins!Refreshing
    <3>3. SessionOf(new.ident, new.session)'
      BY <1>2, <3>2
    <3> QED
      BY <1>1, <1>3, <2>2, <3>1, <3>2, <3>3, RowCleans
  <2> QED
    BY <2>1, <2>2
<1>5. RegsHeld'
  BY <1>1, <1>3, RegsKeep
<1>6. ASSUME NEW j \in Identities, Barred(j) PROVE NoNewTokens(j) /\ NoNewRows(j)
  <2>1. i # j
    BY <1>6
  <2>2. NoNewTokens(j)
    BY <2>1, NoneNew
  <2>3. Logins!Refreshing(i, rec.session, 0).ident # j
    BY <2>1 DEF Logins!Refreshing
  <2>4. NoNewRows(j)
    BY <2>3, NoneNew
  <2> QED
    BY <2>2, <2>4
<1> QED
  BY <1>1, <1>4, <1>5, <1>6 DEF Steady, TablesClean

LEMMA BindsSame == ASSUME CleanInv, bound' = bound, ever' = ever PROVE Binds
BY DEF Binds, CleanInv, LockInv, Typed, Logins!TypeOK

LEMMA SignInPairCleans ==
  ASSUME Logins!CredentialsAssumption, CleanInv, NEW q \in CallIds, Logins!SignInPair(q)
  PROVE  Steady /\ TablesClean'
<1>0. Typed
  BY DEF CleanInv, LockInv
<1>1. tokens' = tokens /\ bound' = bound /\ ever' = ever /\ regs' = regs /\ req[q].pc = "pair"
  BY DEF Logins!SignInPair
<1>2. Heads /\ Roots' /\ Sessions'
  BY <1>1, BindsSame, TokensKeep
<1>3. RegsHeld'
  BY <1>1, <1>2, RegsKeep
<1>4. PICK i, s : i = req[q].ident /\ s = req[q].session
  OBVIOUS
<1>5. SessionOf(i, s) /\ ~Barred(i)
  BY <1>1, <1>4, BarsIs DEF CleanInv, CallsClean, CallOf, Logins!SignInPair, Barred
<1>6. SessionOf(i, s)'
  BY <1>2, <1>5, SessionStays
<1>7. CASE refresh' = refresh
  <2>1. RowIdents /\ RowSessions'
    BY <1>1, <1>2, <1>7, RowsKeep
  <2> QED
    BY <1>1, <1>2, <1>3, <1>7, <2>1, SteadySame DEF TablesClean
<1>8. CASE i \in bound /\ NewRefresh(Logins!Refreshing(i, s, 0))
  <2>1. PICK rec : rec = Logins!Refreshing(i, s, 0)
    OBVIOUS
  <2>2. rec.ident = i /\ rec.session = s
    BY <2>1 DEF Logins!Refreshing
  <2>3. SessionOf(rec.ident, rec.session)'
    BY <1>6, <2>2
  <2>4. RowIdents /\ RowSessions'
    BY <1>1, <1>2, <1>8, <2>1, <2>2, <2>3, RowCleans
  <2>5. \A j \in Identities : Barred(j) => NoNewTokens(j) /\ NoNewRows(j)
    BY <1>1, <1>5, <1>8, <2>1, <2>2, NoneNew
  <2> QED
    BY <1>2, <1>3, <2>4, <2>5 DEF Steady, TablesClean
<1> QED
  BY <1>0, <1>4, <1>7, <1>8, SignInPairDoes

LEMMA RotateAccessCleans ==
  ASSUME Logins!CredentialsAssumption, CleanInv, NEW q \in CallIds, Logins!RotateAccess(q)
  PROVE  Steady /\ TablesClean'
<1>0. Typed
  BY DEF CleanInv, LockInv
<1>1. /\ refresh' = refresh /\ bound' = bound /\ ever' = ever /\ regs' = regs
      /\ req[q].pc = "access"
  BY DEF Logins!RotateAccess
<1>2. PICK i, s : i = req[q].ident /\ s = req[q].session
  OBVIOUS
<1>3. SessionOf(i, s) /\ ~Barred(i)
  BY <1>1, <1>2, BarsIs DEF CleanInv, CallsClean, CallOf, Logins!RotateAccess, Barred
<1>4. CASE tokens' = tokens
  <2>1. Heads /\ Roots' /\ Sessions'
    BY <1>1, <1>4, BindsSame, TokensKeep
  <2>2. RowSessions' /\ RegsHeld'
    BY <1>1, <2>1, RowsKeep, RegsKeep
  <2> QED
    BY <1>1, <1>4, <2>1, <2>2, SteadySame DEF TablesClean
<1>5. CASE i \in bound /\ NewToken(Logins!Access(i, s))
  <2>1. PICK rec : rec = Logins!Access(i, s)
    OBVIOUS
  <2>2. ~rec.perm /\ rec.ident = i /\ rec.root = i /\ rec.session = s
    BY <2>1 DEF Logins!Access
  <2> QED
    BY <1>1, <1>3, <1>5, <2>1, <2>2, BindsSame, AccessCleans
<1> QED
  BY <1>0, <1>2, <1>4, <1>5, RotateAccessDoes

LEMMA BootPairCleans ==
  ASSUME Logins!CredentialsAssumption, CleanInv, NEW q \in CallIds, NEW i \in Identities,
         Logins!BootPair(q, i)
  PROVE  Steady /\ TablesClean'
<1>0. Typed /\ LockInv
  BY DEF CleanInv, LockInv
<1>1. bound' = bound \cup {i} /\ ever' = ever \cup {i} /\ regs' = regs /\ i \notin ever
  BY DEF Logins!BootPair
<1>2. bound \subseteq ever
  BY <1>0 DEF Typed, Logins!TypeOK
<1>3. Binds /\ i \in bound' /\ ~Barred(i)
  BY <1>0, <1>1, <1>2, BarsBound DEF Binds, Barred
<1>4. PICK rec : rec = [Logins!Access(i, Logins!NewSession) EXCEPT !.boot = TRUE]
  OBVIOUS
<1>5. /\ ~rec.perm /\ rec.ident = i /\ rec.root = i /\ rec.session = Logins!NewSession
  BY <1>4 DEF Logins!Access
<1>6. NewToken(rec) /\ NewRefresh(Logins!Refreshing(i, rec.session, 0))
  BY <1>0, <1>4, <1>5, BootPairDoes
<1>7. rec.session = Len(tokens) + 1
  BY <1>5 DEF Logins!NewSession
<1> QED
  BY <1>1, <1>3, <1>5, <1>6, <1>7, AccessCleans

LEMMA NewSessionCleans ==
  ASSUME Logins!CredentialsAssumption, CleanInv, NEW i \in bound, Logins!Unbinding(i) = {},
         NewToken(Logins!Access(i, Logins!NewSession)),
         refresh' = refresh \/ NewRefresh(Logins!Refreshing(i, Logins!NewSession, 0)),
         bound' = bound, ever' = ever, regs' = regs
  PROVE  Steady /\ TablesClean'
<1>1. PICK rec : rec = Logins!Access(i, Logins!NewSession)
  OBVIOUS
<1>2. ~rec.perm /\ rec.ident = i /\ rec.root = i /\ rec.session = Logins!NewSession
  BY <1>1 DEF Logins!Access
<1>3. rec.session = Len(tokens) + 1
  BY <1>2 DEF Logins!NewSession
<1>4. ~Barred(i)
  BY BarsIs DEF Barred
<1>5. NewToken(rec) /\ (refresh' = refresh \/ NewRefresh(Logins!Refreshing(i, rec.session, 0)))
  BY <1>1, <1>2
<1>6. Steady /\ TablesClean'
  BY <1>2, <1>3, <1>4, <1>5, BindsSame, AccessCleans
<1> QED
  BY <1>6

LEMMA SessionsStay ==
  ASSUME CleanInv, Heads, DOMAIN tokens' = DOMAIN tokens PROVE Sessions'
<1>1. ASSUME NEW k \in DOMAIN tokens
      PROVE  IF tokens'[k].perm THEN tokens'[k].session = k
             ELSE SessionOf(tokens[k].root, tokens[k].session)'
  <2>1. PICK i, s : i = tokens[k].root /\ s = tokens[k].session
    OBVIOUS
  <2>2. IF tokens[k].perm THEN s = k ELSE SessionOf(i, s)
    BY <2>1 DEF CleanInv, TablesClean, Sessions
  <2>3. ~tokens[k].perm => SessionOf(i, s)'
    BY <2>2, SessionStays
  <2>4. tokens'[k].perm = tokens[k].perm /\ tokens'[k].root = i /\ tokens'[k].session = s
    BY <2>1 DEF Heads
  <2> QED
    BY <2>2, <2>3, <2>4 DEF SessionOf
<1> QED
  BY <1>1 DEF Sessions

\* Some rows change their state and those that are not gone stay bound.
LEMMA RowsSetClean ==
  ASSUME CleanInv, Heads, NEW R, NEW n, Sets(refresh', R, n),
         \A r \in DOMAIN refresh : refresh'[r].state \notin {"gone", "lapsed"} =>
           refresh[r].state \notin {"gone", "lapsed"} /\ (refresh[r].ident \in bound => refresh[r].ident \in bound')
  PROVE  RowIdents /\ RowSessions' /\ \A i : NoNewRows(i)
<1>1. /\ DOMAIN refresh' = DOMAIN refresh
      /\ \A r \in DOMAIN refresh : /\ refresh'[r].ident = refresh[r].ident
                                   /\ refresh'[r].session = refresh[r].session
  BY DEF Sets, SameRefresh
<1>2. ASSUME NEW r \in DOMAIN refresh
      PROVE  /\ SessionOf(refresh[r].ident, refresh[r].session)'
             /\ refresh'[r].state \notin {"gone", "lapsed"} => refresh'[r].ident \in bound'
  <2>1. PICK i, s : i = refresh[r].ident /\ s = refresh[r].session
    OBVIOUS
  <2>2. SessionOf(i, s) /\ (refresh[r].state \notin {"gone", "lapsed"} => i \in bound)
    BY <2>1 DEF CleanInv, TablesClean, RowSessions
  <2>3. SessionOf(i, s)'
    BY <2>2, SessionStays
  <2> QED
    BY <1>1, <2>1, <2>2, <2>3 DEF SessionOf
<1>3. RowSessions'
  BY <1>1, <1>2 DEF RowSessions
<1> QED
  BY <1>1, <1>3 DEF RowIdents, NoNewRows

LEMMA RotateCommitCleans ==
  ASSUME Logins!CredentialsAssumption, CleanInv, NEW q \in CallIds, Logins!RotateCommit(q)
  PROVE  Steady /\ TablesClean' /\ Others(q) /\ CallOf(q)' /\ ShareRight(q)
<1>0. Typed
  BY DEF CleanInv, LockInv
<1>1. PICK o, i, s : o = req[q].row /\ i = refresh[o].ident /\ s = refresh[o].session
  OBVIOUS
<1>a. PICK n : n = Len(refresh) + 1
  OBVIOUS
<1>2. /\ Others(q) /\ req[q].pc = "rotated" /\ o \in DOMAIN refresh
      /\ req'[q].op = "rotate" /\ req'[q].pc = "access" /\ req'[q].ident = i /\ req'[q].session = s
      /\ n \notin DOMAIN refresh /\ DOMAIN refresh' = DOMAIN refresh \cup {n}
      /\ \A r \in DOMAIN refresh : /\ SameRefresh(refresh[r], refresh'[r])
                                   /\ r # o => refresh'[r] = refresh[r]
      /\ refresh'[n] = Logins!Refreshing(i, s, o)
  BY <1>0, <1>1, <1>a, RotateCommitDoes
<1>3. refresh'[n].ident = i /\ refresh'[n].session = s
  BY <1>2 DEF Logins!Refreshing
<1>4. tokens' = tokens /\ bound' = bound /\ ever' = ever /\ regs' = regs
  BY DEF Logins!RotateCommit
<1>5. Heads /\ Roots' /\ Sessions'
  BY <1>4, BindsSame, TokensKeep
<1>6. RegsHeld'
  BY <1>4, <1>5, RegsKeep
<1>7. refresh[o].state = "active"
  BY <1>1, <1>2 DEF CleanInv, RowInv, Rotating
<1>8. SessionOf(i, s) /\ i \in bound
  BY <1>1, <1>2, <1>7 DEF CleanInv, TablesClean, RowSessions
<1>9. SessionOf(i, s)'
  BY <1>5, <1>8, SessionStays
<1>10. ASSUME NEW r \in DOMAIN refresh'
       PROVE  /\ SessionOf(refresh[r].ident, refresh[r].session)'
              /\ refresh'[r].state \notin {"gone", "lapsed"} => refresh'[r].ident \in bound'
  <2>1. CASE r = n \/ r = o
    <3>1. refresh'[r].ident = i /\ refresh'[r].session = s
      BY <1>1, <1>2, <1>3, <2>1 DEF SameRefresh
    <3> QED
      BY <1>4, <1>8, <1>9, <3>1 DEF SessionOf
  <2>2. CASE r \in DOMAIN refresh /\ r # o
    <3>1. PICK j, w : j = refresh[r].ident /\ w = refresh[r].session
      OBVIOUS
    <3>2. SessionOf(j, w) /\ (refresh[r].state \notin {"gone", "lapsed"} => j \in bound)
      BY <2>2, <3>1 DEF CleanInv, TablesClean, RowSessions
    <3>3. SessionOf(j, w)'
      BY <1>5, <3>2, SessionStays
    <3> QED
      BY <1>2, <1>4, <2>2, <3>1, <3>2, <3>3 DEF SessionOf
  <2> QED
    BY <1>2, <2>1, <2>2
<1>11. RowSessions'
  BY <1>10 DEF RowSessions
<1>12. RowIdents
  BY <1>2 DEF RowIdents, SameRefresh
<1>13. ASSUME NEW j \in Identities, Barred(j) PROVE NoNewTokens(j) /\ NoNewRows(j)
  <2>1. i # j
    BY <1>1, <1>2, <1>13 DEF Barred, CleanInv, ShareFree
  <2>2. refresh'[o].ident = i
    BY <1>1, <1>2 DEF SameRefresh
  <2>3. NoNewRows(j)
    BY <1>2, <1>3, <2>1, <2>2 DEF NoNewRows
  <2> QED
    BY <1>4, <2>3 DEF NoNewTokens
<1>14. Steady /\ TablesClean'
  BY <1>5, <1>6, <1>11, <1>12, <1>13 DEF Steady, TablesClean
<1>15. SessionOf(req[q].ident, req[q].session)'
  BY <1>2, <1>9
<1>16. CallOf(q)' /\ ShareRight(q)
  BY <1>2, <1>15 DEF CallOf, ShareRight, Sweeping, Bars
<1> QED
  BY <1>2, <1>14, <1>16

LEMMA EndCommitCleans ==
  ASSUME Logins!CredentialsAssumption, CleanInv, NEW q \in CallIds, Logins!EndCommit(q)
  PROVE  Steady /\ TablesClean'
<1>0. Typed
  BY DEF CleanInv, LockInv
<1>1. bound' = bound /\ ever' = ever
  BY DEF Logins!EndCommit
<1>2. CASE req[q].refused
  <2>1. tokens' = tokens /\ refresh' = refresh /\ regs' = regs
    BY <1>2 DEF Logins!EndCommit
  <2> QED
    BY <1>1, <2>1, SteadySame, TablesSame DEF Logins!tables
<1>3. CASE ~req[q].refused
  <2>1. /\ req[q] \in Ends /\ tokens' = Logins!Ended(q) /\ Sets(refresh', req[q].hit, "revoked")
        /\ regs' \subseteq regs
    BY <1>0, <1>3, EndCommitDoes
  <2>2. /\ DOMAIN tokens' = DOMAIN tokens
        /\ \A k \in DOMAIN tokens :
             /\ k # req[q].token => tokens'[k] = tokens[k]
             /\ k = req[q].token => tokens'[k].state = "revoked"
             /\ Same(tokens[k], tokens'[k])
    BY <1>0, <2>1, EndedIs
  <2>3. Heads
    BY <2>2 DEF Heads, Same
  <2>4. Roots'
    BY <1>1, <2>2 DEF CleanInv, TablesClean, Roots, Same
  <2>5. Sessions'
    BY <2>2, <2>3, SessionsStay
  <2>6. \A r \in req[q].hit : refresh[r].state \notin {"gone", "lapsed"}
    BY <2>1 DEF CleanInv, Hits, HitOf, Ends
  <2>7. \A r \in DOMAIN refresh : refresh'[r].state \notin {"gone", "lapsed"} => refresh[r].state \notin {"gone", "lapsed"}
    BY <2>1, <2>6 DEF Sets
  <2>8. RowIdents /\ RowSessions' /\ \A i : NoNewRows(i)
    BY <1>1, <2>1, <2>3, <2>7, RowsSetClean
  <2>9. RegsHeld'
    BY <1>1, <2>1, <2>3, RegsKeep
  <2>10. \A i : NoNewTokens(i)
    BY <2>2 DEF NoNewTokens, Same
  <2> QED
    BY <2>3, <2>4, <2>5, <2>8, <2>9, <2>10 DEF Steady, TablesClean
<1> QED
  BY <1>2, <1>3

LEMMA UnbindCommitCleans ==
  ASSUME Logins!CredentialsAssumption, CleanInv, NEW q \in CallIds, Logins!UnbindCommit(q)
  PROVE  Steady /\ TablesClean'
<1>0. Typed
  BY DEF CleanInv, LockInv
<1>1. CASE req[q].refused
  <2>1. UNCHANGED Logins!tables
    BY <1>1 DEF Logins!UnbindCommit
  <2>2. tokens' = tokens /\ refresh' = refresh
    BY <2>1 DEF Logins!tables
  <2> QED
    BY <2>1, <2>2, SteadySame, TablesSame
<1>2. CASE ~req[q].refused
  <2>1. PICK i : i = req[q].ident
    OBVIOUS
  <2>2. /\ req[q] \in Unbinds /\ req[q].pc = "commit" /\ tokens' = Logins!Unbound(q)
        /\ Sets(refresh', req[q].rows, "gone")
        /\ bound' = bound \ {i} /\ ever' = ever /\ regs' \subseteq regs
        /\ \A k \in req[q].doomed : tokens[k].session \notin regs'
    BY <1>0, <1>2, <2>1, UnbindCommitDoes
  <2>3. i \in Identities /\ i # NoIdentity /\ Taken(i, req[q].doomed, req[q].rows)
    BY <2>1, <2>2 DEF Unbinds, Logins!CredentialsAssumption, CleanInv, CallsClean, CallOf,
       Sweeping
  <2>4. /\ DOMAIN tokens' = DOMAIN tokens
        /\ \A k \in DOMAIN tokens :
             /\ k \notin req[q].doomed => tokens'[k] = tokens[k]
             /\ k \in req[q].doomed => tokens'[k].state = "revoked"
             /\ tokens'[k].perm = tokens[k].perm /\ tokens'[k].session = tokens[k].session
             /\ tokens'[k].root = tokens[k].root
             /\ tokens[k].ident # i => tokens'[k].ident = tokens[k].ident
             /\ k \in req[q].doomed /\ tokens[k].ident = i => tokens'[k].ident = NoIdentity
    BY <1>0, <2>1, <2>2, UnboundIs
  <2>5. Heads
    BY <2>4 DEF Heads
  <2>6. \A k \in DOMAIN tokens : tokens[k].ident = i => k \in req[q].doomed
    BY <2>3 DEF Taken
  <2>7. ASSUME NEW k \in DOMAIN tokens, ~tokens[k].perm
        PROVE  /\ tokens'[k].root \in ever'
               /\ tokens'[k].root \in bound' => tokens'[k].ident = tokens'[k].root
               /\ tokens'[k].root \notin bound' => tokens'[k].state = "revoked"
    <3>1. /\ tokens[k].root \in ever
          /\ tokens[k].root \in bound => tokens[k].ident = tokens[k].root
          /\ tokens[k].root \notin bound => tokens[k].state = "revoked"
      BY <2>7 DEF CleanInv, TablesClean, Roots
    <3>2. tokens'[k].root = tokens[k].root
      BY <2>4
    <3>3. CASE tokens[k].root \in bound /\ tokens[k].root # i
      BY <2>2, <2>4, <3>1, <3>2, <3>3
    <3>4. CASE tokens[k].root \in bound /\ tokens[k].root = i
      BY <2>2, <2>4, <2>6, <3>1, <3>2, <3>4
    <3>5. CASE tokens[k].root \notin bound
      BY <2>2, <2>4, <3>1, <3>2, <3>5
    <3> QED
      BY <3>3, <3>4, <3>5
  <2>8. Roots'
    BY <2>4, <2>7 DEF Roots
  <2>9. Sessions'
    BY <2>4, <2>5, SessionsStay
  <2>10. ASSUME NEW r \in DOMAIN refresh, refresh'[r].state \notin {"gone", "lapsed"}
         PROVE  /\ refresh[r].state \notin {"gone", "lapsed"}
                /\ refresh[r].ident \in bound => refresh[r].ident \in bound'
    <3>1. r \notin req[q].rows /\ refresh'[r] = refresh[r]
      BY <2>2, <2>10 DEF Sets
    <3>2. refresh[r].ident # i
      BY <2>3, <2>10, <3>1 DEF Taken
    <3> QED
      BY <2>2, <2>10, <3>1, <3>2
  <2>11. RowIdents /\ RowSessions' /\ \A j : NoNewRows(j)
    BY <2>2, <2>5, <2>10, RowsSetClean
  <2>12. ASSUME NEW s \in regs'
         PROVE  /\ s \in DOMAIN tokens' /\ tokens'[s].session = s
                /\ tokens'[s].perm \/ tokens'[s].root \in bound'
    <3>1. /\ s \in DOMAIN tokens /\ tokens[s].session = s
          /\ tokens[s].perm \/ tokens[s].root \in bound
      BY <2>2 DEF CleanInv, TablesClean, RegsHeld
    <3>2. s \notin req[q].doomed
      BY <2>2, <3>1
    <3>3. tokens[s].ident # i
      BY <2>6, <3>1, <3>2
    <3>4. ~tokens[s].perm => tokens[s].root # i
      BY <3>1, <3>3 DEF CleanInv, TablesClean, Roots
    <3> QED
      BY <2>2, <2>4, <3>1, <3>4
  <2>13. RegsHeld'
    BY <2>12 DEF RegsHeld
  <2>14. \A j \in Identities : NoNewTokens(j)
    <3>1. NoIdentity \notin Identities
      BY DEF Logins!CredentialsAssumption
    <3> QED
      BY <2>4, <2>6, <3>1 DEF NoNewTokens
  <2> QED
    BY <2>5, <2>8, <2>9, <2>11, <2>13, <2>14 DEF Steady, TablesClean
<1> QED
  BY <1>1, <1>2

LEMMA WritingCleans ==
  ASSUME Logins!CredentialsAssumption, CleanInv, NEW q \in CallIds, Filling(q)
  PROVE  TablesClean' /\ CallsClean' /\ ShareFree'
<1> DEFINE Good == TablesClean' /\ CallsClean' /\ ShareFree'
<1>0. Typed
  BY DEF CleanInv, LockInv
<1>1. ASSUME Logins!BootToken(q) PROVE Good
  <2>1. PICK rec : rec = Logins!Permanent(0, NoIdentity, TRUE)
    OBVIOUS
  <2>2. rec.perm /\ rec.ident = NoIdentity /\ rec.session = Len(tokens) + 1
    BY <2>1 DEF Logins!Permanent, Logins!NewSession
  <2>3. NewToken(rec)
    BY <1>0, <1>1, <2>1, BootTokenDoes
  <2>4. Logins!End(q) /\ bound' = bound /\ ever' = ever /\ refresh' = refresh /\ regs' = regs
    BY <1>1 DEF Logins!BootToken
  <2> QED
    BY <2>2, <2>3, <2>4, PermanentCleans, CleanEnd
<1>2. ASSUME Logins!MintInsert(q) PROVE Good
  <2>1. PICK rec : rec = Logins!Permanent(req[q].parent, tokens[req[q].parent].root, FALSE)
    OBVIOUS
  <2>2. rec.perm /\ rec.ident = NoIdentity /\ rec.session = Len(tokens) + 1
    BY <2>1 DEF Logins!Permanent, Logins!NewSession
  <2>3. NewToken(rec)
    BY <1>0, <1>2, <2>1, MintInsertDoes
  <2>4. Logins!End(q) /\ bound' = bound /\ ever' = ever /\ refresh' = refresh /\ regs' = regs
    BY <1>2 DEF Logins!MintInsert
  <2> QED
    BY <2>2, <2>3, <2>4, PermanentCleans, CleanEnd
<1>3. ASSUME Logins!SignInPair(q) \/ Logins!RotateAccess(q) \/ Logins!EndCommit(q) \/ Logins!UnbindCommit(q) PROVE Good
  <2>1. Logins!End(q)
    BY <1>3 DEF Logins!SignInPair, Logins!RotateAccess, Logins!EndCommit, Logins!UnbindCommit
  <2>2. Steady /\ TablesClean'
    BY <1>3, SignInPairCleans, RotateAccessCleans, EndCommitCleans, UnbindCommitCleans
  <2> QED
    BY <2>1, <2>2, CleanEnd
<1>4. ASSUME NEW i \in Identities, Logins!BootPair(q, i) PROVE Good
  <2>1. Logins!End(q)
    BY <1>4 DEF Logins!BootPair
  <2> QED
    BY <1>4, <2>1, BootPairCleans, CleanEnd
<1>5. ASSUME Logins!RotateCommit(q) PROVE Good
  BY <1>5, RotateCommitCleans, CleanMove
<1>6. ASSUME NEW i \in Identities, Logins!SignIn(q, i) PROVE Good
  <2>1. PICK s, rec : s = Logins!NewSession /\ rec = Logins!Access(i, s)
    OBVIOUS
  <2>2. /\ NewToken(rec) /\ Others(q) /\ req'[q].op = "signin" /\ req'[q].pc = "pair"
        /\ req'[q].ident = i /\ req'[q].session = s
    BY <1>0, <1>6, <2>1, SignInDoes
  <2>3. /\ i \in bound /\ Logins!Unbinding(i) = {}
        /\ bound' = bound /\ ever' = ever /\ refresh' = refresh /\ regs' = regs
    BY <1>6 DEF Logins!SignIn
  <2>4. Steady /\ TablesClean'
    BY <2>1, <2>2, <2>3, NewSessionCleans
  <2>5. ~rec.perm /\ rec.root = i /\ rec.session = s /\ s = Len(tokens) + 1
    BY <2>1 DEF Logins!Access, Logins!NewSession
  <2>6. SessionOf(rec.root, rec.session)'
    BY <2>2, <2>5, SessionNew
  <2>7. SessionOf(req[q].ident, req[q].session)'
    BY <2>2, <2>5, <2>6
  <2>8. CallOf(q)' /\ ShareRight(q)
    BY <2>2, <2>7 DEF CallOf, ShareRight, Sweeping, Bars
  <2> QED
    BY <2>2, <2>4, <2>8, CleanMove
<1>7. ASSUME NEW u \in CallIds, Logins!DeadlockVictim(q, u) PROVE Good
  <2>1. UNCHANGED Logins!tables /\ (Logins!End(q) \/ Logins!End(u))
    BY <1>7 DEF Logins!DeadlockVictim
  <2>2. Steady /\ TablesClean'
    BY <2>1, SteadySame, TablesSame DEF Logins!tables
  <2> QED
    BY <2>1, <2>2, CleanEnd
<1> QED
  BY <1>1, <1>2, <1>3, <1>4, <1>5, <1>6, <1>7 DEF Filling

LEMMA ApartCleans ==
  ASSUME Logins!CredentialsAssumption, CleanInv,
         Apart PROVE Steady /\ TablesClean' /\ req' = req
<1> DEFINE Good == Steady /\ TablesClean'
<1>0. Typed
  BY DEF CleanInv, LockInv
<1>a. req' = req
  BY DEF Apart, Logins!IssueToken, Logins!Bind, Logins!SignInNative, Logins!Register,
     Logins!ExpireToken, Logins!ExpireRefresh, Logins!Sweep
<1>1. ASSUME Logins!IssueToken PROVE Good
  <2>1. PICK rec : rec = Logins!Permanent(0, NoIdentity, FALSE)
    OBVIOUS
  <2>2. rec.perm /\ rec.ident = NoIdentity /\ rec.session = Len(tokens) + 1
    BY <2>1 DEF Logins!Permanent, Logins!NewSession
  <2>3. NewToken(rec)
    BY <1>0, <1>1, <2>1, IssueTokenDoes
  <2>4. bound' = bound /\ ever' = ever /\ refresh' = refresh /\ regs' = regs
    BY <1>1 DEF Logins!IssueToken
  <2> QED
    BY <2>2, <2>3, <2>4, PermanentCleans
<1>2. ASSUME NEW i \in Identities, Logins!Bind(i) PROVE Good
  <2>1. /\ bound' = bound \cup {i} /\ ever' = ever \cup {i} /\ i \notin ever
        /\ tokens' = tokens /\ refresh' = refresh /\ regs' = regs
    BY <1>2 DEF Logins!Bind
  <2>2. Binds
    BY <1>0, <2>1 DEF Binds, Typed, Logins!TypeOK
  <2>3. Heads /\ Roots' /\ Sessions'
    BY <2>1, <2>2, TokensKeep
  <2>4. RowSessions' /\ RegsHeld'
    BY <2>1, <2>3, RowsKeep, RegsKeep
  <2> QED
    BY <2>1, <2>3, <2>4, SteadySame DEF TablesClean
<1>3. ASSUME NEW i \in Identities, Logins!SignInNative(i) PROVE Good
  <2>1. /\ i \in bound /\ Logins!Unbinding(i) = {} /\ bound' = bound /\ ever' = ever /\ regs' = regs
    BY <1>3 DEF Logins!SignInNative
  <2> QED
    BY <1>0, <1>3, <2>1, SignInNativeDoes, NewSessionCleans
<1>4. ASSUME NEW k \in DOMAIN tokens, Logins!Register(k) PROVE Good
  <2>1. /\ tokens' = tokens /\ refresh' = refresh /\ bound' = bound /\ ever' = ever
        /\ regs' = regs \cup {tokens[k].session} /\ tokens[k].state = "live"
    BY <1>4 DEF Logins!Register
  <2>2. Heads /\ Roots' /\ Sessions'
    BY <2>1, BindsSame, TokensKeep
  <2>3. RowSessions'
    BY <2>1, <2>2, RowsKeep
  <2>4. PICK s : s = tokens[k].session
    OBVIOUS
  <2>5. /\ s \in DOMAIN tokens /\ tokens[s].session = s
        /\ tokens[s].perm \/ tokens[s].root \in bound
    <3>1. CASE tokens[k].perm
      BY <2>4, <3>1 DEF CleanInv, TablesClean, Sessions
    <3>2. CASE ~tokens[k].perm
      <4>1. SessionOf(tokens[k].root, s)
        BY <2>4, <3>2 DEF CleanInv, TablesClean, Sessions
      <4>2. tokens[k].root \in bound
        BY <2>1, <3>2 DEF CleanInv, TablesClean, Roots
      <4> QED
        BY <4>1, <4>2 DEF SessionOf
    <3> QED
      BY <3>1, <3>2
  <2>6. RegsHeld'
    BY <2>1, <2>4, <2>5 DEF CleanInv, TablesClean, RegsHeld
  <2> QED
    BY <2>1, <2>2, <2>3, <2>6, SteadySame DEF TablesClean
<1>5. ASSUME NEW k \in DOMAIN tokens, Logins!ExpireToken(k) PROVE Good
  <2>1. /\ DOMAIN tokens' = DOMAIN tokens
        /\ \A j \in DOMAIN tokens : /\ Same(tokens[j], tokens'[j])
                                    /\ tokens[j].state = "revoked" => tokens'[j] = tokens[j]
    BY <1>0, <1>5, ExpireTokenDoes
  <2>2. refresh' = refresh /\ bound' = bound /\ ever' = ever /\ regs' = regs
    BY <1>5 DEF Logins!ExpireToken
  <2>3. Heads
    BY <2>1 DEF Heads, Same
  <2>4. Roots'
    BY <2>1, <2>2 DEF CleanInv, TablesClean, Roots, Same
  <2>5. Sessions'
    BY <2>1, <2>3, SessionsStay
  <2>6. RowIdents /\ RowSessions' /\ RegsHeld'
    BY <2>2, <2>3, RowsKeep, RegsKeep
  <2>7. \A i : NoNewTokens(i) /\ NoNewRows(i)
    BY <2>1, <2>2 DEF NoNewTokens, NoNewRows, Same
  <2> QED
    BY <2>3, <2>4, <2>5, <2>6, <2>7 DEF Steady, TablesClean
<1>6. ASSUME NEW r \in DOMAIN refresh, Logins!ExpireRefresh(r) \/ Logins!Sweep(r) PROVE Good
  <2>1. /\ tokens' = tokens /\ bound' = bound /\ ever' = ever /\ regs' = regs
        /\ refresh[r].state \in {"active", "expired", "revoked"}
    BY <1>6 DEF Logins!ExpireRefresh, Logins!Sweep
  <2>2. PICK n : Sets(refresh', {r}, n)
    BY <1>0, <1>6, ExpireRefreshDoes, SweepDoes
  <2>3. Heads /\ Roots' /\ Sessions'
    BY <2>1, BindsSame, TokensKeep
  <2>4. \A x \in DOMAIN refresh : refresh'[x].state \notin {"gone", "lapsed"} => refresh[x].state \notin {"gone", "lapsed"}
    BY <2>1, <2>2 DEF Sets
  <2>5. RowIdents /\ RowSessions' /\ \A i : NoNewRows(i)
    BY <2>1, <2>2, <2>3, <2>4, RowsSetClean
  <2>6. RegsHeld' /\ \A i : NoNewTokens(i)
    BY <2>1, <2>3, RegsKeep, NoneNew
  <2> QED
    BY <2>3, <2>5, <2>6 DEF Steady, TablesClean
<1> QED
  BY <1>a, <1>1, <1>2, <1>3, <1>4, <1>5, <1>6 DEF Apart

LEMMA NextClean == ASSUME Logins!CredentialsAssumption, CleanInv, [Logins!Next]_Logins!vars PROVE CleanInv'
<1> DEFINE Good == TablesClean' /\ CallsClean' /\ ShareFree'
<1>0. LockInv' /\ RowInv' /\ Hits'
  BY NextLock, NextRow, NextHits DEF CleanInv
<1>1. ASSUME NEW q \in CallIds, Moving(q) PROVE Good
  <2>1. Others(q) /\ UNCHANGED Logins!tables
    BY <1>1, MovingLocks DEF CleanInv
  <2>2. Steady /\ TablesClean'
    BY <2>1, SteadySame, TablesSame DEF Logins!tables
  <2> QED
    BY <1>1, <2>1, <2>2, MovingCleans, CleanMove
<1>2. ASSUME NEW q \in CallIds, Filling(q) PROVE Good
  BY <1>2, WritingCleans
<1>3. ASSUME Apart PROVE Good
  BY <1>3, ApartCleans, CleanRest
<1>4. ASSUME UNCHANGED Logins!vars PROVE Good
  <2>1. req' = req /\ UNCHANGED Logins!tables
    BY <1>4 DEF Logins!vars, Logins!tables
  <2>2. Steady /\ TablesClean'
    BY <2>1, SteadySame, TablesSame DEF Logins!tables
  <2> QED
    BY <2>1, <2>2, CleanRest
<1>5. Good
  BY <1>1, <1>2, <1>3, <1>4, NextIs
<1> QED
  BY <1>0, <1>5 DEF CleanInv

LEMMA CleanIsClean == ASSUME TablesClean, bound \subseteq ever PROVE Logins!UnboundIsClean
<1> SUFFICES ASSUME NEW i \in ever \ bound
             PROVE  /\ \A k \in DOMAIN tokens : ~tokens[k].perm /\ tokens[k].root = i =>
                         tokens[k].state = "revoked" /\ tokens[k].session \notin regs
                    /\ Logins!OfIdentity(i) = {}
  BY DEF Logins!UnboundIsClean
<1>1. ASSUME NEW k \in DOMAIN tokens, ~tokens[k].perm, tokens[k].root = i
      PROVE  tokens[k].state = "revoked" /\ tokens[k].session \notin regs
  <2>1. tokens[k].state = "revoked"
    BY <1>1 DEF TablesClean, Roots
  <2>2. PICK s : s = tokens[k].session
    OBVIOUS
  <2>3. SessionOf(i, s)
    BY <1>1, <2>2 DEF TablesClean, Sessions
  <2>4. s \notin regs
    BY <2>3 DEF TablesClean, RegsHeld, SessionOf
  <2> QED
    BY <2>1, <2>2, <2>4
<1>2. Logins!OfIdentity(i) = {}
  BY DEF TablesClean, RowSessions, Logins!OfIdentity
<1> QED
  BY <1>1, <1>2

\* Whatever sign-ins and rotations are in flight when an identity is unbound, its access tokens
\* are revoked, its refresh tokens deleted and its sessions without push registrations, and none
\* comes back: the inserts that reference the identity wait for the unbind that holds it and find
\* it gone, and the unbind waits for the rotations that share it.
THEOREM UnboundCorrect == ASSUME Logins!CredentialsAssumption PROVE Logins!Spec => []Logins!UnboundIsClean
<1>1. Logins!Init => CleanInv
  <2> SUFFICES ASSUME Logins!Init PROVE CleanInv
    OBVIOUS
  <2>1. \A q \in CallIds : req[q].op = "none" /\ req[q].pc = "idle"
    BY DEF Logins!Init, Logins!Idle
  <2>2. DOMAIN tokens = {} /\ DOMAIN refresh = {} /\ regs = {}
    BY DEF Logins!Init
  <2>3. OneLocker /\ Rotating /\ Hits /\ CallsClean /\ ShareFree
    BY <2>1 DEF OneLocker, Locks, Rotating, Hits, HitOf, CallsClean, CallOf, Sweeping,
       ShareFree
  <2>4. FromSpent /\ Logins!RotatedOnce /\ TablesClean
    BY <2>2 DEF FromSpent, Logins!RotatedOnce, TablesClean, Roots, Sessions, RowSessions,
       RegsHeld
  <2> QED
    BY <2>3, <2>4, InitLock, InitTyped DEF CleanInv, RowInv
<1>2. CleanInv /\ [Logins!Next]_Logins!vars => CleanInv'
  BY NextClean
<1>3. CleanInv => Logins!UnboundIsClean
  BY CleanIsClean DEF CleanInv, LockInv, Typed, Logins!TypeOK
<1> QED
  BY <1>1, <1>2, <1>3, PTL DEF Logins!Spec

==============================================================================
