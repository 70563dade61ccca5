----------------------------- MODULE MCAccounts -----------------------------
(***************************************************************************)
(* The accounts and what signs them in: AccountLifecycle, OAuthAcquire,    *)
(* LoginGrant, Verification, VerificationRooms and Credentials. They share *)
(* no state here. A behaviour is of one scene, an instance of one of the   *)
(* components: a variable that two of them have is declared once, and the  *)
(* variables a component does not have are 0 in its scenes.                *)
(***************************************************************************)
EXTENDS Naturals, Sequences, TLC

CONSTANTS
  Scenes,  \* the scenes of a run
  atBoot, NoOne, q1, q2, n1, i1, i2, f1, f2, u1, v1, v2, a1, a2, c1, c2, r1, r2, e1, e2, h1,
  h2, None, Old

VARIABLES
  scene,  \* the scene this behaviour is of
  row, sess, verified, minted, store, prev, devs, signed, slot, slotLock, cur, gens, owner,
  reg, task, req, send, up, tried, faults, drops, crashes, timeouts, fails, flow, registry,
  acct, count, verb, super, sdk, drv, start, call, hold, made, handled, taken, hnd, loop,
  service, bound, ever, tokens, refresh, regs, credLock, bootLock

-----------------------------------------------------------------------------
\* The verbs of the account API (requests q1, q2, a send n1), the supervised tasks and the
\* boot.

\* Two requests for one identity, with a drain that times out and a failing run.
Verbal == INSTANCE AccountLifecycle WITH
  Reqs <- {q1, q2}, Boot <- atBoot, Senders <- {n1}, Verbs <- {"login", "logout", "delete"},
  MaxIds <- 2, MaxDevs <- 2, MaxTasks <- 2, MaxGens <- 2, MaxFaults <- 0, MaxDrops <- 0,
  MaxCrashes <- 0, MaxTimeouts <- 1, MaxFails <- 1

\* The same with a failing step and a crash, and no timeout.
Stored == INSTANCE AccountLifecycle WITH
  Reqs <- {q1, q2}, Boot <- atBoot, Senders <- {n1}, Verbs <- {"login", "logout", "delete"},
  MaxIds <- 2, MaxDevs <- 2, MaxTasks <- 2, MaxGens <- 2, MaxFaults <- 1, MaxDrops <- 0,
  MaxCrashes <- 1, MaxTimeouts <- 0, MaxFails <- 1

\* One request with every fault, and a login after an interrupted one.
Gone == INSTANCE AccountLifecycle WITH
  Reqs <- {q1}, Boot <- atBoot, Senders <- {n1}, Verbs <- {"login", "logout", "delete"},
  MaxIds <- 2, MaxDevs <- 3, MaxTasks <- 2, MaxGens <- 2, MaxFaults <- 1, MaxDrops <- 1,
  MaxCrashes <- 1, MaxTimeouts <- 0, MaxFails <- 0

\* Logins, logouts and recoveries, and the watcher of the device.
Verified == INSTANCE AccountLifecycle WITH
  Reqs <- {q1, q2}, Boot <- atBoot, Senders <- {}, Verbs <- {"login", "logout", "recover"},
  MaxIds <- 1, MaxDevs <- 2, MaxTasks <- 2, MaxGens <- 2, MaxFaults <- 0, MaxDrops <- 0,
  MaxCrashes <- 0, MaxTimeouts <- 0, MaxFails <- 1

\* Two requests and no drain timeout to help them.
Waiting == INSTANCE AccountLifecycle WITH
  Reqs <- {q1, q2}, Boot <- atBoot, Senders <- {n1}, Verbs <- {"login", "logout", "delete"},
  MaxIds <- 1, MaxDevs <- 2, MaxTasks <- 2, MaxGens <- 2, MaxFaults <- 0, MaxDrops <- 0,
  MaxCrashes <- 0, MaxTimeouts <- 0, MaxFails <- 1

\* One request and two crashes.
Resuming == INSTANCE AccountLifecycle WITH
  Reqs <- {q1}, Boot <- atBoot, Senders <- {}, Verbs <- {"login", "logout", "delete"},
  MaxIds <- 1, MaxDevs <- 2, MaxTasks <- 2, MaxGens <- 2, MaxFaults <- 0, MaxDrops <- 0,
  MaxCrashes <- 2, MaxTimeouts <- 0, MaxFails <- 0

-----------------------------------------------------------------------------
\* Sign-in by the OAuth API of the homeserver.

\* A browser and a displayed code for one user, with a verb, a fault and two crashes.
Acquiring == INSTANCE OAuthAcquire WITH
  Flows <- {f1, f2}, Users <- {u1}, UserOf <- [f \in {f1, f2} |-> u1], MethodOf <- [f \in
  {f1, f2} |-> IF f = f1 THEN "browser" ELSE "display"], Verbs <- {"login", "delete"},
  MaxConcurrent <- 2, MaxRetained <- 2, MaxVerbs <- 1, MaxFaults <- 1, MaxDrops <- 0,
  MaxCrashes <- 1

\* Two browsers for one user, a dropped request and a crash.
Browsing == INSTANCE OAuthAcquire WITH
  Flows <- {f1, f2}, Users <- {u1}, UserOf <- [f \in {f1, f2} |-> u1],
  MethodOf <- [f \in {f1, f2} |-> "browser"], Verbs <- {"login", "logout", "delete"},
  MaxConcurrent <- 2, MaxRetained <- 2, MaxVerbs <- 1, MaxFaults <- 0, MaxDrops <- 1,
  MaxCrashes <- 1

\* A registry that retains one flow.
Full == INSTANCE OAuthAcquire WITH
  Flows <- {f1, f2}, Users <- {u1}, UserOf <- [f \in {f1, f2} |-> u1],
  MethodOf <- [f \in {f1, f2} |-> "browser"], Verbs <- {}, MaxConcurrent <- 2,
  MaxRetained <- 1, MaxVerbs <- 0, MaxFaults <- 0, MaxDrops <- 0, MaxCrashes <- 1

\* A browser, a scanned code and a crash.
Scanning == INSTANCE OAuthAcquire WITH
  Flows <- {f1, f2}, Users <- {u1}, UserOf <- [f \in {f1, f2} |-> u1], MethodOf <- [f \in
  {f1, f2} |-> IF f = f1 THEN "browser" ELSE "scan"], Verbs <- {}, MaxConcurrent <- 2,
  MaxRetained <- 2, MaxVerbs <- 0, MaxFaults <- 0, MaxDrops <- 0, MaxCrashes <- 1

-----------------------------------------------------------------------------
\* Grants: a signed-in account lets another device in.

\* Two grants of one account, in a registry that retains one, and a deletion.
Granting == INSTANCE LoginGrant WITH
  Flows <- {f1, f2}, Accounts <- {a1}, Verbs <- {v1},
  AccountOf <- [x \in {f1, f2, v1} |-> a1], ScanFlows <- {},
  KindOf <- [v \in {v1} |-> "delete"], MaxConcurrent <- 2, MaxRetained <- 1, MaxRuns <- 2,
  MaxFails <- 0, MaxDrops <- 0

\* A grant, a logout and a login, with a failing run and a dropped request.
Guarding == INSTANCE LoginGrant WITH
  Flows <- {f1}, Accounts <- {a1}, Verbs <- {v1, v2},
  AccountOf <- [x \in {f1, v1, v2} |-> a1], ScanFlows <- {f1}, KindOf <- [v \in {v1, v2} |->
  IF v = v1 THEN "logout" ELSE "login"], MaxConcurrent <- 2, MaxRetained <- 2, MaxRuns <- 2,
  MaxFails <- 1, MaxDrops <- 1

\* Grants of two accounts in a registry that retains one.
Bounded == INSTANCE LoginGrant WITH
  Flows <- {f1, f2}, Accounts <- {a1, a2}, Verbs <- {},
  AccountOf <- [x \in {f1, f2} |-> IF x = f2 THEN a2 ELSE a1], ScanFlows <- {},
  KindOf <- [v \in {} |-> "delete"],
  MaxConcurrent <- 2, MaxRetained <- 1, MaxRuns <- 2, MaxFails <- 0, MaxDrops <- 0

\* A grant, a logout and a recovery of one account.
Locking == INSTANCE LoginGrant WITH
  Flows <- {f1}, Accounts <- {a1}, Verbs <- {v1, v2},
  AccountOf <- [x \in {f1, v1, v2} |-> a1], ScanFlows <- {f1}, KindOf <- [v \in {v1, v2} |->
  IF v = v1 THEN "logout" ELSE "recover"], MaxConcurrent <- 2, MaxRetained <- 2,
  MaxRuns <- 2, MaxFails <- 1, MaxDrops <- 0

-----------------------------------------------------------------------------
\* Device verification.

\* A flow of the API against a peer that starts too, with a confirm and a cancel.
Comparing == INSTANCE Verification WITH
  Flows <- {f1}, Outgoing <- {f1}, Calls <- {c1, c2}, FlowOf <- [c \in {c1, c2} |-> f1],
  Confirms <- {c1}, EarlyDone <- TRUE, MaxFails <- 0

\* An incoming flow, a failing run and a logout.
Tearing == INSTANCE Verification WITH
  Flows <- {f1}, Outgoing <- {}, Calls <- {c1}, FlowOf <- [c \in {c1} |-> f1],
  Confirms <- {}, EarlyDone <- FALSE, MaxFails <- 1

\* An incoming flow, a confirm and a logout.
Confirming == INSTANCE Verification WITH
  Flows <- {f1}, Outgoing <- {}, Calls <- {c1}, FlowOf <- [c \in {c1} |-> f1],
  Confirms <- {c1}, EarlyDone <- TRUE, MaxFails <- 0

\* The same with a failing run, and a peer whose MAC comes before its done.
Ending == INSTANCE Verification WITH
  Flows <- {f1}, Outgoing <- {}, Calls <- {c1}, FlowOf <- [c \in {c1} |-> f1],
  Confirms <- {c1}, EarlyDone <- FALSE, MaxFails <- 1

-----------------------------------------------------------------------------
\* Rooms subscribed for verification.

\* Requests in two rooms, one of our own user's.
Requesting == INSTANCE VerificationRooms WITH
  Rooms <- {r1, r2}, Events <- {e1, e2},
  RoomOf <- [e \in {e1, e2} |-> IF e = e1 THEN r1 ELSE r2], OwnEvents <- {e2}, Starts <- {},
  Handlers <- {h1}, MaxJoins <- 1, MaxDeliver <- 2, MaxRestarts <- 1, MaxExpiries <- 0

\* Two handlers of one event, whose memory lapses.
Minting == INSTANCE VerificationRooms WITH
  Rooms <- {r1}, Events <- {e1}, RoomOf <- [e \in {e1} |-> r1], OwnEvents <- {e1},
  Starts <- {}, Handlers <- {h1, h2}, MaxJoins <- 1, MaxDeliver <- 3, MaxRestarts <- 1,
  MaxExpiries <- 1

\* An incoming and an outgoing flow in one room.
Subscribing == INSTANCE VerificationRooms WITH
  Rooms <- {r1}, Events <- {e1, e2}, RoomOf <- [e \in {e1, e2} |-> r1], OwnEvents <- {},
  Starts <- {e2}, Handlers <- {h1}, MaxJoins <- 1, MaxDeliver <- 2, MaxRestarts <- 1,
  MaxExpiries <- 1

-----------------------------------------------------------------------------
\* The tokens of clients (requests q1, q2).

\* Bootstrap, sign-in and unbinding of two identities.
Guarded == INSTANCE Credentials WITH
  Identities <- {i1, i2}, Requests <- {q1, q2}, Calls <- {"bootstrap", "cli", "native",
  "mint", "revoke", "unbind"}, MaxTokens <- 3, MaxRefresh <- 1

\* Three refresh tokens, rotated, replayed, expired and swept.
Replaying == INSTANCE Credentials WITH
  Identities <- {i1}, Requests <- {q1, q2}, Calls <- {"cli", "native", "rotate", "revoke",
  "expire", "sweep", "register"},
  MaxTokens <- 2, MaxRefresh <- 3

\* Rotation, revocation, unbinding and registrations of one identity.
Rotating == INSTANCE Credentials WITH
  Identities <- {i1}, Requests <- {q1, q2}, Calls <- {"cli", "signin", "native", "rotate",
  "revoke", "unbind", "unguarded", "register"}, MaxTokens <- 2,
  MaxRefresh <- 2

-----------------------------------------------------------------------------
\* The constants of every instance are what its module assumes.
ASSUME EveryInstance ==
  /\ Verbal!BoundsAreNaturals
  /\ Stored!BoundsAreNaturals
  /\ Gone!BoundsAreNaturals
  /\ Verified!BoundsAreNaturals
  /\ Waiting!BoundsAreNaturals
  /\ Resuming!BoundsAreNaturals
  /\ Acquiring!AcquireAssumption
  /\ Browsing!AcquireAssumption
  /\ Full!AcquireAssumption
  /\ Scanning!AcquireAssumption
  /\ Granting!GrantAssumption
  /\ Guarding!GrantAssumption
  /\ Bounded!GrantAssumption
  /\ Locking!GrantAssumption
  /\ Comparing!VerificationAssumption
  /\ Tearing!VerificationAssumption
  /\ Confirming!VerificationAssumption
  /\ Ending!VerificationAssumption
  /\ Requesting!RoomsAssumption
  /\ Minting!RoomsAssumption
  /\ Subscribing!RoomsAssumption
  /\ Guarded!CredentialsAssumption
  /\ Replaying!CredentialsAssumption
  /\ Rotating!CredentialsAssumption

\* These are interchangeable in the runs that check no liveness property.
Symmetry == Permutations({q1, q2}) \cup Permutations({i1, i2})

\* The variables of each component, and what it leaves alone.
accountLifecycleVars == <<row, sess, verified, minted, store, prev, devs, signed, slot,
                          slotLock, cur, gens, owner, reg, task, req, send, up, tried,
                          faults, drops, crashes, timeouts, fails>>
oAuthAcquireVars == <<flow, registry, acct, up, count>>
loginGrantVars == <<flow, registry, owner, acct, verb, super, count>>
verificationVars == <<sdk, drv, reg, start, call, acct, super>>
verificationRoomsVars == <<hold, flow, made, handled, taken, sdk, hnd, loop, service, count>>
credentialsVars == <<bound, ever, tokens, refresh, regs, credLock, bootLock, req>>

accountLifecycleElse == <<scene, flow, registry, acct, count, verb, super, sdk, drv, start,
                          call, hold, made, handled, taken, hnd, loop, service, bound, ever,
                          tokens, refresh, regs, credLock, bootLock>>
oAuthAcquireElse == <<scene, row, sess, verified, minted, store, prev, devs, signed, slot,
                      slotLock, cur, gens, owner, reg, task, req, send, tried, faults,
                      drops, crashes, timeouts, fails, verb, super, sdk, drv, start, call,
                      hold, made, handled, taken, hnd, loop, service, bound, ever, tokens,
                      refresh, regs, credLock, bootLock>>
loginGrantElse == <<scene, row, sess, verified, minted, store, prev, devs, signed, slot,
                    slotLock, cur, gens, reg, task, req, send, up, tried, faults, drops,
                    crashes, timeouts, fails, sdk, drv, start, call, hold, made, handled,
                    taken, hnd, loop, service, bound, ever, tokens, refresh, regs, credLock,
                    bootLock>>
verificationElse == <<scene, row, sess, verified, minted, store, prev, devs, signed, slot,
                      slotLock, cur, gens, owner, task, req, send, up, tried, faults, drops,
                      crashes, timeouts, fails, flow, registry, count, verb, hold, made,
                      handled, taken, hnd, loop, service, bound, ever, tokens, refresh,
                      regs, credLock, bootLock>>
verificationRoomsElse == <<scene, row, sess, verified, minted, store, prev, devs, signed,
                           slot, slotLock, cur, gens, owner, reg, task, req, send, up,
                           tried, faults, drops, crashes, timeouts, fails, registry, acct,
                           verb, super, drv, start, call, bound, ever, tokens, refresh,
                           regs, credLock, bootLock>>
credentialsElse == <<scene, row, sess, verified, minted, store, prev, devs, signed, slot,
                     slotLock, cur, gens, owner, reg, task, send, up, tried, faults, drops,
                     crashes, timeouts, fails, flow, registry, acct, count, verb, super,
                     sdk, drv, start, call, hold, made, handled, taken, hnd, loop, service>>

AccountLifecycleAlone ==
  /\ flow = 0 /\ registry = 0 /\ acct = 0 /\ count = 0 /\ verb = 0 /\ super = 0 /\ sdk = 0
  /\ drv = 0 /\ start = 0 /\ call = 0 /\ hold = 0 /\ made = 0 /\ handled = 0 /\ taken = 0
  /\ hnd = 0 /\ loop = 0 /\ service = 0 /\ bound = 0 /\ ever = 0 /\ tokens = 0
  /\ refresh = 0 /\ regs = 0 /\ credLock = 0 /\ bootLock = 0
OAuthAcquireAlone ==
  /\ row = 0 /\ sess = 0 /\ verified = 0 /\ minted = 0 /\ store = 0 /\ prev = 0 /\ devs = 0
  /\ signed = 0 /\ slot = 0 /\ slotLock = 0 /\ cur = 0 /\ gens = 0 /\ owner = 0 /\ reg = 0
  /\ task = 0 /\ req = 0 /\ send = 0 /\ tried = 0 /\ faults = 0 /\ drops = 0 /\ crashes = 0
  /\ timeouts = 0 /\ fails = 0 /\ verb = 0 /\ super = 0 /\ sdk = 0 /\ drv = 0 /\ start = 0
  /\ call = 0 /\ hold = 0 /\ made = 0 /\ handled = 0 /\ taken = 0 /\ hnd = 0 /\ loop = 0
  /\ service = 0 /\ bound = 0 /\ ever = 0 /\ tokens = 0 /\ refresh = 0 /\ regs = 0
  /\ credLock = 0 /\ bootLock = 0
LoginGrantAlone ==
  /\ row = 0 /\ sess = 0 /\ verified = 0 /\ minted = 0 /\ store = 0 /\ prev = 0 /\ devs = 0
  /\ signed = 0 /\ slot = 0 /\ slotLock = 0 /\ cur = 0 /\ gens = 0 /\ reg = 0 /\ task = 0
  /\ req = 0 /\ send = 0 /\ up = 0 /\ tried = 0 /\ faults = 0 /\ drops = 0 /\ crashes = 0
  /\ timeouts = 0 /\ fails = 0 /\ sdk = 0 /\ drv = 0 /\ start = 0 /\ call = 0 /\ hold = 0
  /\ made = 0 /\ handled = 0 /\ taken = 0 /\ hnd = 0 /\ loop = 0 /\ service = 0 /\ bound = 0
  /\ ever = 0 /\ tokens = 0 /\ refresh = 0 /\ regs = 0 /\ credLock = 0 /\ bootLock = 0
VerificationAlone ==
  /\ row = 0 /\ sess = 0 /\ verified = 0 /\ minted = 0 /\ store = 0 /\ prev = 0 /\ devs = 0
  /\ signed = 0 /\ slot = 0 /\ slotLock = 0 /\ cur = 0 /\ gens = 0 /\ owner = 0 /\ task = 0
  /\ req = 0 /\ send = 0 /\ up = 0 /\ tried = 0 /\ faults = 0 /\ drops = 0 /\ crashes = 0
  /\ timeouts = 0 /\ fails = 0 /\ flow = 0 /\ registry = 0 /\ count = 0 /\ verb = 0
  /\ hold = 0 /\ made = 0 /\ handled = 0 /\ taken = 0 /\ hnd = 0 /\ loop = 0 /\ service = 0
  /\ bound = 0 /\ ever = 0 /\ tokens = 0 /\ refresh = 0 /\ regs = 0 /\ credLock = 0
  /\ bootLock = 0
VerificationRoomsAlone ==
  /\ row = 0 /\ sess = 0 /\ verified = 0 /\ minted = 0 /\ store = 0 /\ prev = 0 /\ devs = 0
  /\ signed = 0 /\ slot = 0 /\ slotLock = 0 /\ cur = 0 /\ gens = 0 /\ owner = 0 /\ reg = 0
  /\ task = 0 /\ req = 0 /\ send = 0 /\ up = 0 /\ tried = 0 /\ faults = 0 /\ drops = 0
  /\ crashes = 0 /\ timeouts = 0 /\ fails = 0 /\ registry = 0 /\ acct = 0 /\ verb = 0
  /\ super = 0 /\ drv = 0 /\ start = 0 /\ call = 0 /\ bound = 0 /\ ever = 0 /\ tokens = 0
  /\ refresh = 0 /\ regs = 0 /\ credLock = 0 /\ bootLock = 0
CredentialsAlone ==
  /\ row = 0 /\ sess = 0 /\ verified = 0 /\ minted = 0 /\ store = 0 /\ prev = 0 /\ devs = 0
  /\ signed = 0 /\ slot = 0 /\ slotLock = 0 /\ cur = 0 /\ gens = 0 /\ owner = 0 /\ reg = 0
  /\ task = 0 /\ send = 0 /\ up = 0 /\ tried = 0 /\ faults = 0 /\ drops = 0 /\ crashes = 0
  /\ timeouts = 0 /\ fails = 0 /\ flow = 0 /\ registry = 0 /\ acct = 0 /\ count = 0
  /\ verb = 0 /\ super = 0 /\ sdk = 0 /\ drv = 0 /\ start = 0 /\ call = 0 /\ hold = 0
  /\ made = 0 /\ handled = 0 /\ taken = 0 /\ hnd = 0 /\ loop = 0 /\ service = 0

vars == <<scene, row, sess, verified, minted, store, prev, devs, signed, slot, slotLock, cur, gens,
          owner, reg, task, req, send, up, tried, faults, drops, crashes, timeouts, fails,
          flow, registry, acct, count, verb, super, sdk, drv, start, call, hold, made,
          handled, taken, hnd, loop, service, bound, ever, tokens, refresh, regs, credLock,
          bootLock>>

Init ==
  /\ scene \in Scenes
  /\ \/ scene = "verbs" /\ Verbal!Init /\ AccountLifecycleAlone
     \/ scene = "store" /\ Stored!Init /\ AccountLifecycleAlone
     \/ scene = "gone" /\ Gone!Init /\ AccountLifecycleAlone
     \/ scene = "verified" /\ Verified!Init /\ AccountLifecycleAlone
     \/ scene = "waiting" /\ Waiting!Init /\ AccountLifecycleAlone
     \/ scene = "resuming" /\ Resuming!Init /\ AccountLifecycleAlone
     \/ scene = "acquiring" /\ Acquiring!Init /\ OAuthAcquireAlone
     \/ scene = "browsers" /\ Browsing!Init /\ OAuthAcquireAlone
     \/ scene = "full" /\ Full!Init /\ OAuthAcquireAlone
     \/ scene = "scanning" /\ Scanning!Init /\ OAuthAcquireAlone
     \/ scene = "granting" /\ Granting!Init /\ LoginGrantAlone
     \/ scene = "secrets" /\ Guarding!Init /\ LoginGrantAlone
     \/ scene = "capacity" /\ Bounded!Init /\ LoginGrantAlone
     \/ scene = "locking" /\ Locking!Init /\ LoginGrantAlone
     \/ scene = "comparing" /\ Comparing!Init /\ VerificationAlone
     \/ scene = "tearing" /\ Tearing!Init /\ VerificationAlone
     \/ scene = "macs" /\ Confirming!Init /\ VerificationAlone
     \/ scene = "ending" /\ Ending!Init /\ VerificationAlone
     \/ scene = "requesting" /\ Requesting!Init /\ VerificationRoomsAlone
     \/ scene = "minting" /\ Minting!Init /\ VerificationRoomsAlone
     \/ scene = "subscribing" /\ Subscribing!Init /\ VerificationRoomsAlone
     \/ scene = "guard" /\ Guarded!Init /\ CredentialsAlone
     \/ scene = "replay" /\ Replaying!Init /\ CredentialsAlone
     \/ scene = "rotation" /\ Rotating!Init /\ CredentialsAlone

Next ==
  \/ scene = "verbs" /\ Verbal!Next /\ UNCHANGED accountLifecycleElse
  \/ scene = "store" /\ Stored!Next /\ UNCHANGED accountLifecycleElse
  \/ scene = "gone" /\ Gone!Next /\ UNCHANGED accountLifecycleElse
  \/ scene = "verified" /\ Verified!Next /\ UNCHANGED accountLifecycleElse
  \/ scene = "waiting" /\ Waiting!Next /\ UNCHANGED accountLifecycleElse
  \/ scene = "resuming" /\ Resuming!Next /\ UNCHANGED accountLifecycleElse
  \/ scene = "acquiring" /\ Acquiring!Next /\ UNCHANGED oAuthAcquireElse
  \/ scene = "browsers" /\ Browsing!Next /\ UNCHANGED oAuthAcquireElse
  \/ scene = "full" /\ Full!Next /\ UNCHANGED oAuthAcquireElse
  \/ scene = "scanning" /\ Scanning!Next /\ UNCHANGED oAuthAcquireElse
  \/ scene = "granting" /\ Granting!Next /\ UNCHANGED loginGrantElse
  \/ scene = "secrets" /\ Guarding!Next /\ UNCHANGED loginGrantElse
  \/ scene = "capacity" /\ Bounded!Next /\ UNCHANGED loginGrantElse
  \/ scene = "locking" /\ Locking!Next /\ UNCHANGED loginGrantElse
  \/ scene = "comparing" /\ Comparing!Next /\ UNCHANGED verificationElse
  \/ scene = "tearing" /\ Tearing!Next /\ UNCHANGED verificationElse
  \/ scene = "macs" /\ Confirming!Next /\ UNCHANGED verificationElse
  \/ scene = "ending" /\ Ending!Next /\ UNCHANGED verificationElse
  \/ scene = "requesting" /\ Requesting!Next /\ UNCHANGED verificationRoomsElse
  \/ scene = "minting" /\ Minting!Next /\ UNCHANGED verificationRoomsElse
  \/ scene = "subscribing" /\ Subscribing!Next /\ UNCHANGED verificationRoomsElse
  \/ scene = "guard" /\ Guarded!Next /\ UNCHANGED credentialsElse
  \/ scene = "replay" /\ Replaying!Next /\ UNCHANGED credentialsElse
  \/ scene = "rotation" /\ Rotating!Next /\ UNCHANGED credentialsElse

Spec == Init /\ [][Next]_vars

\* What waits for a lock or a turn that others keep taking: a behaviour is of one scene,
\* so that one condition of strong fairness stands for one of each scene.
Waits1 ==
  \/ scene = "scanning" /\ (Scanning!Deadline(f1) \/ Scanning!Lock(f1)) /\ UNCHANGED oAuthAcquireElse
  \/ scene = "locking" /\ (Locking!Cancelled(f1) \/ Locking!Deadline(f1)) /\ UNCHANGED loginGrantElse
Waits2 ==
  \/ scene = "scanning" /\ (Scanning!Deadline(f2) \/ Scanning!Lock(f2)) /\ UNCHANGED oAuthAcquireElse

\* The fairness that the module of each component states and argues for.
Fairness ==
  /\ SF_vars(Waits1)
  /\ SF_vars(Waits2)
  /\ \A f \in {f1, f2} : WF_oAuthAcquireVars(scene = "scanning" /\ Scanning!Create(f))
  /\ \A f \in {f1, f2} : WF_oAuthAcquireVars(scene = "scanning" /\ Scanning!Drive(f))
  /\ WF_oAuthAcquireVars(scene = "scanning" /\ Scanning!Boot)
  /\ \A f \in {f1} : WF_loginGrantVars(scene = "locking" /\ Locking!Create(f))
  /\ \A f \in {f1} : WF_loginGrantVars(scene = "locking" /\ Locking!Delete(f))
  /\ \A f \in {f1} : WF_loginGrantVars(scene = "locking" /\ Locking!Drive(f))
  /\ \A v \in {v1, v2} : WF_loginGrantVars(scene = "locking" /\ Locking!Step(v))
  /\ \A a \in {a1} : WF_loginGrantVars(scene = "locking" /\ Locking!Supervise(a))
  /\ \A f \in {f1} : WF_verificationVars(scene = "ending" /\ Ending!DriverStep(f))
  /\ \A f \in {f1} : WF_verificationVars(scene = "ending" /\ Ending!sweep_expired(f))
  /\ \A f \in {f1} : WF_verificationVars(scene = "ending" /\ Ending!PeerCancel(f))
  /\ \A f \in {f1} : WF_verificationVars(scene = "ending" /\ Ending!Join(f))
  /\ \A c \in {c1} : WF_verificationVars(scene = "ending" /\ (Ending!lock_active(c) \/ Ending!CallSend(c) \/ Ending!CallSent(c)))
  /\ WF_verificationVars(scene = "ending" /\ (Ending!LogoutLocked \/ Ending!LogoutReaped))
  /\ WF_verificationVars(scene = "ending" /\ Ending!RunConnect)
  /\ WF_verificationVars(scene = "ending" /\ Ending!RunBuilt)
  /\ WF_verificationVars(scene = "ending" /\ Ending!cancel_account_flows)
  /\ WF_verificationVars(scene = "ending" /\ Ending!RunReturns)
  /\ WF_verificationVars(scene = "ending" /\ Ending!Evict)
  /\ WF_verificationVars(scene = "ending" /\ super.stop /\ Ending!RunEnds)
  /\ WF_verificationRoomsVars(scene = "subscribing" /\ Subscribing!RunsLoop)
  /\ WF_verificationRoomsVars(scene = "subscribing" /\ Subscribing!Poll)
  /\ \A h \in {h1} : WF_verificationRoomsVars(scene = "subscribing" /\ Subscribing!Handle(h))

FairSpec == Spec /\ Fairness

-----------------------------------------------------------------------------
(* Properties, each of the scenes it is checked in. *)

\* The variables of every component keep their types.
TypesOK ==
  /\ scene = "verbs" => Verbal!TypeOK
  /\ scene = "acquiring" => Acquiring!TypeOK
  /\ scene = "granting" => Granting!TypeOK
  /\ scene = "comparing" => Comparing!TypeOK
  /\ scene = "requesting" => Requesting!TypeOK
  /\ scene = "guard" => Guarded!TypeOK

\* The verbs, the supervisor's eviction and the watcher's write of one identity never
\* overlap, across deletions that prune the lock's entry in the map while others wait for
\* it.
OneAtATime == scene = "verbs" => Verbal!OneAtATime

\* Flip before take: once no verb is inside, an account that is not active and has no task
\* left to drain has no client in its slot, and none that a send which read the row before
\* the flip is still connecting.
NoClientBehindTheGate == scene = "verbs" => Verbal!NoClientBehindTheGate

\* An active account is supervised: outside a verb its registered task lives.
ActiveIsSupervised == scene = "verbs" => Verbal!ActiveIsSupervised

\* "on Ok the caller may treat the account's SDK store dir as quiescent": a login that has
\* restaged the directory and a delete that has removed it never do so under a supervised
\* task, or a worker of one, of that account.
StoreIsQuiescent == scene = "store" => Stored!StoreIsQuiescent

\* A row is removed last: an account without one has no SDK store, no backup of one, no
\* session and no client, whatever failed or crashed on the way and whichever send was
\* connecting.
GoneIsClean == scene = "gone" => Gone!GoneIsClean

\* The store of an active account is the one of the device its session names, whatever
\* logins were interrupted or refused before it.
SessionHasStore == scene = "gone" => Gone!SessionHasStore

\* `verified` is never a stale TRUE: it is of the device whose session the row holds.
VerifiedIsOfThisDevice == scene = "verified" => Verified!VerifiedIsOfThisDevice

\* Outside a verb a deactivated row reads FALSE: neither a watcher that waited for the lock
\* of the logout nor a recover that did writes after it.
DeactivatedIsUnverified == scene = "verified" => Verified!DeactivatedIsUnverified

\* The same as a state predicate: while a verb is at work it is never so that the verbs,
\* the tasks they drain, the watchers, the sends and the boot all wait for one another.
VerbsGoOn == scene = "waiting" => Waiting!VerbsGoOn

\* A deletion that a crash interrupts is finished by the boot that follows: when the API
\* serves, an account that is being deleted has a verb that deletes it.
DeletionResumes == scene = "resuming" => Resuming!DeletionResumes

\* A session that was committed to an account that is active, or that the breadcrumb
\* promises to activate, has not been revoked, and its SDK store is at the permanent or at
\* the staging path.
CommittedIsKept == scene = "acquiring" => Acquiring!CommittedIsKept

\* A flow that a client saw cancelled never becomes the account's session: cancellation and
\* the driver's claim exclude each other.
CancelledIsNotAdopted == scene = "acquiring" => Acquiring!CancelledIsNotAdopted

\* At most one driver of a user is between its reservation and its end, so two flows never
\* finalize against each other.
OneFlowPerUser == scene = "acquiring" => Acquiring!OneFlowPerUser

\* The account is verified only with a session whose own flow found the device cross-
\* signed, whoever finished the adoption.
VerifiedIsEarned == scene = "acquiring" => Acquiring!VerifiedIsEarned

\* An ended flow keeps its outcome until the process ends: a late driver does not turn
\* `cancelled` into another outcome.
OutcomeIsFinal ==
  [][scene = "acquiring" => Acquiring!OutcomeIsFinalStep]_vars

\* A flow that was replaced had no approval: no token answer that the user gave before the
\* replacement is thrown away.
ApprovalIsKept == scene = "browsers" => Browsing!ApprovalIsKept

\* When a driver is finished, a session its flow was granted has been sent its revocation or
\* belongs to the account.
SessionIsSettled == scene = "browsers" => Browsing!SessionIsSettled

\* Outside of a verb only an active account has a cached client.
CachedIsActive == scene = "browsers" => Browsing!CachedIsActive

\* A reservation before its commit point belongs to a request or a driver that will release
\* it, while the API serves.
ReservationIsOwned == scene = "full" => Full!ReservationIsOwned

\* A live flow is the owner of its account unless a canceller has taken it to end it:
\* cancel_account always finds the flow that holds the lock.
LiveIsOwner == scene = "granting" => Granting!LiveIsOwner

\* Secrets leave only for an active account, with the session that is its current one: a
\* logout, a deletion or a new login never overlaps the poll that sends them, whenever the
\* row was last read.
SecretsAreGuarded ==
  [][scene = "secrets" => Guarding!SecretsAreGuardedStep]_vars

\* An owner is a request that is being served or a flow that is live or about to release
\* it: the account is not locked out of grants.
OwnerIsServed == scene = "capacity" => Bounded!OwnerIsServed

\* The registry stays within its cap although its size is read before the reservation and
\* requests overtake each other until the commit.
RegistryIsBounded == scene = "capacity" => Bounded!RegistryIsBounded

\* A flow is shown as done, in its entry or in a frame, only when one of its SAS objects is
\* done: the peer's m.key.verification.done alone proves nothing.
DoneIsVerified == scene = "comparing" => Comparing!DoneIsVerified

\* A driver that has seen everything drives the SAS the SDK drives, and confirm reads the
\* same one from the entry: a replacement after a dual start is never missed.
DrivesCurrent == scene = "comparing" => Comparing!DrivesCurrent

\* Every live entry has a driver, or an aborting join that will remove it: an entry without
\* one would never be swept.
EntryHasDriver == scene = "tearing" => Tearing!EntryHasDriver

\* A driver that is not being aborted belongs to the account's client: it never outlives
\* the run that owned it.
DriverHasClient == scene = "tearing" => Tearing!DriverHasClient

\* Our MAC leaves only for an account that is active: confirm holds the lock that logout
\* holds.
MacNeedsActive ==
  [][scene = "macs" => Confirming!MacNeedsActiveStep]_vars

\* A remembered event has led to a flow, or a handler is at it: the delivery that failed is
\* never the one that is remembered.
HandledIsTaken == scene = "requesting" => Requesting!HandledIsTaken

\* One event of our own user leads to one request at most for each time it is remembered:
\* the next one needs its memory to lapse first, in time or with the run.
MintOnce == scene = "minting" => Minting!MintOnce

\* The first-run bootstrap makes one credential, whichever of its three doors are tried at
\* once.
OneBootstrap == scene = "guard" => Guarded!OneBootstrap

\* Where every removal is guarded, an instance that has had a way to sign in keeps one: two
\* removals never count each other's credential as the survivor.
OwnerCanSignIn == scene = "guard" => Guarded!OwnerCanSignIn

\* A refresh token is rotated at most once, however its redemptions interleave.
RotatedOnce == scene = "replay" => Replaying!RotatedOnce

\* An unbound identity leaves no working access token and no refresh token behind, and no
\* registration of its sessions, whatever sign-in or rotation was in flight.
UnboundIsClean == scene = "rotation" => Rotating!UnboundIsClean

\* A registered session has a token that does not expire or a refresh token, not revoked,
\* or its time has run out: a session that is ended takes its registration along.
RegisteredIsBacked ==
  /\ scene = "rotation" => Rotating!RegisteredIsBacked
  /\ scene = "replay" => Replaying!RegisteredIsBacked

\* A rotation in flight does not carry its session over a cut: the locking pass waits for
\* it and the UPDATE finds its successor.
RotationIsCaught == scene = "rotation" => Rotating!RotationIsCaught

\* Every flow gives its reservation back or commits, also through a crash.
ReservationEnds ==
  \A u \in {u1} : []<>(scene = "scanning" => acct[u].at # "staging")

\* A committed session does not wait for ever to be adopted, by the driver or by the boot
\* after a crash.
CommitIsAdopted ==
  \A u \in {u1} : []<>(scene = "scanning" => acct[u].at # "committed")

\* Every verb ends: the grant that holds the lock, the supervisor that waits for it and the
\* verb that waits for the supervisor do not block each other.
VerbEnds ==
  \A v \in {v1, v2} : []<>(scene = "locking" => verb[v].pc \in {"idle", "done"})

\* Every tracked flow is eventually dropped from the registry.
FlowEnds ==
  \A f \in {f1} : []<>(scene = "ending" => ~reg[f].in)

\* A wanted room is eventually subscribed in the service itself, restarts and half-seen
\* handlers notwithstanding, unless it is no longer wanted.
WantedIsSubscribed ==
  \A r \in {r1} : []<>(scene = "subscribing" => (r \in Subscribing!Wanted => r \in service))

\* The verbs of an identity exclude each other and get on, and what they leave of row,
\* session, store, client and task belongs together.
AccountIsWhole ==
  /\ OneAtATime /\ NoClientBehindTheGate /\ ActiveIsSupervised /\ StoreIsQuiescent
  /\ GoneIsClean /\ SessionHasStore /\ VerifiedIsOfThisDevice /\ DeactivatedIsUnverified
  /\ VerbsGoOn /\ DeletionResumes

\* A sign-in is cancelled or committed and never both: its session, its store, its
\* reservation and the account's client are settled accordingly.
SignInIsSettled ==
  /\ CommittedIsKept /\ CancelledIsNotAdopted /\ OneFlowPerUser /\ VerifiedIsEarned
  /\ ApprovalIsKept /\ SessionIsSettled /\ CachedIsActive /\ ReservationIsOwned

\* The registry of grants knows who holds an account, locks nobody out and stays within its
\* cap.
GrantsAreOwned ==
  /\ LiveIsOwner /\ OwnerIsServed /\ RegistryIsBounded

\* A verification is shown as done only when it is, its driver follows the SAS that counts,
\* and neither entry nor driver is left behind.
VerificationIsSound ==
  /\ DoneIsVerified /\ DrivesCurrent /\ EntryHasDriver /\ DriverHasClient

\* A request for verification in a room is handled, and once while it is remembered.
RequestsAreHandledOnce ==
  /\ HandledIsTaken /\ MintOnce

\* The owner is never locked out, tokens are rotated once, and what is unbound or revoked
\* leaves nothing that works behind.
CredentialsAreSafe ==
  /\ OneBootstrap /\ OwnerCanSignIn /\ RotatedOnce /\ UnboundIsClean /\ RegisteredIsBacked
  /\ RotationIsCaught

\* What leaves the process or is shown cannot be taken back: secrets and MACs leave only
\* for the account as it is, and an outcome stays.
EffectsAreCurrent ==
  /\ OutcomeIsFinal /\ SecretsAreGuarded /\ MacNeedsActive

\* What was begun for an account ends: reservations, adoptions, verbs, flows and
\* subscriptions.
WorkEnds ==
  /\ ReservationEnds /\ CommitIsAdopted /\ VerbEnds /\ FlowEnds /\ WantedIsSubscribed
=============================================================================
