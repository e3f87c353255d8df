----------------------------- MODULE PeerIdentity -----------------------------
(***************************************************************************)
(* This machine's identity with one coordinator, as the Electron main      *)
(* process keeps it: the account session (accounts.ts), the session a      *)
(* restart restores (session-registry.ts), the enrollment workflow         *)
(* (enrollment.ts) and the certificate maintenance of the enrolled device  *)
(* (device-session.ts), all over the one credential store, as              *)
(* management.ts wires them.                                               *)
(*                                                                         *)
(* Main is single-threaded: an action is what runs between two awaits.     *)
(* Continuations of settled promises run before any other event, so every  *)
(* other action waits until none is pending (Quiet).                       *)
(***************************************************************************)
EXTENDS CredentialStore

CONSTANTS MaxFaults,   \* crashes, lost helpers and failed store operations
          MaxOps       \* operations the user, or a sweep, asks for

VARIABLES
  acct,      \* the token of the signed-in account, 0 when signed out
  tokens,    \* what the coordinator thinks of each token
  account,   \* the operation holding PeerAccounts' busy guard
  restore,   \* the shared restoration of the persisted session
  waiting,   \* operations waiting for that restoration
  ready,     \* operations whose restoration settled, about to start
  enroll,    \* the operation holding PeerEnrollment's busy guard
  device,    \* the pending maintenance of PeerDeviceSession
  restored,  \* has the helper been given this device's identity
  issued,    \* the coordinator's certificate per enrollment request, 0 for none
  consumed,  \* requests submitted under an enrollment token
  left,      \* requests whose device the coordinator removed
  fresh,     \* the next unused request, certificate and token; operations so far
  faults     \* crashes, lost helpers and failed store operations so far

accountVars == <<acct, tokens, account, restore, waiting, ready>>
coordinator == <<issued, consumed, left>>
vars == <<storeVars, accountVars, enroll, device, restored, coordinator, fresh, faults>>

NoToken == 0
Idle(record) == record.pc = "idle"

NoAccount == [pc |-> "idle", tok |-> NoToken]
NoEnroll  == [pc |-> "idle", req |-> 0, rec |-> Absent]
NoDevice  == [pc |-> "idle", rec |-> Absent, want |-> Absent, tok |-> NoToken,
              scoped |-> FALSE, again |-> FALSE]

AccountOps == {"login", "logout", "read"}
DeviceOps  == {"sweep", "after"}

Quiet == Settled /\ ready = {}

\* The bound on what is asked for.
Asked == fresh.ops < MaxOps

\* A session is held and has not expired by this machine's clock.
HasSession == acct # NoToken /\ tokens[acct] # "expired"

\* The coordinator accepts a token it issued and neither revoked nor expired.
Accepts(t) == tokens[t] = "valid"

(***************************************************************************)
(* The account and its restoration.                                        *)
(***************************************************************************)

\* #account and #readyAsDevice: an operation first shares the restoration of
\* the persisted session, which a held session makes trivial.
Request(op) ==
  /\ Quiet
  /\ op \notin waiting /\ Asked
  /\ fresh' = [fresh EXCEPT !.ops = @ + 1]
  /\ IF HasSession
     THEN ready' = {op} /\ UNCHANGED <<waiting, restore, jobs>>
     ELSE /\ waiting' = waiting \cup {op}
          /\ UNCHANGED ready
          /\ IF restore = "idle"
             THEN /\ restore' = "load"
                  /\ Enqueue(Job("loadSession", "restore", Absent, Absent))
             ELSE UNCHANGED <<restore, jobs>>
  /\ UNCHANGED <<port, store, reply, acct, tokens, account, enroll, device,
                 restored, coordinator, faults>>

\* The restoration settled: everything that waited for it may start.
Release   == restore' = "idle" /\ ready' = waiting /\ waiting' = {}

\* The restoration threw: everything that waited for it is refused.
Refuse    == restore' = "idle" /\ waiting' = {} /\ UNCHANGED ready

\* restoreUserSession after the load: adopt the token unless the guard is held.
RestoreLoaded ==
  /\ reply.to = "restore" /\ restore = "load"
  /\ reply' = NoReply
  /\ IF ~reply.ok \/ reply.value.kind # "session" \/ ~Idle(account)
     THEN /\ IF reply.ok /\ reply.value = Absent THEN Release ELSE Refuse
          /\ UNCHANGED account
     ELSE /\ restore' = "adopt"
          /\ account' = [pc |-> "adopt", tok |-> reply.value.token]
          /\ UNCHANGED <<waiting, ready>>
  /\ UNCHANGED <<port, store, jobs, acct, tokens, enroll, device, restored,
                 coordinator, fresh, faults>>

\* The coordinator answers user.current for the persisted token.  Only its
\* explicit refusal removes the durable session.
AdoptReply ==
  /\ Quiet /\ account.pc = "adopt"
  /\ account' = NoAccount
  /\ \/ /\ Accepts(account.tok)
        /\ acct' = account.tok
        /\ Release /\ UNCHANGED jobs
     \/ /\ ~Accepts(account.tok)
        /\ acct' = NoToken
        /\ restore' = "drop"
        /\ Enqueue(Job("removeSession", "restore", Absent, Absent))
        /\ UNCHANGED <<waiting, ready>>
     \/ Refuse /\ UNCHANGED <<acct, jobs>>
  /\ UNCHANGED <<port, store, reply, tokens, enroll, device, restored,
                 coordinator, fresh, faults>>

RestoreDropped ==
  /\ reply.to = "restore" /\ restore = "drop"
  /\ reply' = NoReply
  /\ Release
  /\ UNCHANGED <<port, store, jobs, acct, tokens, account, enroll, device,
                 restored, coordinator, fresh, faults>>

\* #operation: one account operation at a time; a login needs no session, the
\* others need one.  Logout drops the session before it asks the coordinator.
StartAccount(op) ==
  /\ Settled /\ op \in ready \cap AccountOps
  /\ ready' = ready \ {op}
  /\ IF /\ Idle(account)
        /\ IF op = "login" THEN ~HasSession ELSE HasSession
     THEN /\ account' = [pc |-> op, tok |-> IF op = "login" THEN NoToken ELSE acct]
          /\ acct' = IF op = "read" THEN acct ELSE NoToken
     ELSE UNCHANGED <<account, acct>>
  /\ UNCHANGED <<storeVars, tokens, restore, waiting, enroll, device, restored,
                 coordinator, fresh, faults>>

\* user.login or user.register and the user.current readback.  The core keeps
\* the session under the key main shares with it; main then persists it too.
LoginReply ==
  /\ Quiet /\ account.pc = "login"
  /\ \/ /\ fresh.tok \in Tokens
        /\ fresh' = [fresh EXCEPT !.tok = @ + 1]
        /\ tokens' = [tokens EXCEPT ![fresh.tok] = "valid"]
        /\ account' = [pc |-> "persist", tok |-> fresh.tok]
        /\ Enqueue(Job("saveSession", "login", Session(fresh.tok), Absent))
        /\ store' = IF port THEN [store EXCEPT !["sess"] = Session(fresh.tok)] ELSE store
     \/ /\ account' = NoAccount
        /\ UNCHANGED <<fresh, tokens, jobs, store>>
  /\ UNCHANGED <<port, reply, acct, restore, waiting, ready, enroll, device,
                 restored, coordinator, faults>>

\* The session is published only once it is durable; then the device is
\* maintained under the new account.
LoginPersisted ==
  /\ reply.to = "login"
  /\ reply' = NoReply
  /\ account' = NoAccount
  /\ IF reply.ok
     THEN acct' = account.tok /\ ready' = {"after"}
     ELSE UNCHANGED <<acct, ready>>
  /\ UNCHANGED <<port, store, jobs, tokens, restore, waiting, enroll, device,
                 restored, coordinator, fresh, faults>>

\* user.logout: the core forgets the session it keeps, whether or not the
\* coordinator confirmed the revocation; a lost call leaves both.
LogoutReply ==
  /\ Quiet /\ account.pc = "logout"
  /\ account' = NoAccount
  /\ \/ UNCHANGED <<store, tokens>>
     \/ /\ store' = IF store["sess"] = Session(account.tok)
                    THEN [store EXCEPT !["sess"] = Absent] ELSE store
        /\ \/ tokens' = [tokens EXCEPT ![account.tok] = "revoked"]
           \/ UNCHANGED tokens
  /\ UNCHANGED <<port, jobs, reply, acct, restore, waiting, ready, enroll, device,
                 restored, coordinator, fresh, faults>>

\* Any other guarded operation (the networks, the directory, an unbinding): a
\* refused token ends the session, whatever else fails leaves it.
ReadReply ==
  /\ Quiet /\ account.pc = "read"
  /\ account' = NoAccount
  /\ \/ UNCHANGED acct
     \/ ~Accepts(account.tok) /\ acct' = NoToken
  /\ UNCHANGED <<storeVars, tokens, restore, waiting, ready, enroll, device,
                 restored, coordinator, fresh, faults>>

\* Time passes, or the account revokes a session from elsewhere.
Retire(t) ==
  /\ Quiet
  /\ tokens[t] = "valid"
  /\ \E s \in {"revoked", "expired"} : tokens' = [tokens EXCEPT ![t] = s]
  /\ UNCHANGED <<storeVars, acct, account, restore, waiting, ready, enroll, device,
                 restored, coordinator, fresh, faults>>

(***************************************************************************)
(* Enrollment.  Its account calls need the account guard for a moment.     *)
(***************************************************************************)

AsAccount == HasSession /\ Idle(account)

EnrollFrame == UNCHANGED <<port, store, accountVars, device, restored, faults>>

\* register: the key and the request are durable before any token is asked for.
Register ==
  /\ Quiet /\ Idle(enroll) /\ Asked /\ AsAccount
  /\ fresh.req \in Requests
  /\ fresh' = [fresh EXCEPT !.ops = @ + 1, !.req = @ + 1]
  /\ enroll' = [pc |-> "prepare", req |-> fresh.req, rec |-> Pending(fresh.req)]
  /\ Enqueue(Job("prepare", "enrollment", Pending(fresh.req), Absent))
  /\ UNCHANGED <<reply, coordinator>> /\ EnrollFrame

\* goOnline enrolls a signed-in machine that stores nothing.
EnrollWhenMissing == Routed = Absent /\ Register

\* join: no account is involved; the coordinator assigns the device before the
\* request is stored here, so a lost reply leaves nothing behind.
Join ==
  /\ Quiet /\ Idle(enroll) /\ Asked
  /\ fresh.req \in Requests /\ fresh.cert \in Certs
  /\ fresh' = [fresh EXCEPT !.ops = @ + 1, !.req = @ + 1, !.cert = @ + 1]
  /\ issued' = [issued EXCEPT ![fresh.req] = fresh.cert]
  /\ \/ /\ enroll' = [pc |-> "joined", req |-> fresh.req, rec |-> Pending(fresh.req)]
        /\ Enqueue(Job("prepare", "enrollment", Pending(fresh.req), Absent))
     \/ UNCHANGED <<enroll, jobs>>
  /\ UNCHANGED <<reply, consumed, left>> /\ EnrollFrame

\* inspect, leave, submitPending and recover begin by loading what is stored.
Load(purpose) ==
  /\ Quiet /\ Idle(enroll) /\ Asked
  /\ fresh' = [fresh EXCEPT !.ops = @ + 1]
  /\ purpose = "leave" => acct # NoToken
  /\ enroll' = [pc |-> purpose, req |-> 0, rec |-> Absent]
  /\ Enqueue(Job("load", "enrollment", Absent, Absent))
  /\ UNCHANGED <<reply, coordinator>> /\ EnrollFrame

\* The continuation of each store operation of the workflow.
EnrollResume ==
  /\ reply.to = "enrollment"
  /\ reply' = NoReply
  /\ LET rec == reply.value
         next == CASE enroll.pc = "prepare" -> "submit"
                   [] enroll.pc = "joined" -> "query"
                   [] enroll.pc = "submitPending" /\ rec.kind = "pending" -> "submit"
                   [] enroll.pc = "recover" /\ rec.kind = "pending" -> "query"
                   [] enroll.pc = "leave" /\ rec.kind = "registered" -> "leaving"
                   [] OTHER -> "idle"
     IN enroll' = IF reply.ok /\ next # "idle"
                  THEN [pc |-> next, req |-> rec.req, rec |-> rec] ELSE NoEnroll
  /\ UNCHANGED <<jobs, coordinator, fresh>> /\ EnrollFrame

\* submit: a grant is taken and spent.  The request id makes a repeat harmless.
Submit ==
  /\ Quiet /\ enroll.pc = "submit" /\ AsAccount
  /\ LET known == issued[enroll.req] # 0 IN
       /\ known \/ fresh.cert \in Certs
       /\ fresh' = IF known THEN fresh ELSE [fresh EXCEPT !.cert = @ + 1]
       /\ issued' = IF known THEN issued ELSE [issued EXCEPT ![enroll.req] = fresh.cert]
  /\ consumed' = consumed \cup {enroll.req}
  /\ enroll' \in {NoEnroll, [enroll EXCEPT !.pc = "query"]}
  /\ UNCHANGED <<jobs, reply, left>> /\ EnrollFrame

\* Mutant: the reply is stored without the coordinator's readback.
CompleteUnconfirmed ==
  /\ Quiet /\ enroll.pc = "query"
  /\ enroll' = [enroll EXCEPT !.pc = "complete"]
  /\ Enqueue(Job("complete", "enrollment",
                 Credential(enroll.req, issued[enroll.req]), enroll.rec))
  /\ UNCHANGED <<reply, coordinator, fresh>> /\ EnrollFrame

\* queryAndComplete: only what the coordinator reads back is stored.
QueryAndComplete ==
  /\ Quiet /\ enroll.pc = "query"
  /\ issued[enroll.req] # 0
  /\ enroll' = [enroll EXCEPT !.pc = "complete"]
  /\ Enqueue(Job("complete", "enrollment",
                 Credential(enroll.req, issued[enroll.req]), enroll.rec))
  /\ UNCHANGED <<reply, coordinator, fresh>> /\ EnrollFrame

\* leave: the local credential goes only after the coordinator confirmed.
Leave ==
  /\ Quiet /\ enroll.pc = "leaving"
  /\ left' = left \cup {enroll.req}
  /\ issued' = [issued EXCEPT ![enroll.req] = 0]
  /\ \/ /\ enroll' = [enroll EXCEPT !.pc = "removing"]
        /\ Enqueue(Job("remove", "enrollment", Absent, enroll.rec))
     \/ enroll' = NoEnroll /\ UNCHANGED jobs
  /\ UNCHANGED <<reply, consumed, fresh>> /\ EnrollFrame

\* The caller aborts, or a call fails, at an admission check between awaits.
EnrollCancel ==
  /\ Quiet /\ enroll.pc \in {"submit", "query", "leaving"}
  /\ enroll' = NoEnroll
  /\ UNCHANGED <<jobs, reply, coordinator, fresh>> /\ EnrollFrame

(***************************************************************************)
(* The enrolled device: its certificate and its place in the helper.       *)
(***************************************************************************)

DeviceFrame == UNCHANGED <<port, store, restore, waiting, tokens, account, enroll,
                           consumed, left, faults>>

\* The maintenance ends; one more runs when a login asked for it meanwhile.
DeviceEnd ==
  IF device.again
  THEN /\ device' = [NoDevice EXCEPT !.pc = "load"]
       /\ Enqueue(Job("load", "device", Absent, Absent))
  ELSE device' = NoDevice /\ UNCHANGED jobs

\* ready: a running maintenance is shared, except by a login, which runs after.
\* (A caller that asks for no maintenance does nothing once restored.)
StartDevice(op) ==
  /\ Settled /\ op \in ready \cap DeviceOps
  /\ ready' = ready \ {op}
  /\ IF Idle(device)
     THEN /\ device' = [NoDevice EXCEPT !.pc = "load"]
          /\ Enqueue(Job("load", "device", Absent, Absent))
     ELSE /\ device' = [device EXCEPT !.again = @ \/ op = "after"]
          /\ UNCHANGED jobs
  /\ UNCHANGED <<reply, acct, restored, issued, fresh>> /\ DeviceFrame

\* The loaded credential, the written one and its readback.
DeviceResume ==
  /\ reply.to = "device"
  /\ reply' = NoReply
  /\ LET rec == reply.value IN
       CASE reply.ok /\ device.pc = "load" /\ rec.kind = "registered" ->
              /\ device' = [device EXCEPT !.pc = "certificate", !.rec = rec,
                              !.tok = IF HasSession THEN acct ELSE NoToken]
              /\ UNCHANGED jobs
         [] reply.ok /\ device.pc = "replace" ->
              /\ device' = [device EXCEPT !.pc = "readback"]
              /\ Enqueue(Job("load", "device", Absent, Absent))
         [] reply.ok /\ device.pc = "readback" /\ rec = device.want /\ ~restored ->
              device' = [device EXCEPT !.pc = "restore"] /\ UNCHANGED jobs
         [] OTHER -> DeviceEnd
  /\ UNCHANGED <<acct, ready, restored, issued, fresh>> /\ DeviceFrame

\* device.certificate: the same certificate, a renewed one, or a demand for the
\* recovery scope that only a credential of an old build lacks.
Certificate ==
  /\ Quiet /\ device.pc \in {"certificate", "scoped"}
  /\ \/ /\ IF restored THEN DeviceEnd
           ELSE device' = [device EXCEPT !.pc = "restore"] /\ UNCHANGED jobs
        /\ UNCHANGED <<issued, fresh>>
     \/ LET want == Credential(device.rec.req, fresh.cert) IN
        /\ fresh.cert \in Certs /\ issued[device.rec.req] # 0
        /\ fresh' = [fresh EXCEPT !.cert = @ + 1]
        /\ issued' = [issued EXCEPT ![device.rec.req] = fresh.cert]
        /\ device' = [device EXCEPT !.pc = "renewed", !.want = want]
        /\ UNCHANGED jobs
     \/ /\ device.pc = "certificate" /\ device.rec.req \in fresh.legacy
        /\ HasSession /\ device.tok = acct
        /\ device' = [device EXCEPT !.pc = "scope", !.scoped = TRUE]
        /\ UNCHANGED <<jobs, issued, fresh>>
     \/ DeviceEnd /\ UNCHANGED <<issued, fresh>>
  /\ UNCHANGED <<reply, acct, ready, restored>> /\ DeviceFrame

\* The renewed certificate arrives, perhaps late, and is stored.
Renewed ==
  /\ Quiet /\ device.pc = "renewed"
  /\ device' = [device EXCEPT !.pc = "replace"]
  /\ Enqueue(Job("replace", "device", device.want, device.rec))
  /\ UNCHANGED <<reply, acct, ready, restored, issued, fresh>> /\ DeviceFrame

\* Mutant: a refusal ends whatever session is held.
RecoveryScopeEndsAnySession ==
  /\ Quiet /\ device.pc = "scope"
  /\ \/ /\ acct = device.tok /\ Accepts(device.tok)
        /\ device' = [device EXCEPT !.pc = "scoped"]
        /\ UNCHANGED <<acct, jobs>>
     \/ /\ ~Accepts(device.tok)
        /\ acct' = NoToken
        /\ DeviceEnd
     \/ DeviceEnd /\ UNCHANGED acct
  /\ UNCHANGED <<reply, ready, restored, issued, fresh>> /\ DeviceFrame

\* certificateRecoveryScope: a read outside the guard, for the captured session.
\* A late refusal of that session must not end a newer login.
RecoveryScope ==
  /\ Quiet /\ device.pc = "scope"
  /\ \/ /\ acct = device.tok /\ Accepts(device.tok)
        /\ device' = [device EXCEPT !.pc = "scoped"]
        /\ UNCHANGED <<acct, jobs>>
     \/ /\ ~Accepts(device.tok)
        /\ acct' = IF acct = device.tok THEN NoToken ELSE acct
        /\ DeviceEnd
     \/ DeviceEnd /\ UNCHANGED acct
  /\ UNCHANGED <<reply, ready, restored, issued, fresh>> /\ DeviceFrame

\* reportedAccount and device.restore.
DeviceRestore ==
  /\ Quiet /\ device.pc = "restore"
  /\ restored' \in {restored, TRUE}
  /\ DeviceEnd
  /\ UNCHANGED <<reply, acct, ready, issued, fresh>> /\ DeviceFrame

\* A scoped renewal whose session changed is refused before it writes.
ScopeLapsed ==
  /\ Busy /\ device.scoped
  /\ Head(jobs).op = "replace" /\ Head(jobs).by = "device" /\ ~Head(jobs).begun
  /\ ~HasSession \/ acct # device.tok

StoreStep ==
  /\ ready = {}
  /\ \/ ScopeLapsed /\ Settled /\ Finish(Head(jobs), FALSE, Absent) /\ UNCHANGED <<port, store>>
     \/ ~ScopeLapsed /\ (Begin \/ Write)
  /\ UNCHANGED <<accountVars, enroll, device, restored, coordinator, fresh, faults>>

(***************************************************************************)
(* Faults.                                                                 *)
(***************************************************************************)

Fault == faults < MaxFaults /\ faults' = faults + 1

\* The provider or the file system fails the running operation.
StoreFails ==
  /\ ready = {} /\ Fault
  /\ Fail
  /\ UNCHANGED <<accountVars, enroll, device, restored, coordinator, fresh>>

\* What only the process remembers of its sessions and its workflows.
Forget ==
  /\ acct' = NoToken /\ account' = NoAccount
  /\ restore' = "idle" /\ waiting' = {} /\ ready' = {}
  /\ enroll' = NoEnroll /\ device' = NoDevice /\ restored' = FALSE

\* #clearSession: the helper is gone; queued store operations still run, for
\* nobody.
HelperLost ==
  /\ Quiet /\ Fault
  /\ Forget
  /\ jobs' = [i \in 1..Len(jobs) |-> [jobs[i] EXCEPT !.by = Nobody]]
  /\ UNCHANGED <<port, store, reply, tokens, coordinator, fresh>>

\* The process dies and starts again, perhaps as a build that has the port.
Crash ==
  /\ Fault
  /\ Forget
  /\ jobs' = <<>> /\ reply' = NoReply
  /\ port' \in {port, TRUE}
  /\ UNCHANGED <<store, tokens, coordinator, fresh>>

\* Nothing is asked for any more and everything has settled.
Rest ==
  /\ Quiet /\ ~Busy /\ ~Asked
  /\ Idle(account) /\ Idle(enroll) /\ Idle(device) /\ restore = "idle"
  /\ UNCHANGED vars

(***************************************************************************)
(* The specification.                                                      *)
(***************************************************************************)

\* A fresh machine; one that still keeps an old build's registration and login;
\* one whose legacy registration no load accepts.
Init ==
  /\ \E old \in BOOLEAN, broken \in BOOLEAN :
       /\ ~(old /\ broken)
       /\ StoreInit(IF old THEN Credential(1, 1) ELSE IF broken THEN Corrupt ELSE Absent,
                    IF old THEN Session(1) ELSE Absent)
       /\ tokens = [t \in Tokens |-> IF old /\ t = 1 THEN "valid" ELSE "unused"]
       /\ issued = [r \in Requests |-> IF old /\ r = 1 THEN 1 ELSE 0]
       /\ consumed = IF old THEN {1} ELSE {}
       /\ fresh = IF old THEN [ops |-> 0, req |-> 2, cert |-> 2, tok |-> 2, legacy |-> {1}]
                         ELSE [ops |-> 0, req |-> 1, cert |-> 1, tok |-> 1, legacy |-> {}]
  /\ acct = NoToken /\ account = NoAccount
  /\ restore = "idle" /\ waiting = {} /\ ready = {}
  /\ enroll = NoEnroll /\ device = NoDevice /\ restored = FALSE
  /\ left = {}
  /\ faults = 0

Next ==
  \/ \E op \in AccountOps \cup {"sweep"} : Request(op)
  \/ RestoreLoaded \/ AdoptReply \/ RestoreDropped
  \/ \E op \in AccountOps : StartAccount(op)
  \/ LoginReply \/ LoginPersisted \/ LogoutReply \/ ReadReply
  \/ \E t \in Tokens : Retire(t)
  \/ Register \/ EnrollWhenMissing \/ Join
  \/ \E purpose \in {"inspect", "submitPending", "recover", "leave"} : Load(purpose)
  \/ EnrollResume \/ Submit \/ QueryAndComplete \/ Leave \/ EnrollCancel
  \/ \E op \in DeviceOps : StartDevice(op)
  \/ DeviceResume \/ Certificate \/ Renewed \/ RecoveryScope \/ DeviceRestore
  \/ StoreStep
  \/ StoreFails \/ HelperLost \/ Crash \/ Rest

Spec == Init /\ [][Next]_vars

(***************************************************************************)
(* Properties.                                                             *)
(***************************************************************************)

\* Every variable stays in its type.
TypeOK ==
  /\ StoreTypeOK
  /\ acct \in Tokens \cup {NoToken}
  /\ tokens \in [Tokens -> {"unused", "valid", "revoked", "expired"}]
  /\ account \in [pc : {"idle", "adopt", "login", "persist", "logout", "read"},
                  tok : Tokens \cup {NoToken}]
  /\ restore \in {"idle", "load", "adopt", "drop"}
  /\ waiting \subseteq AccountOps \cup DeviceOps
  /\ ready \subseteq AccountOps \cup DeviceOps
  /\ enroll.req \in Requests \cup {0} /\ enroll.rec \in Records
  /\ device.rec \in Records /\ device.want \in Records
  /\ issued \in [Requests -> Certs \cup {0}]
  /\ consumed \subseteq Requests /\ left \subseteq Requests
  /\ faults \in 0..MaxFaults

Identities == {store[s] : s \in {"core", "enr", "file"}}

\* Whatever is interrupted, migrated, renewed or enrolled again, the places that
\* hold a registration all hold it for the same enrollment: a late certificate
\* or a late completion never puts one identity over another (the revision
\* checks of completeEnrollment and replace, credentials.ts:104-202).
OneIdentity ==
  \A a, b \in Identities : WellFormed(a) /\ WellFormed(b) => a.req = b.req

\* A request whose enrollment token was spent, and whose device the coordinator
\* has not removed, is what this machine's next load finds, wherever the
\* process died: the enrollment stays resumable (enrollment.ts:132,
\* credentials.ts:123).
SpentIsResumable ==
  \A r \in consumed \ left : WellFormed(Routed) /\ Routed.req = r

\* A registration appears where none was only as a new pending enrollment, or
\* through the file an older build left: no renewal, completion or migration
\* brings back what leave removed, and a record no load accepts is never
\* written over (credentials.ts:83-101, 204-223).
ResurrectionStep ==
  /\ (Routed = Absent /\ Routed' # Absent) => Routed'.kind = "pending"
  /\ (Routed = Corrupt) => (store'["file"] = Corrupt /\ Routed' = Corrupt)
NoResurrection == [][ResurrectionStep]_vars

\* Neither a late refusal of an older session nor a late restoration ends a
\* login the coordinator still accepts: a session goes from memory or from the
\* store only when it is itself refused, logged out, lost with the process or
\* removed with the identity (accounts.ts:207, session-registry.ts:108-118).
LoginStep ==
  /\ (acct # NoToken /\ acct' = NoToken /\ Accepts(acct))
       => account'.pc = "logout" \/ faults' # faults
  /\ (store["sess"].kind = "session" /\ store'["sess"] = Absent
        /\ Accepts(store["sess"].token))
       => account.pc = "logout" \/ (Busy /\ Head(jobs).op = "remove")
LoginIsKept == [][LoginStep]_vars
=============================================================================
