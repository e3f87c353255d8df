------------------------------ MODULE MCPeers -------------------------------
(***************************************************************************)
(* The components of the desktop process's peer management that share no   *)
(* state with one another, checked in one run.  A behaviour is about one   *)
(* component, which its first state chooses and whose variables v1, v2,    *)
(* ... then hold.  Connections is taken with two attempts and one          *)
(* operation, and Operations with one attempt and two operations.  Two     *)
(* enrollments and three certificates are what it takes for a renewal to   *)
(* be late for a second enrollment (Enrollment), and two tokens for a      *)
(* refusal to be late for a second login (Login).                          *)
(***************************************************************************)
EXTENDS Naturals, Sequences, FiniteSets

CONSTANTS
  MaxWire, Services, Urls, MaxGen, Endpoints, MaxVer, Ids, REPLAY_WINDOW,
  Limit, MaxCalls, MaxDocs, Callers, MaxId, MaxRev

\* The bounds are numbers, and the names of addresses are not those of states.
ASSUME PeersAssumption ==
  /\ {MaxId, MaxRev, MaxVer, MaxGen, MaxCalls, MaxDocs, MaxWire, REPLAY_WINDOW} \subseteq Nat
  /\ Ids \subseteq Nat
  /\ "none" \notin Endpoints
  /\ Urls \cap {"stopped", "starting", "failed", "none"} = {}

VARIABLES
  part,  \* the component this behaviour is about
  v1, v2, v3, v4, v5, v6, v7, v8, v9, v10, v11, v12, v13, v14, v15, v16, v17,
  v18  \* its variables

vars == <<part, v1, v2, v3, v4, v5, v6, v7, v8, v9, v10, v11, v12, v13, v14, v15, v16, v17, v18>>

\* The connections within bounds: attempts of the core, and operations.
Connections(Attempts, Operations) == INSTANCE PeerConnections WITH
  MaxAttempt <- Attempts, MaxOps <- Operations, cat <- v1, core <- v2,
  made <- v3, wire <- v4, record <- v5, seen <- v6, chain <- v7, conn <- v8,
  entry <- v9, removal <- v10, up <- v11, ops <- v12
Runtime == INSTANCE PeerRuntime WITH
  src <- v1, binding <- v2, gen <- v3, starting <- v4, services <- v5,
  req <- v6, holds <- v7, closed <- v8
ServiceEdits == INSTANCE PeerServices WITH
  saved <- v1, forgotten <- v2, ver <- v3, core <- v4, active <- v5,
  edit <- v6, act <- v7, closed <- v8
Calls == INSTANCE PeerRequests WITH
  scope <- v1, retired <- v2, doc <- v3, req <- v4, runs <- v5, next <- v6,
  pending <- v7, effect <- v8, up <- v9
Catalog == INSTANCE PeerCatalog WITH
  record <- v1, marker <- v2, op <- v3, held <- v4, made <- v5, core <- v6,
  last <- v7
Enrollment == INSTANCE PeerIdentity WITH
  Requests <- 1..2, Certs <- 1..3, Tokens <- 1..1, MaxFaults <- 1,
  MaxOps <- 3, port <- v1, store <- v2, jobs <- v3, reply <- v4, acct <- v5,
  tokens <- v6, account <- v7, restore <- v8, waiting <- v9, ready <- v10,
  enroll <- v11, device <- v12, restored <- v13, issued <- v14,
  consumed <- v15, left <- v16, fresh <- v17, faults <- v18
Login == INSTANCE PeerIdentity WITH
  Requests <- 1..2, Certs <- 1..3, Tokens <- 1..2, MaxFaults <- 1,
  MaxOps <- 2, port <- v1, store <- v2, jobs <- v3, reply <- v4, acct <- v5,
  tokens <- v6, account <- v7, restore <- v8, waiting <- v9, ready <- v10,
  enroll <- v11, device <- v12, restored <- v13, issued <- v14,
  consumed <- v15, left <- v16, fresh <- v17, faults <- v18

\* The variables after the first k, which a component of k variables leaves alone.
Idle17 == v18 = 0
Rest17 == <<v18>>
Idle16 == v17 = 0 /\ Idle17
Rest16 == <<v17, Rest17>>
Idle15 == v16 = 0 /\ Idle16
Rest15 == <<v16, Rest16>>
Idle14 == v15 = 0 /\ Idle15
Rest14 == <<v15, Rest15>>
Idle13 == v14 = 0 /\ Idle14
Rest13 == <<v14, Rest14>>
Idle12 == v13 = 0 /\ Idle13
Rest12 == <<v13, Rest13>>
Idle11 == v12 = 0 /\ Idle12
Rest11 == <<v12, Rest12>>
Idle10 == v11 = 0 /\ Idle11
Rest10 == <<v11, Rest11>>
Idle9 == v10 = 0 /\ Idle10
Rest9 == <<v10, Rest10>>
Idle8 == v9 = 0 /\ Idle9
Rest8 == <<v9, Rest9>>
Idle7 == v8 = 0 /\ Idle8
Rest7 == <<v8, Rest8>>

ConnectionsInit == part = "connections" /\ Connections(2, 1)!Init /\ Idle12
ConnectionsStep == part = "connections" /\ Connections(2, 1)!Next /\ UNCHANGED <<part, Rest12>>
OperationsInit == part = "operations" /\ Connections(1, 2)!Init /\ Idle12
OperationsStep == part = "operations" /\ Connections(1, 2)!Next /\ UNCHANGED <<part, Rest12>>
RuntimeInit == part = "runtime" /\ Runtime!Init /\ Idle8
RuntimeStep == part = "runtime" /\ Runtime!Next /\ UNCHANGED <<part, Rest8>>
ServiceEditsInit == part = "services" /\ ServiceEdits!Init /\ Idle8
ServiceEditsStep == part = "services" /\ ServiceEdits!Next /\ UNCHANGED <<part, Rest8>>
CallsInit == part = "requests" /\ Calls!Init /\ Idle9
CallsStep == part = "requests" /\ Calls!Next /\ UNCHANGED <<part, Rest9>>
CatalogInit == part = "catalog" /\ Catalog!Init /\ Idle7
CatalogStep == part = "catalog" /\ Catalog!Next /\ UNCHANGED <<part, Rest7>>
EnrollmentInit == part = "enrollment" /\ Enrollment!Init
EnrollmentStep == part = "enrollment" /\ Enrollment!Next /\ UNCHANGED part
LoginInit == part = "login" /\ Login!Init
LoginStep == part = "login" /\ Login!Next /\ UNCHANGED part

Init ==
  \/ ConnectionsInit \/ OperationsInit \/ RuntimeInit \/ ServiceEditsInit
  \/ CallsInit \/ CatalogInit \/ EnrollmentInit \/ LoginInit
Next ==
  \/ ConnectionsStep \/ OperationsStep \/ RuntimeStep \/ ServiceEditsStep
  \/ CallsStep \/ CatalogStep \/ EnrollmentStep \/ LoginStep
Spec == Init /\ [][Next]_vars


TypeOK ==
  /\ part = "connections" => Connections(2, 1)!TypeOK
  /\ part = "operations" => Connections(1, 2)!TypeOK
  /\ part = "runtime" => Runtime!TypeOK
  /\ part = "services" => ServiceEdits!TypeOK
  /\ part = "requests" => Calls!TypeOK
  /\ part = "catalog" => Catalog!TypeOK
  /\ part = "enrollment" => Enrollment!TypeOK
  /\ part = "login" => Login!TypeOK

(* Whatever dies, is renewed, migrated or enrolled again, this machine has   *)
(* one identity: every place that holds a registration holds the same        *)
(* enrollment's, and a token that was spent is resumed by the next load      *)
(* (credentials.ts, enrollment.ts).                                          *)
OneResumableIdentity ==
  /\ part = "enrollment" => Enrollment!OneIdentity /\ Enrollment!SpentIsResumable
  /\ part = "login" => Login!OneIdentity /\ Login!SpentIsResumable

(* No step takes back what was settled: what leave removed does not come     *)
(* back, a damaged record is not written over, and a login the coordinator   *)
(* accepts is not ended by a late refusal (credentials.ts, accounts.ts).     *)
NothingIsTakenBack ==
  /\ [][part = "enrollment" => Enrollment!ResurrectionStep /\ Enrollment!LoginStep]_vars
  /\ [][part = "login" => Login!ResurrectionStep /\ Login!LoginStep]_vars

(* What the process acts on is the newest thing it was told: the state of a  *)
(* pair is of the newest attempt seen, a frame of an attempt left behind     *)
(* changes nothing (runtime-host.ts #recordState); no workbench address is   *)
(* answered for a pair whose authority this process removed while the        *)
(* address was read (connections.ts guardEntry; a revocation the core        *)
(* records by itself during the last read is not seen by that guard and is   *)
(* not counted); what the core holds of the local runtime is the current     *)
(* binding, or its invalidation has been sent, and whoever waits for a       *)
(* binding waits for a start under way, but for a wait that fell between the *)
(* two callbacks of a start that had settled (runtime-owner.ts).             *)
AuthorityIsCurrent ==
  /\ part = "connections" => Connections(2, 1)!NewestAttempt /\ Connections(2, 1)!EntryHonoursRemoval
  /\ part = "operations" => Connections(1, 2)!NewestAttempt /\ Connections(1, 2)!EntryHonoursRemoval
  /\ part = "runtime" => Runtime!HeldIsCurrent /\ Runtime!WaiterIsServed

(* What the window is told is so: a service believed active is the saved     *)
(* one, under the address the core uses (services.ts); a request id runs at  *)
(* most once in a document (management-requests.ts), and what is answered    *)
(* of a write is true of the call itself (rpc.ts).                           *)
AnswersAreTrue ==
  /\ part = "services" => ServiceEdits!ActiveIsSaved
  /\ part = "requests" => Calls!RunsOnce /\ Calls!AnswerIsItsOwn

\* The promise of DeviceCatalog; the other components leave it alone.
Promise == INSTANCE DeviceCatalog WITH
  last <- IF part = "catalog" THEN v7 ELSE Catalog!NoCatalog,
  readable <- part = "catalog" /\ Catalog!read(v1, v2)

(* The catalog's files implement DeviceCatalog but for one kind of step:     *)
(* through stale snapshots, two-step publications, the Windows backup and    *)
(* crashes between any two of them, a readable catalog never loses a         *)
(* forgotten service or a revocation, unless the process no longer asks a    *)
(* live core whose read failed and publishes over what that core changed     *)
(* meanwhile; then what the core changed is lost and nothing else            *)
(* (catalog.ts commit, removeService, reset, #onCore).                       *)
PromiseKeptUnlessOvertaken ==
  Promise!Init /\ [][Promise!Next \/ (part = "catalog" /\ Catalog!Overtaken)]_(Promise!vars)
=============================================================================
