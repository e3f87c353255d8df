# Verification of DSHKER

DSHKER is a desktop launcher that runs a workbench (DSH, "the Harness") and lets
a machine reach a workbench on another of its owner's machines. It has three
programs: the core, a Go daemon under `networking/`, which keeps pairs of machines
connected and owns the supervised processes; the desktop process (Electron main,
`electron/`), which starts the core, keeps identities, catalogs and managed
installations and serves the window; and the window (`src/`, Vue) with the
packages under `packages/`. A control server (the coordinator) decides between
two machines; it is another program.

The project models the parts whose correctness depends on order: what runs
concurrently, what crosses a crash, a lost answer or a late one. Each module
names the files it is a model of; `PROJECT.json` maps every definition to its
lines.

Contents: 1 inventory, 2 modules, 3 the reconnection engine, 4 the session
protocol, 5 the stream mux, 6 the desktop process, 7 the window, 8 what is
proved, 9 what is only model-checked, 10 what is not modelled, 11 disagreements
between the code and what it says of itself, 12 other observations, 13 mutations, 14 what is left.

## 1. Inventory

### The core

**Reconnection engine** (`autoconnect/engine.go`, `wake.go`). State: per pair a
failure count, a recorded refusal, a scheduled retry, an attempt in flight with
the authorization epoch it belongs to; a coalescing wake map with a one-element
channel. Operations: `Reconcile` (ticker), `RetryNow`, `Reauthorize`,
`RecoverAuthorization` (RPCs), `Wake` (session manager), the retry goroutines,
`runWakes`, `Close`. It calls the session manager's Connect with the lock
released and is called back when a session ends. Hard: several goroutines reach
the same pair, and every decision is made from state read before an unlock.
Correct when there is one attempt per pair, a retry has one owner, a notification
is not lost, a superseded attempt changes nothing, and Close ends.

**Peer session manager** (`peersession/`). State: per pair and side a primary
slot, a candidate slot, a queued inbound admission, a pin; per session its marks
(stopped, cancel requested, commit dispatched, promoted), its predecessor and its
End job. Operations: reserve and prepare a candidate, establish its carrier, wait
out the predecessor's grace, report Ready, resolve, commit, promote, cancel, end,
admit an inbound candidate, Disconnect, revoke, pin, react to transport changes.
It talks to the control server by calls whose replies may be lost and by an
ordered event stream that is replaced when it breaks. Hard: two ends and a server,
each with its own view of one decision. Correct when only a committed session is
primary, the old session is stopped only for a committed one, every attempt at
the server has an owner, a revoked side owns nothing, and no candidate is stuck.

**Stream mux** (`peer/streams.go`, `stream.go`, `conn.go`, `protocol/window.go`).
State: per end the streams, the newest ids, the accept queue; per stream two
windows and a ring buffer. Operations: Open, Accept, Read, Write, CloseWrite, Close
and the handling of OPEN, DATA, WINDOW_UPDATE, FIN and RESET. Hard: frames of a
stream cross its closing on the other end. Correct when two ends that run this
code never reject each other's frames, bytes arrive in order, credit is neither
lost nor made up, and a finished stream is freed.

**Runtime owner** (`runtimeowner/`): an owner record and a recovery journal on
disk, claimed, renewed and reclaimed across crashes. **Device helper**
(`helper/`): accounts, certificates, pairs and selections on the core's side.
**Stores** (`catalog/`, `installcatalog/`, `rootregistry/`, `remoteconnections/`):
documents with revisions and admitted transitions. **Signaling supervisor**
(`peersession/signaling.go`): one subscription at a time, replaced when it breaks.
**Local RPC, remote route, peer broker, runtime bridge, secrets, git checkout,
harness runtime**: request paths and process handling.

### The desktop process

**Identity** (`p2p/credentials.ts`, `enrollment.ts`, `device-session.ts`,
`accounts.ts`, `session-registry.ts`). State: three secrets of the native store and
two legacy files; the enrollment, renewal, login and leave under way. Hard: the
store is written in several steps with a crash between any two, and answers of
the coordinator come when the identity has changed. Correct when there is one
identity, a spent enrollment token can be resumed, and nothing that was removed
or refused is taken back.

**Device catalog** (`p2p/catalog.ts`, `catalog-transition.ts`, `core/catalog.ts`).
State: a record and a marker, two files; the core may be their writer. Hard:
publications in two steps, snapshots held across commits, two possible writers.
Correct when no forgotten service and no revocation is lost.

**Peer connections and the runtime binding** (`p2p/connections.ts`,
`runtime-host.ts`, `workbench-entry.ts`, `runtime-owner.ts`, `management.ts`).
State: the recorded state of a pair, the attempts seen, the connect under way, the
address being read; the binding of the local runtime and who holds it. Hard:
every admission crosses an await, and the core's frames come in any order.
Correct when the process acts on the newest thing it was told and no address is
answered for a pair whose authority was removed.

**Services and requests** (`p2p/services.ts`, `management-requests.ts`, `rpc.ts`):
edits of the saved services against the core's own copy; requests of a document
that may reload, and the numbered calls behind them.

**Process and life cycle** (`core/supervisor.ts`, `launcher-shutdown.ts`,
`launcher-tray.ts`, `launcher-update-service.ts`, `window-placement.ts`,
`runtime-browser-controller.ts`, `workbench-guests.ts`): starting and undoing the
start of a core, quitting from every path, updates, the window's place, zoom,
requests to embedded pages.

**Harness and managed installations** (`managed/`): start, stop and following of
the Harness; versions in directories of their own with a pointer; plugins of the
profile; roots, workspaces, toolchains and installations over stores of the core
whose answers may be lost; the packaged seed; token usage read from growing logs.

**Remote computers** (`remote/`, `core/remote-route.ts`): records by revision,
tunnels that die. **Packages**: the telemetry client (`statlog.ts`) and the
record store (`runtime.ts`) of `desktop-foundation`.

### The window

**IPC boundary** (`preload.ts`, `ipc.ts`, `*-ipc.ts`, `security.ts`): which frame
may ask what, tokens of native selections, and how an error keeps its remedy.
**Pages**: runtime tabs, the Harness console and plugin operations, accounts,
join, pairing, managed directories, settings. State: copies of what other processes
own. Hard: answers come late, out of order or not at all, and announcements
overtake them. Correct when what is shown is held, and nothing owed is dropped.

## 2. Modules

| Module | Models | Checked in |
| --- | --- | --- |
| `AutoConnect`, `AutoConnectProofs` | `networking/internal/autoconnect` | `autoconnect_*` |
| `Candidate`, `CandidateProofs` | `networking/internal/peersession`, both ends of a pair, and the control server, from its use by the session manager (external) | `candidate_*` |
| `Mux`, `MuxStreamProofs` | `networking/internal/peer` streams, `protocol/window.go` | `mux_*` |
| `CredentialStore`, `PeerIdentity` (over it), `IdentityProofs` | identity of this machine | `MCPeers`: `peers` |
| `DeviceCatalog`, `PeerCatalog` | the device catalog's promise, and its files | `peers`; `catalog_writers` |
| `PeerConnections`, `PeerRuntime` | pair states, addresses, the lent runtime | `peers` |
| `PeerServices`, `PeerRequests` | saved services; requests and calls | `peers` |
| `PeersProofs` | theorems about all of `peers` | |
| `LauncherLifecycle`, `LauncherUpdate`, `LauncherWindow`, `CoreProcess`, `RuntimeZoom`, `WorkbenchGuests` | life cycle of the desktop process | `MCLauncher`: `launcher` |
| `HarnessRuntime`, `HarnessVersions`, `HarnessPlugins`, `BundledSeed` | the launcher's Harness | `launcher`; `harness_prune` |
| `ManagedRoots`, `ManagedInstallations`, `SessionUsage` | managed directories, installations, usage | `launcher` |
| `RemoteSSH`, `StatLog`, `JsonRepository`, `JsonRepositoryProofs` | remote computers, telemetry, record store | `launcher` |
| `LauncherProofs`, `LauncherRunProofs` | theorems about `launcher` | |
| `LauncherIpc`, `PeerTabs`, `HarnessView`, `PeerAccounts`, `PeerJoin`, `PeerPairing`, `ManagedView`, `SettingsView` | the window | `MCShell`: `shell` |

How they compose: `Candidate` is the composition of two session managers and the
coordinator, whose record and operations are its first section; `PeerIdentity` runs its workflows over one `CredentialStore`;
`RemoteSSH` joins page, desktop process and core; `WorkbenchGuests` both ends of
its channel; `PeerCatalog` joins the desktop process and the core as writers of the
same files, instantiates `DeviceCatalog` and implements it but for one kind of step.

**The three grouped runs.** The components of `MCPeers`, `MCLauncher` and
`MCShell` share no state with one another, so each of these modules checks them
in one run: the first state chooses a component (`part`), the variables `v1`,
`v2`, ... hold that component's state and the others stay out of the way. Every
behaviour is a behaviour of one component, and a property of the run is the
conjunction of the components' properties of one kind, named for what they have in
common. A component that needs two sets of bounds to meet all its cases appears
twice (`Connections(2, 1)` and `Connections(1, 2)`, `Enrollment` and `Login`,
`Repository` and `Migrations`, `Feed` and `Operations`, `Invited` and `Inviting`).

## 3. AutoConnect

One action per critical section of `engine.mu`, and one per thing done between
two of them: reading the catalog (`ReadIntents`), reading the stage (`ReadStage`),
the connect call (`ConnectSucceeds`, `ConnectFails`), the workbench check
(`VerifyWorkbench`). `Callers` are the goroutines of RPCs and the ticker, which are
not in the engine's WaitGroup; `Workers` are those that are, one per taken wake
and one per retry. A retry's cancel channel is named by its goroutine:
`pending[p] = w`, and `w \in cancelled` once it is closed. `inFlight[p]` is the
epoch of the attempt that owns `p`. The catalog and the session manager are
environment actions (`Authorize`, `Revoke`, `SessionMoves`, `SessionDrops`).

Abstractions: delays have no length, a timer may fire at any time; the failure
count stops at the length of the backoff table, after which the delay is
constant; refusals are of two kinds, those `RecoverAuthorization` may clear and
the others; a connection's stage is down, live, or live but owing a workbench.
`untried` is a history variable. Bounds: `MaxEpoch` reauthorizations of a pair,
`Workers` goroutines at once.

| Run | Shows |
| --- | --- |
| `autoconnect_safety` | `TypeOK`, `SingleFlight`, `TimerOwnership`, `WakeNotStranded`, `StaleAttemptLeavesNoTrace` |
| `autoconnect_liveness` | `ReauthorizedIsTried`; `DropIsRetried` when the daemon's ticker runs; `CloseTerminates` |

One pair is enough, as nothing in the engine relates two pairs except the wake map,
which is taken as a whole; one caller and two workers give every pairing of caller,
wake and timer, and one reauthorization every window between an old and a new
epoch. The proofs cover any number of each. The liveness run (`BoundedSpec`) has two
kinds of behaviour, as all of them together have too many states: with one worker at a
time everything may happen at any moment, and with both of them nobody calls Reconcile
or RetryNow, revokes or closes, so that wakes and timers alone carry a reauthorization
through.

Fairness: weak fairness of each goroutine that is inside the engine (the Go
scheduler runs it; Connect has a deadline; timers fire), of `runWakes` and of a
Close that was begun. Nobody has to call anything. The hypothesis `Ticker` of
`DropIsRetried` is the daemon's ticker (`cmd/dshkerd/cli.go`): Reconcile is called
again and again, and the catalog is not unreadable forever.

## 4. Candidate

The coordinator, the first section of the module, is what `peersession` relies on: a compare-and-swap prepare that is
idempotent by id, Ready from both sides, one decision per attempt shared by
commit, cancel and expiry, End, and an event stream to the target in which a new
subscription replays only a pending candidate.

`Candidate` has both ends of one directed pair, "from" (the source, which dials)
and "to" (the target). `pc[s, a]` is where the goroutine of the session of attempt
`a` on side `s` stands; `cand`, `primary` and `queue` are the slots and the queued
admission; the marks are sets of sessions. An action is a critical section of
`manager.mu` or a call: `XReplies` is the call with its reply, `XLost` a call that
took effect without one. Sessions follow

    link -> prepare -> establish -> grace -> ready -> resolve -> promote -> live
                                     (source: dispatch -> commit before promote)
    any of them -> cancel or abort -> cleanup -> ending -> ended -> idle

and an inbound candidate that meets an undecided one goes through `queued`,
`admitPromote` or `admitRetire`, and `admitInstall`.

Everything that goes wrong or intervenes takes from one budget, `MaxFaults`: lost
replies, dying or suspended carriers, an impatient caller, Disconnect, Revoke, a
lost subscription, early expiry. What follows from an earlier event (the failure
of a stopped session's call, the expiry of an attempt one side has abandoned) is
free.

Abstractions: a call takes effect at its dispatch; Disconnect dispatches the Ends
of both sessions at once; the source's events are read as the state they announce,
in any order; a second session of the target for one attempt exists only after the
first has ended; whether a predecessor's recovery will win is chosen at the
reservation; the expiry of a lease is `CarrierDies`.

| Run | Instance | Shows |
| --- | --- | --- |
| `candidate_attempt` | one attempt, three faults, fair | `TypeOK`, `PrimaryIsCommitted`, `AuthorityIsOwned`, `RevokedOwnsNothing`, `CandidateSettles`, `AuthorityIsReleased` |
| `candidate_handover` | a second attempt beside a first one, one fault | `SlotsAreLive`, `AuthorityIsOwned`, `MakeBeforeBreak`, `NeverRevived` |

Two attempts from the beginning with two faults have too many states, so the
handover starts from states of a connected pair (`ConnectedAt`)
which the first run reaches: both sides settled, or the target's session undecided
with its events lost and the source settled or already gone. Three faults on one
attempt cover a lost reply, its lost replay and an intervention. With one attempt no
candidate has a predecessor, so `CandidateSettles` says nothing of the grace wait for
one; the handover takes its steps and checks safety only. Deadlock is off
because a finished behaviour has nothing left to do. The safety properties are
also proved from `Init` for any number of attempts and faults.

Fairness: goroutines run, calls have deadlines and Ends are retried; the server
expires what nobody decides; an interrupted carrier recovers or dies within the
transport's recovery window; events are delivered while the subscription lasts.

## 5. Mux

Both ends of one session: `link[e]` holds the frames on their way to `e`, reliable
and in order as the data channel is. Everything under `mux.mu` is one action,
including the frames it sends. A reader or writer with nothing to do is in
`waiting` until `notify` of its mux takes it out. A byte is its position in the
stream, so the ring buffer's content can be compared with what was written.

Abstractions: a send on a link that is gone fails the mux, and is the same action
as seeing `link.Done`; frames to a mux that failed are dropped; `fail` also clears
the accept queue and the listener's hold, which see `mux.done`; the DATA frames a
Write sends without waiting are one step; a stream with an error answers everything
with it, so the rest of it is reset; decoding and the scope check of a frame always
succeed between two ends of one attempt; ids stay far from 2^32.

| Run | Instance | Shows |
| --- | --- | --- |
| `mux_stream` | one stream, window 2, frames of 1, 3 bytes, fair | `TypeOK`, `NoProtocolFailure`, `ReadsInOrder`, `CreditConserved`, `WriteCompletes`, `FinishedIsFreed` |
| `mux_limit` | limit 1, ids up to 3, from both ends | `ReservationHolds` |
| `mux_listener` | one stream | violation: the listener drops a mux that is alive |

Three bytes through a window of two wrap the ring and exhaust the credit; both
directions share the three bytes. A ring of two cannot hold a frame that is split
in the copy: that `enqueue` appends at every position, fill and frame size is
lemma `EnqueueKeepsRing` of `MuxStreamProofs`. With a limit of one, the second
OPEN of either end and two crossing OPENs meet it. Deadlock is off: two closed
muxes stop.

Fairness: the receive goroutine runs, whoever holds a stream keeps reading it and a
Write that has begun goes on. Nobody has to open, accept, write or close.

## 6. The desktop process

An action is what runs between two awaits, as the process has one thread. A file
operation, a call of the core and an answer are steps of their own, so that other
operations, crashes and lost answers fall between them.

### peers

| Component | State and actions | Properties (conjuncts of) |
| --- | --- | --- |
| `PeerIdentity` over `CredentialStore` | three secrets and two legacy files, store jobs in order; enrollment, renewal, migration, leave, login, restore, refusal, crash at every step | `OneIdentity`, `SpentIsResumable` (`OneResumableIdentity`); `ResurrectionStep`, `LoginStep` (`NothingIsTakenBack`) |
| `PeerConnections` | core's attempts and frames in any order, admissions, connect, disconnect, address, removals | `NewestAttempt`, `EntryHonoursRemoval` (`AuthorityIsCurrent`) |
| `PeerRuntime` | running URL, binding, generation, waiting requests, the start and its two callbacks, what the core holds | `HeldIsCurrent`, `WaiterIsServed` (`AuthorityIsCurrent`) |
| `PeerServices` | saved service, the core's copy, one edit and one activation | `ActiveIsSaved` (`AnswersAreTrue`) |
| `PeerRequests` | scopes of documents, requests, numbered calls, core's effects | `RunsOnce`, `AnswerIsItsOwn` (`AnswersAreTrue`) |
| `PeerCatalog` | record, marker, the operation inside its file steps, snapshots of callers, the core as writer | implements `DeviceCatalog` unless overtaken (`PromiseKeptUnlessOvertaken`) |

Bounds (`peers.cfg`): connections with two attempts and one operation, and with one
attempt and two operations, two frames in flight; two services and URLs, three
generations; two endpoints, three versions; four request ids through a replay
window of two and a limit of two, three calls, two documents; two callers holding
snapshots, two catalog identities, two revisions; two enrollments and three
certificates (a renewal late for a second enrollment), two tokens (a refusal late
for a second login), one fault.

**Refinement.** `DeviceCatalog` says what a reader may rely on: a readable catalog
changes only by steps that keep its identity, its forgotten services and its
revocations; it may become unreadable, and what is readable again keeps what was
promised before, or is a new catalog under a new identity. The mapping takes
`last` to the catalog last read and `readable` to the read of the two files
(`Promise` in `MCPeers`). A publication is two writes in `PeerCatalog` and one
step, or two stutters and a step, in `DeviceCatalog`. The core writes the same files:
it carries out the operations it is sent and records revocations by itself, and any of
its reads may fail. It answers a failed read as if it had no catalog, and the desktop
process then writes without asking it. So every step is one of the promise but one: a
publication over a record that the core changed since it was read (`Overtaken`), which
loses what the core changed and nothing else. `PromiseKeptUnlessOvertaken` is checked in
`peers` and proved; the promise without that exception is refuted by `catalog_writers`
(section 11).

What the other properties leave out: `EntryHonoursRemoval` counts the removals made by
this process, not a revocation that the core records during the last read of
`guardEntry`. `WaiterIsServed` leaves out a wait that falls between the two callbacks of
a start that has settled (`NobodyWaitsInVain`, section 12).

### launcher

| Component | Property (conjunct of) |
| --- | --- |
| `HarnessRuntime` | a Harness reported stopped never comes back, a live one is followed while the feed has one timer: `NoResurrection`, `LiveIsFollowed` (`RunsWhatItRecords`) |
| `HarnessVersions` | the pointer names a version that is built: `PointerIsReady` (`RunsWhatItRecords`) |
| `HarnessPlugins` | a plugin of the profile has its directory: `ProfileIsBacked` (`RunsWhatItRecords`) |
| `ManagedRoots` | registered roots agree with the locator, a workspace overlaps no root and no other workspace: `RootsAreConsistent` (`RunsWhatItRecords`) |
| `ManagedInstallations` | a started installation is the recorded one: `RunsWhatIsRecorded` (`RunsWhatItRecords`) |
| `BundledSeed` | a verified seed is one whole release: `VerifiedIsBound` (`RunsWhatItRecords`) |
| `LauncherUpdate` | an offered update is newer and its file the announced one: `UpdateIsTrue` (`ShowsWhatIsTrue`) |
| `LauncherWindow` | a window that the code moves lies on one display as a whole, one that it looks at and leaves has a strip on some display: `WindowIsReachable` (`ShowsWhatIsTrue`) |
| `LauncherLifecycle` | once up, the window is shown, or hidden with a tray, or there is none and the Dock makes one again, or a quit is under way: `NeverStranded` (`ShowsWhatIsTrue`); a quit ends: `QuitCompletes` |
| `CoreProcess` | a core is served whole, by the newest handler: `NoHalfCore`, `NewestServes` (`ShowsWhatIsTrue`) |
| `RuntimeZoom` | zoom commands add up: `ZoomStepsAdd` (`ShowsWhatIsTrue`) |
| `SessionUsage` | no token lost or counted twice, in total and for each day and model; a report without a valid time is in the total and in no day: `UsageIsWhole` (`NothingIsLost`) |
| `StatLog` | only what was consented to is sent; what leaves the queue was acknowledged, discarded, dropped from a full queue, or taken off by the answer to a request whose front had moved: `SentIsConsented`, `NothingVanishes` (`NothingIsLost`) |
| `JsonRepository` | records are readable after migrations: `RecordsAreReadable` (`NothingIsLost`); a batch is whole unless a read or an undo failed or another writer came between: `BatchStep` (`AnswersAreTheirOwn`) |
| `WorkbenchGuests` | confirmed by the document that was asked: `ConfirmedStep` (`AnswersAreTheirOwn`) |
| `RemoteSSH` | edited from what the user saw, closed once saved: `EditStep`, `CloseStep` (`AnswersAreTheirOwn`) |

Bounds (`launcher.cfg`): for each component the smallest at which two operations
and a late third meet: three generations and serves, two guests and documents, two
requests, three commits (running, being built, next), two plugin names with three
directories, two capabilities, three answers of the installation's executables,
log events and replacements of the file up to three together, with one change of the
cache's version, a telemetry queue and batch of two with two requests in flight and one restart, the record store with
two calls over two versions and with one call over three, a seed of two releases.

Fairness: `QuitCompletes` assumes weak fairness of `Shutdown` and nothing else.
Each owner's close is bounded by a timer of its own: a call in `rpc.ts`, the
handover of an attached core in `core/supervisor.ts` (5 s), and the grace period
before a child is killed.

`harness_prune` checks `HarnessVersions` alone and ends in the violation of
section 11.

## 7. The window

| Component | Property (conjunct of) |
| --- | --- |
| `PeerTabs` | a page is of the attempt its tab stands for; a ready computer is served unless main had no address for this attempt, or the page turned its own question away while another operation of the service was under way: `PageIsCurrent`, `ReadyIsServed` (`ShowsWhatIsHeld`); the page of a suspended computer stays until its tab is closed or the pair or the connection changes, unless a pass begun before the pair last changed still visits it: `RetainedStep` (`StepsAreAccounted`) |
| `HarnessView` | the console loses nothing, busy means in flight: `FeedLosesNothing`, `BusyIsInFlight` (`ShowsWhatIsHeld`); every package of a batch is tried: `BatchStep` (`StepsAreAccounted`) |
| `LauncherIpc` | only the page is served, with what the contract admits, and an error keeps its remedy: `OnlyThePageIsServed`, `ContractIsAdmitted`, `RemedyIsKept` (`ShowsWhatIsHeld`); a token is spent once: `TokenStep` (`StepsAreAccounted`) |
| `PeerAccounts` | the list is the coordinator's, an announcement is read: `ListIsTrue`, `AnnouncedIsRead` (`ShowsWhatIsHeld`) |
| `ManagedView` | no spent selection is offered: `OfferedIsHeld` (`ShowsWhatIsHeld`) |
| `PeerJoin` | a join that took effect is not forgotten: `NothingIsForgotten` (`ShowsWhatIsHeld`) |
| `SettingsView` | the port, the close behaviour, the start at boot and the theme shown are the ones in force, but for a port that the core refused, a read answered before a change and shown after it, and changes by the tray's menu or the command line: `SettingsAreTrue` (`ShowsWhatIsHeld`) |
| `PeerPairing` | a pairing write that took effect ends as done or unconfirmed, unless the read after it is refused with a code taken as proof of no effect: `AccountedStep` (`StepsAreAccounted`) |

Bounds (`shell.cfg`): two paired computers with two revisions; the feed with two
entries and one operation, and with two operations; one pair the user made and one
made by the other side (`Mine`); two users, one network; two selections of each
kind; three options of a list box, one of them disabled.

## 8. What is proved

All theorems hold for every value of the constants that satisfies the named
assumptions: `AutoConnectAssumption`, `CoordinatorAssumption`,
`CandidateAssumption`, `MuxAssumption`, `PeersAssumption`, and in `MCLauncher` one per
component. These say that bounds are numbers, that there is something to model, and that
names used as markers are not also names of goroutines, endpoints, addresses, commits
or directories. Three say more: releases are triples of numbers (a version that does
not parse is none), the default zoom is one of the levels, and no display or window is
smaller than the strip that must stay visible (`WindowAssumption`: the window's least
size is 760 x 560, the strip 120 x 32). TLC evaluates each of them. `PeerIdentity` and
`JsonRepository` appear several times in the runs, with different bounds; their
theorems name what they ask of the bounds (`Constants`), and the modules of the runs
show it of every instance.

### AutoConnectProofs

- `TypeCorrect`: `TypeOK` is inductive.
- `SingleFlightHolds`, from `FlightInv`: `SingleFlight` alone is not inductive,
  because ensure looks at `inFlight` and not at other goroutines. `FlightMarked`
  adds that whoever drives a pair holds its mark with its own epoch; then an
  admission finds no mark, hence no other flight, and the end of a flight clears
  no other's mark.
- `TimerOwnershipHolds`, from `TimerInv`: `CancelledHeld` adds that a closed
  channel's goroutine is still in its select or about to leave the map, so a new
  retry never reuses a channel that is closed.
- `WakeNotStrandedHolds`: inductive with the types.
- `StaleAttemptLeavesNoTraceHolds`, an action property: only the goroutine itself
  settles (`OnlyItselfConcludes`), and both its steps compare the epoch under the
  lock (`StaleStep`).

### CandidateProofs

- `TypeCorrect`, from `TypeInv`: one part per variable, one lemma per action.
- `RevokedOwnsNothingHolds`, from `RevokeInv`: each step leaves slots and pins
  alone, or at most empties the slots of a side without a pin, or is Connect,
  Revoke or Pin.
- `PrimaryIsCommittedHolds`, from `CommittedInv`: a promotion looks at what a
  session was told, so the invariant follows the knowledge: events on their way
  agree with the coordinator (`InboxTrue`), the active attempt is committed, a
  session about to promote and an admission about to promote its predecessor name
  a committed attempt.
- `AuthorityIsOwnedHolds`, from `OwnedInv`: what the coordinator holds has a
  session of the source at a step that still ends it, or a job; the source has no
  session of a generation it has not reserved.
- `SlotsAreLiveHolds`, from `LiveInv`: sessions that never ran have left no mark
  (`IdleIsFresh`), and one that waits for admission is outside the slots
  (`WaitsOutside`).
- `NeverRevivedHolds`, from `OrderInv`: beside the two invariants above, the
  attempts in the slots of a side are in the order in which they were made
  (`SourceOrder`, `TargetOrder`), so a promotion never goes back.
- `MakeBeforeBreakHolds`, from `OrderInv` and `BreakInv`: an admission that retires
  a session names one that is decided and no longer active.

### MuxStreamProofs

- `ReservationAlwaysHolds`, from `MuxInv`: `ReservationHolds` looks only at the
  streams a mux holds, but Read may go on with one that has just left it; `Shape`
  says of every stream object that its accounts agree, and of every frame on the
  link that it has an id and a size.
- `TypeCorrect`, `NoProtocolFailureHolds`, `ReadsInOrderHolds`, `CreditHolds`, all
  from `Inv == MuxInv /\ Base /\ PerEnd /\ PerStream`. `NoProtocolFailure` is where
  the work lies: that no receiver check ever fails means that everything on the
  wire was within what the receiver will have granted when it arrives. The frames
  of one stream on a link cannot be summed here (that is induction over the
  sequence), so the invariant describes a line by a path, a function that gives
  for every prefix of the line the position in the stream it leads to. Sending
  extends the path, receiving shifts it, and the frames' meaning is that each
  steps the path by its size. `CreditHolds` states with it that the credit on its
  way leads from what the writer received to what the reader gave away, never
  beyond the window.

### PeersProofs

- `PromiseKeptUnlessOvertakenHolds`: `PeerCatalog` implements `DeviceCatalog` but for
  overtaken publications, with a core that writes and whose reads may fail at any time.
  `CatalogInv` says, for every point inside an operation, what the files hold, and what
  the next write keeps of the record it was judged against; every other step is then one
  of a few moves (`CatalogMove`), each of which is a step of the promise or a stutter.
- `ConnectionsAreCurrent`, and with it the connections' part of
  `AuthorityIsCurrentHolds`, from `ConnInv`, for any number of attempts and
  operations. `NewestAttempt` needs that a living host without a record has seen
  nothing; `EntryHonoursRemoval` that an address still admitted is clean and that
  its second read of the catalog is not overtaken by a save.
- `AuthorityIsCurrentHolds` also from `RuntimeInv`: a request that waits, but for one
  that fell between a start's callbacks, has a start under way; a live URL has the
  current binding; and a service that waits or holds something is one the core has.
- `AnswersAreTrueHolds`, from `ServicesInv` (what an edit or activation has read is
  still so when it commits, unless the version moved or the service was forgotten)
  and `CallsInv` (every request is truthful about its call; an id that ran is
  remembered or below the replay window, `ScopeForgetsNothing`).

- `OneResumableIdentityHolds`, `NothingIsTakenBackHolds`: `IdentityProofs` for the two
  instances of the run (`EnrollmentProofs`, `LoginProofs`).

### IdentityProofs

`OneIdentityHeld`, `SpentStaysResumable`, `NothingResurrected`, `LoginsKept` and
`IdentityTypes`, all from one invariant (`IInv`), for any number of requests,
certificates, tokens, faults and operations. None of the four is inductive: an
operation of the store decides its writes when it begins and carries them out one by
one, with failures, crashes and another process's session between them. So the
invariant has three layers. Of the chain of operations: only the head has begun, a
client has one in it, what a lost helper left behind stands before the living
(`Shapes`, `Order`, `NoOrphans`). Of the writes still to do: every registration in a
place or in the plan is of one request (`SameId`), an operation that keeps the
registration never empties the last place that has it (`Keeping`: each erasing write
is covered by an earlier one or another place), a preparation runs where nothing was
held, a removal only for a device the coordinator removed, and nothing runs over a
damaged file (`Stuck`). Of the clients: an answer on its way still says what is held
(`Replies`), a workflow works on the registration it loaded, and an adoption or a
restoration is of the session that is stored (`Accounts`, `Restoring`). A step is
either the store's or a client's, which leaves the running operation alone (`Aside`).

### LauncherProofs and LauncherRunProofs

Each component has its own invariant, and a step of the run is a step of one of them.

- `ShowsWhatIsTrueHolds`. `UpdateInv`: a download under way is of a newer release;
  that the comparison of versions is an order is lemma `NewerByParts`. `WindowInv`: a
  place that the code left or chose, and nobody changed since, has its strip on a
  display or lies within one; the lemmas are arithmetic on rectangles. `LifecycleInv`:
  the phase of the quit tells whose shutdown has settled, and a quit that is under way
  has set the flag that lets windows close. `HelperInv`: only a connection in use is
  open. `ZoomInv`: the queued commands lead from the stored level to the one asked
  for, again as a path (`ZoomTrue`), as the queue has any length.
- `AnswersAreTheirOwnHolds`. `RemoteInv`: an update names the revision its author
  saw until it is answered or read back. `WorkbenchInv`: messages travel in two
  queues, so it says of every position what is owed there: a request on its way is
  still asked for, taken back by a cancel behind it, or lost with its document
  (`Underway`, `Owed`); a reply on its way is of a request the page is done with, and
  the pending one is answered by the document shown (`Returning`). The record store
  is `JsonRepositoryProofs`.
- `RunsWhatItRecordsHolds`. `HarnessInv`: while the feed has one timer, a drain of
  this generation keeps it (its proof found the behaviour noted in section 12).
  `VersionsInv`: what an operation has prepared is ready, the active version is not up
  for pruning. `PluginsInv`: the directory of an operation is its own until the profile
  has it. `RootsInv`: a registry lies where the locator points, at every stage of a
  call whose answer may be lost. `InstalledInv`: what a call will start is what the
  record says or the call is refused. `SeedInv`: what was read of a seed in which
  nothing changed is of one release, and every resource found is one the kept manifest
  declares (`SeedKept`, `SeedBound`, `SeedUntouched`).

### JsonRepositoryProofs

`BatchIsWholeHolds`, from `IInv`: undoing what is still to be undone leaves every record
as it was found (`Undoable`: of several undos of a record the last one writes what was
found, so a key may occur twice in a batch), and what is no longer to be written is
written (`Written`). The shape of a migrated record plays no part in it.

## 9. What is only model-checked

- Liveness: `ReauthorizedIsTried`, `DropIsRetried`, `CloseTerminates`,
  `CandidateSettles`, `AuthorityIsReleased`, `WriteCompletes`, `FinishedIsFreed`,
  `QuitCompletes`. The proof system does not handle fairness.
- `CreditConserved` as it stands: it sums the sizes of the frames on a link, which
  takes induction over data. `CreditHolds` proves its content in the form of a path.
- `NothingIsLost`, and `TypeOK` of `launcher`: the usage of a session log is a sum over
  its events, and a migrated record is what a recursive function makes of it; both take
  induction over data.
- `TypeOK` of `peers`: its identity part is `IdentityTypes`; the others' types are
  proved only as far as their invariants need them.
- The properties of `shell`: not proved. `PeerTabs` makes its pass over the tabs by a
  fold, what a fold computes takes induction over data, and `ShowsWhatIsHeld` is one
  conjunction over all its components.

## 10. What is not modelled

`PROJECT.json` lists every part with the reason. The main ones: the WebRTC
transport and its negotiation (a library with timers); in the session manager the
workbench attached after promotion, replacement of the daemon, `Manager.Close`, the
waiter of a manual connect and revocation by the server; `Listener.Replace` and
`Detach` and the deadlines of `Conn`; the signaling supervisor, of which only the
loss of the target's events is modelled; the runtime owner; HTTP clients and request
encoding; the validation of stored documents; git and process handling below the
operations that use them; layout, wording and translations of the pages; build
and release tools.

## 11. Disagreements between the code and what it says of itself

Three have a run that ends in them; `PROJECT.json` quotes the comments.

- `mux_listener`: `Listener.Accept` takes the error of one stream, closed by its
  opener before it was accepted, for the end of the mux, and the session's listener
  accepts no more streams.
- `harness_prune`: DSH started from the old version while a switch is under way
  loses the directory it runs from when the switch prunes.
- `catalog_writers`: a live core answers `p2p.catalog_unavailable` for a read that failed
  (`networking/internal/catalog/store.go:327-340`); the desktop process takes it for a
  core that does not serve the catalog (`core/catalog.ts:147-156`) and becomes a second
  writer, which its comments at 18-24 and 36-38 exclude. A commit of it is judged
  against a record that the core then changes, and the core's revocation is overwritten.

The others were met the same way. Each is a formula of its module that TLC refutes
when it is added to a run of that module, as are the formulas that section 12 names;
the last column says what the code does.

| Module, formula | Where | What happens |
| --- | --- | --- |
| `AutoConnect`, `CloseJoinsAttempts` | `engine.go:261` | Close returns while an attempt of Reconcile's caller runs |
| `AutoConnect`, `OnlyReauthorizeResetsStop` | `engine.go:161` | a Reconcile with an old snapshot clears a refusal |
| `Candidate`, `SlotHeldUntilResolved` | `candidate_end.go:55` | a lost End frees the slot while the attempt is pending |
| `ManagedRoots`, `FirstRunIsArranged` | `managed/service.ts:141-143` | the locator is saved before the registry (244/245, 435/436): after a crash between them the first run that the comment describes is refused as already complete |
| `ManagedInstallations`, `SwitchIsAdmitted` | `installation-service.ts:326-333` | a switch away from a tag keeps the tag's object in the record, and the core refuses such a record (`installcatalog/model.go:244`) |
| `PeerPairing`, `RevokedIsCleaned` | `p2p/pairing.ts:182-183` | the pair is read back before the cleanup: cancelled or failing there, an accepted revocation is not cleaned up, against 165-171 |
| `PeerPairing`, `EffectIsNeverDenied` | `p2pPairing.ts:186-205` | the read that follows a write (`p2p/pairing.ts:98`, 138, 161, 182) is refused with a code of `rejectedBeforeEffect`, and the write that took effect is offered again, against 189 |
| `PeerJoin`, `ForeignIsProven` | `p2pEnrollment.ts:88-93`, `P2PJoinPanel.vue:146-155` | the list of devices is kept when another account signs in, and proves a foreign identity to it, against 141-144 |
| `RemoteSSH`, `DisconnectStops` | `remote/service.ts:159-167`, 84 | a connect that was under way shows the computer as ready after its disconnect, against `openspec/changes/add-managed-remote-dsh-connections/specs/managed-remote-dsh-connections/spec.md:56-58` |
| `RemoteSSH`, `BusyIsReal` | `remote/service.ts:75`, 123 | a state read that fails after the busy mark leaves it, and the computer is refused as having an operation in progress (231-236) |
| `SettingsView`, `DraftIsKept` | `ManagedWorkspacesPanel.vue:31-35` | every answer carries a new port object, so a poll seeds the draft again although the stored port is the same |
| `LauncherWindow`, `TitleBarIsReachable` | `window-placement.ts:44-49` | a window is kept whose title bar is off every display, against 19-27 |
| `LauncherIpc`, `SelectionIsKept` | `ipc.ts:564-580` | an invalid selection is answered as a launch failure, though `managed/ipc-error-codes.ts:48-51` gives it a code of its own |

## 12. Other observations

Behaviour seen while modelling that no comment contradicts, or that lies outside
the models.

- Runtime owner: a creator that dies after the pending record (PID 0), or an owner
  that dies between the record and the journal, leaves every later Open refused
  (`client.go`, `recovery.go`).
- Signaling: a registration of a replaced subscription may be applied after a newer
  one (`candidate_control.go:265-266`); a cancelled dial may register late at the
  coordinator and displace the new socket (`signaling.go:222-228`); reconcile
  passes of two processes displace each other once per pass.
- Requests: the 90 s timer of a call fires before the request's 120 s abort
  (`rpc.ts:66`, `management-requests.ts:30-33`). An edit that fails after
  `service.configure` leaves the core with the new endpoints
  (`helper/host.go:694-699`).
- Identity: leave may race a renewal, and a crash in the one-shot migration leaves the
  legacy copy; `PeerCredentialStore.create` is unused. A commit conflict in
  `revokePair` leaves the pair active here.
- Updates: a click on a newer update may be answered with the pending download of an
  older one. The launcher quits even when the update is no longer current. After a
  failed hand-over the next download ends in `destination_exists`.
- Desktop process: a new page's zoom is read outside the chain of changes
  (`runtime-browser-controller.ts:72`); a same-document navigation clears a guest's
  ready mark; display changes are missed while minimized (`window.ts:85`); a start
  that fails after the core was spawned exits without closing it (`main.ts:443`).
- Harness: a drain that outlives a stop and the next start arms a second timer over
  the first (`launcher-runtime-feed.ts:108-115`). The stop after that clears only the
  last one; a timer left behind may take the place of the next launch's, and the end of
  that launch is then noticed late or not at all. `doubled` in `HarnessRuntime` marks
  these behaviours, until the feed is back to one timer; `LiveIsFollowed` is stated
  of the others. Its bounded run did not meet them: the proof of
  `RunsWhatItRecordsHolds` did, and TLC confirmed it with six generations and two
  timers left behind. Also: the bootstrap's rmdir and rename have a crash
  between them (81-82); `sources.json` is written in place; a crash while a plugin is
  removed blocks its installation; readiness looks at three files.
- Managed: the cleanup of `createWorkspace` removes directories of a workspace whose
  commit succeeded and whose answer was lost (`service.ts:301-315`);
  `startHarness` installs again in a running worktree
  (`installation-service.ts:363-375`); `pathsOverlap` treats a child whose name
  begins with ".." as outside (`validation.ts:302-309`).
- Telemetry: an answer removes as many events as its request carried from the queue's
  front (`statlog.ts:719`). When the front has moved, by the answer to an overlapping
  flush, by a full queue that dropped its oldest, or by consent withdrawn and given
  again, events that were never sent are dropped. TLC refutes `OnlyTheSentLeave` of
  `StatLog` by each of these; the model counts what is lost so.
- Record store: a failed read counts as no record (`storage.ts:23-28`), so a rollback
  deletes an existing one. A repository without versions, and a repository's own
  `migrate` option (`runtime.ts:484-491`, 514), are not modelled.
- Runtime: a `connect` that runs between the `then` and the `finally` of a start
  (`runtime-owner.ts:55`, 65) finds the start still marked, asks for none, and waits for
  its 70 s timer (`NobodyWaitsInVain` of `PeerRuntime`, refuted).
- Tabs: while another operation of the service is under way, the page turns its question
  for a computer's address away with `p2p.service_busy` (`p2pManagement.ts:159-175`);
  nothing asks again until the next read of the catalog or the connections
  (`ReadyIsServedByMain` of `PeerTabs`, refuted). A pass over the tabs goes on after an
  answer with the catalog it began with, takes the page of a pair's newer revision for a
  stranger's and drops it, also while the computer is suspended
  (`runtimeBrowserState.ts:246-262`; `SuspendedIsRetained`, refuted).
- Settings: a port is held before the core has kept it and is not taken back when the
  core refuses it (`launcher-harness-service.ts:860-862`), and a read answered before a
  change is shown after it (`useLauncherHarness.ts:127`): `PortShownIsKept` of
  `SettingsView`, refuted. The close behaviour read on entry is shown over a click, and
  the tray's menu is not heard of (`SettingsPanel.vue:18-29`, 127-134,
  `launcher-tray.ts:212`): `BehaviorShownIsInForce`, refuted.
- Window: `refresh` clears the mark of another load
  (`useLauncherHarness.ts:136-143`); a failed remote row offers no Disconnect; several
  refusals become `remote.tunnel_failed` (`remote-ipc.ts:145-154`).

## 13. Mutations

`PROJECT.json` names one mutation for every property of every passing run. The
properties of the grouped runs are conjunctions, and these further mutations, which
are in the modules too, were each caught by the conjunct named.

| Run | Definition, mutated form |
| --- | --- |
| `peers` | `QueryAndComplete`, `CompleteUnconfirmed`; `ReplaceAdmitted`, `ReplaceAnyRegistration`; `RecoveryScope`, `RecoveryScopeEndsAnySession`; `assertCurrent`, `assertOpen`; `Revoke`, `RevokeLate`; `ActivateAgain`, `ActivateAsRead`; `admitted`, `admittedForgets` |
| `launcher` | `isCurrentUpdate`, `isOfferedVersion`; `isReachable`, `isVisible`; `undoStart`, `undoEarly`; `runs`, `runsAny`; `reply`, `replyOfAny`; `TimeoutOrAbort`, `TimeoutOnly`; `StatusRead`, `StatusReadUnfenced`; `record`, `recordDiscards`; `assertInitialSetup`, `assertInitialSetupSkipped`; `assertInstallationStopped`, `assertInstallationKnown`; `assertManifestResourceBindings`, `bindingsOfInspected`; `clearQueue`, `clearStoreOnly`; `sent`, `sentAll`; `encodeRepositoryRecord`, `encodePlain`; `rollback`, `rollbackForgets`; `expectedConfigRevision`, `expectedConfigRevisionShown`; `resumeOffset`, `resumeOffsetOfSize` |
| `shell` | `drop`, `dropEntry`; `Answered`, `AnsweredDrops`; `mergeConsoleEntries`, `mergeReplaces`; `settle`, `settleBusy`; `remoteFields`, `remoteFieldsWithoutKey`; `isTrustedRenderer`, `isTrustedWindow`; `LAUNCHER_HARNESS_ERROR_CODES`, `launchCodesCollapsed`; `handle`, `handleSpendsFirst`; `networkFailure`, `networkFailureForgets`; `rootsRegistered`, `rootsRegisteredKeepsRefused`; `readBack`, `readBackUnread`; `Outcome`, `OutcomeOfAny`; `refusedBeforeEffect`, `refusedBeforeEffectLate`; `recoverAnswered`, `recoverAnsweredAny`; `applyAutostart`, `applyAutostartReports`; `SystemChanges`, `SystemChangesUnapplied` |

## 14. What is left

Proofs: the components of `shell` (`PeerTabs` and `PeerPairing` first), and the
telemetry part of `NothingIsLost`, which sums nothing. Modules: the runtime owner, the
signaling supervisor composed with `Candidate`, and the rest of the session manager;
abstract specifications of a replaceable session and of a pair of byte streams, for
`Candidate` and `Mux` to implement.
