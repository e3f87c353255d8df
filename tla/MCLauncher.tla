----------------------------- MODULE MCLauncher -----------------------------
(***************************************************************************)
(* The desktop process's own components, which share no state with one     *)
(* another, checked in one run.  A behaviour is about one component, which *)
(* its first state chooses and whose variables v1, v2, ... then hold.      *)
(***************************************************************************)
EXTENDS Integers, Sequences, FiniteSets

CONSTANTS
  Current, Releases, MaxGen, Areas, Spots, MIN_VISIBLE_WIDTH,
  MIN_VISIBLE_HEIGHT, MaxServes, Guests, Levels, DefaultLevel, MaxCommands,
  MaxSeq, MaxDocs, MaxWait, MaxLeaked, Commits, None, PluginNames, PluginDirs,
  Paths, HomeDir, Default, Caps, Installs, Revisions, MaxExe, MaxTools,
  MaxChanges, Sessions, Steps, Counts, Days, Models, MaxEvents, MaxVersion,
  Configs, Slots, MaxCalls, MaxLate, batchSize, queueLimit, MaxFlights,
  MaxWrites, MaxRestarts, Keys, Batch, migrations, Missing

(* What the proofs ask of the constants.                                     *)
\* versions are triples of numbers (launcher-update-service.ts parses no other)
ASSUME UpdateAssumption == Releases \cup {Current} \subseteq Nat \X Nat \X Nat /\ MaxGen \in Nat
\* no display and no window is smaller than the part that must stay visible:
\* the window's least size is 760 x 560 (window.ts), the part is 120 x 32
ASSUME WindowAssumption ==
  /\ {MIN_VISIBLE_WIDTH, MIN_VISIBLE_HEIGHT} \subseteq Nat \ {0}
  /\ \A r \in Areas \cup Spots : /\ r \in [x : Int, y : Int, w : Nat, h : Nat]
                                 /\ r.w >= MIN_VISIBLE_WIDTH /\ r.h >= MIN_VISIBLE_HEIGHT
\* bounds are numbers, and the default zoom is one of the levels
ASSUME HelperAssumption == MaxServes \in Nat
ASSUME ZoomAssumption == Levels \in Nat /\ DefaultLevel \in 1..Levels /\ MaxCommands \in Nat
ASSUME WorkbenchAssumption == MaxSeq \in Nat
ASSUME HarnessAssumption == MaxGen \in Nat /\ MaxLeaked \in Nat
ASSUME InstallsAssumption == MaxExe \in Nat \ {0}
\* None is no value of its own: no commit, no plugin, no directory, no answer;
\* "other" stands for a directory that is no plugin's
ASSUME VersionsAssumption == None \notin Commits
ASSUME PluginsAssumption == {None, "other"} \cap PluginDirs = {} /\ None \notin PluginNames
ASSUME RootsAssumption == None \notin Paths /\ {Default.settings, Default.harness} \subseteq Paths
ASSUME SeedAssumption ==
  /\ MaxChanges \in Nat
  /\ None \notin [body : [release : {1, 2}, form : {"packaged"}], link : {FALSE}, stamp : {0}]
  /\ None \notin {"verified", "bundled_seed.unavailable", "bundled_seed.invalid",
                  "bundled_seed.integrity_failed"}
\* a batch writes some of the records
ASSUME RecordsAssumption == Batch \in Seq(Keys) /\ Batch # <<>>

VARIABLES
  part,  \* the component this behaviour is about
  v1, v2, v3, v4, v5, v6, v7, v8, v9, v10, v11, v12  \* its variables

vars == <<part, v1, v2, v3, v4, v5, v6, v7, v8, v9, v10, v11, v12>>

Update == INSTANCE LauncherUpdate WITH
  st <- v1, gen <- v2, url <- v3, chk <- v4, pend <- v5, files <- v6,
  quit <- v7
Window == INSTANCE LauncherWindow WITH
  displays <- v1, win <- v2, shown <- v3, place <- v4, saved <- v5
Lifecycle == INSTANCE LauncherLifecycle WITH
  darwin <- v1, boot <- v2, core <- v3, window <- v4, tray <- v5,
  behavior <- v6, force <- v7, busy <- v8, phase <- v9, live <- v10,
  failed <- v11, exit <- v12
Helper == INSTANCE CoreProcess WITH
  pc <- v1, child <- v2, channel <- v3, sock <- v4, stop <- v5, handler <- v6,
  last <- v7, owners <- v8
Zoom == INSTANCE RuntimeZoom WITH
  file <- v1, queue <- v2, guests <- v3, seen <- v4, zoom <- v5, asked <- v6,
  left <- v7, overtaken <- v8
Workbench == INSTANCE WorkbenchGuests WITH
  registered <- v1, ready <- v2, sequence <- v3, pending <- v4, done <- v5,
  doc <- v6, home <- v7, bound <- v8, current <- v9, lastSeq <- v10,
  toGuest <- v11, toMain <- v12
HarnessRun == INSTANCE HarnessRuntime WITH
  launch <- v1, child <- v2, start <- v3, stop <- v4, leaving <- v5,
  gen <- v6, timer <- v7, leaked <- v8, drain <- v9, ended <- v10,
  doubled <- v11
HarnessTree == INSTANCE HarnessVersions WITH
  repo <- v1, dir <- v2, pointer <- v3, boot <- v4, op <- v5, launch <- v6,
  old <- v7
Plugins == INSTANCE HarnessPlugins WITH
  profile <- v1, disk <- v2, sources <- v3, git <- v4, doc <- v5, op <- v6
Roots == INSTANCE ManagedRoots WITH
  locator <- v1, registry <- v2, catalog <- v3, entries <- v4, made <- v5,
  caps <- v6, busy <- v7, calls <- v8, lost <- v9, answer <- v10
Installed == INSTANCE ManagedInstallations WITH
  held <- v1, exe <- v2, tools <- v3, catalog <- v4, trees <- v5, ready <- v6,
  child <- v7, records <- v8, op <- v9, refused <- v10
Seed == INSTANCE BundledSeed WITH
  Releases <- {1, 2}, dirs <- v1, extra <- v2, files <- v3, changes <- v4,
  step <- v5, seen <- v6, held <- v7, answer <- v8
Usage == INSTANCE SessionUsage WITH
  log <- v1, cache <- v2, read <- v3, page <- v4
Remote == INSTANCE RemoteSSH WITH
  core <- v1, late <- v2, shell <- v3, op <- v4, page <- v5
Telemetry == INSTANCE StatLog WITH
  phase <- v1, consent <- v2, queue <- v3, retry <- v4, flights <- v5,
  writes <- v6, stored <- v7, restarts <- v8, tracked <- v9, settled <- v10,
  floor <- v11, fault <- v12
Repository == INSTANCE JsonRepository WITH
  Calls <- {1, 2}, Versions <- {1, 2}, version <- v1, storage <- v2,
  calls <- v3
Migrations == INSTANCE JsonRepository WITH
  Calls <- {1}, Versions <- {1, 2, 3}, version <- v1, storage <- v2,
  calls <- v3

\* The variables after the first k, which a component of k variables leaves alone.
Idle11 == v12 = 0
Rest11 == <<v12>>
Idle10 == v11 = 0 /\ Idle11
Rest10 == <<v11, Rest11>>
Idle9 == v10 = 0 /\ Idle10
Rest9 == <<v10, Rest10>>
Idle8 == v9 = 0 /\ Idle9
Rest8 == <<v9, Rest9>>
Idle7 == v8 = 0 /\ Idle8
Rest7 == <<v8, Rest8>>
Idle6 == v7 = 0 /\ Idle7
Rest6 == <<v7, Rest7>>
Idle5 == v6 = 0 /\ Idle6
Rest5 == <<v6, Rest6>>
Idle4 == v5 = 0 /\ Idle5
Rest4 == <<v5, Rest5>>
Idle3 == v4 = 0 /\ Idle4
Rest3 == <<v4, Rest4>>

UpdateInit == part = "update" /\ Update!Init /\ Idle7
UpdateStep == part = "update" /\ Update!Next /\ UNCHANGED <<part, Rest7>>
WindowInit == part = "window" /\ Window!Init /\ Idle5
WindowStep == part = "window" /\ Window!Next /\ UNCHANGED <<part, Rest5>>
LifecycleInit == part = "lifecycle" /\ Lifecycle!Init
LifecycleStep == part = "lifecycle" /\ Lifecycle!Next /\ UNCHANGED part
HelperInit == part = "helper" /\ Helper!Init /\ Idle8
HelperStep == part = "helper" /\ Helper!Next /\ UNCHANGED <<part, Rest8>>
ZoomInit == part = "zoom" /\ Zoom!Init /\ Idle8
ZoomStep == part = "zoom" /\ Zoom!Next /\ UNCHANGED <<part, Rest8>>
WorkbenchInit == part = "workbench" /\ Workbench!Init
WorkbenchStep == part = "workbench" /\ Workbench!Next /\ UNCHANGED part
HarnessRunInit == part = "harness" /\ HarnessRun!Init /\ Idle11
HarnessRunStep == part = "harness" /\ HarnessRun!Next /\ UNCHANGED <<part, Rest11>>
HarnessTreeInit == part = "versions" /\ HarnessTree!Init /\ Idle7
HarnessTreeStep == part = "versions" /\ HarnessTree!Next /\ UNCHANGED <<part, Rest7>>
PluginsInit == part = "plugins" /\ Plugins!Init /\ Idle6
PluginsStep == part = "plugins" /\ Plugins!Next /\ UNCHANGED <<part, Rest6>>
RootsInit == part = "roots" /\ Roots!Init /\ Idle10
RootsStep == part = "roots" /\ Roots!Next /\ UNCHANGED <<part, Rest10>>
InstalledInit == part = "installations" /\ Installed!Init /\ Idle10
InstalledStep == part = "installations" /\ Installed!Next /\ UNCHANGED <<part, Rest10>>
SeedInit == part = "seed" /\ Seed!Init /\ Idle8
SeedStep == part = "seed" /\ Seed!Next /\ UNCHANGED <<part, Rest8>>
UsageInit == part = "usage" /\ Usage!Init /\ Idle4
UsageStep == part = "usage" /\ Usage!Next /\ UNCHANGED <<part, Rest4>>
RemoteInit == part = "remote" /\ Remote!Init /\ Idle5
RemoteStep == part = "remote" /\ Remote!Next /\ UNCHANGED <<part, Rest5>>
TelemetryInit == part = "telemetry" /\ Telemetry!Init
TelemetryStep == part = "telemetry" /\ Telemetry!Next /\ UNCHANGED part
RepositoryInit == part = "repository" /\ Repository!Init /\ Idle3
RepositoryStep == part = "repository" /\ Repository!Next /\ UNCHANGED <<part, Rest3>>
MigrationsInit == part = "migrations" /\ Migrations!Init /\ Idle3
MigrationsStep == part = "migrations" /\ Migrations!Next /\ UNCHANGED <<part, Rest3>>

Init ==
  \/ UpdateInit \/ WindowInit \/ LifecycleInit \/ HelperInit \/ ZoomInit
  \/ WorkbenchInit \/ HarnessRunInit \/ HarnessTreeInit \/ PluginsInit
  \/ RootsInit \/ InstalledInit \/ SeedInit \/ UsageInit \/ RemoteInit
  \/ TelemetryInit \/ RepositoryInit \/ MigrationsInit
Next ==
  \/ UpdateStep \/ WindowStep \/ LifecycleStep \/ HelperStep \/ ZoomStep
  \/ WorkbenchStep \/ HarnessRunStep \/ HarnessTreeStep \/ PluginsStep
  \/ RootsStep \/ InstalledStep \/ SeedStep \/ UsageStep \/ RemoteStep
  \/ TelemetryStep \/ RepositoryStep \/ MigrationsStep
\* launcher-shutdown.ts awaits each owner's close, and the calls a close makes
\* have timers of their own (rpc.ts, supervisor.ts): the next step is taken.
Fairness == WF_vars(part = "lifecycle" /\ Lifecycle!Shutdown /\ UNCHANGED part)
Spec == Init /\ [][Next]_vars /\ Fairness

\* The values of the constants that are no model values.
cur == <<1, 2, 0>>
rel == {<<1, 1, 9>>, <<1, 2, 1>>, <<1, 3, 0>>}
rect(x, y, w, h) == [x |-> x, y |-> y, w |-> w, h |-> h]
areas == {rect(0, 0, 4, 3), rect(4, 0, 3, 3), rect(0, -3, 4, 3)}
spots == areas \cup {rect(1, 1, 2, 2), rect(3, 1, 3, 2), rect(1, -1, 2, 2), rect(-1, 2, 2, 2)}
paths == {<<1>>, <<2>>, <<3>>, <<4>>, <<4, 1>>}
home == <<3, 1>>
default == [settings |-> <<1>>, harness |-> <<2>>]
revisions == {[kind |-> "commit", commit |-> 1], [kind |-> "tag", commit |-> 2]}
batch == <<1, 2>>
declared == <<<<1, 2>>, <<2, 3>>>>

TypeOK ==
  /\ part = "update" => Update!TypeOK
  /\ part = "window" => Window!TypeOK
  /\ part = "lifecycle" => Lifecycle!TypeOK
  /\ part = "helper" => Helper!TypeOK
  /\ part = "zoom" => Zoom!TypeOK
  /\ part = "workbench" => Workbench!TypeOK
  /\ part = "harness" => HarnessRun!TypeOK
  /\ part = "versions" => HarnessTree!TypeOK
  /\ part = "plugins" => Plugins!TypeOK
  /\ part = "roots" => Roots!TypeOK
  /\ part = "installations" => Installed!TypeOK
  /\ part = "seed" => Seed!TypeOK
  /\ part = "usage" => Usage!TypeOK
  /\ part = "remote" => Remote!TypeOK
  /\ part = "telemetry" => Telemetry!TypeOK
  /\ part = "repository" => Repository!TypeOK
  /\ part = "migrations" => Migrations!TypeOK

(* What runs, and what a restart would run, is what was recorded and         *)
(* checked: a Harness reported stopped never comes back and a live one is    *)
(* followed (launcher-runtime-feed.ts, launcher-harness-service.ts); the     *)
(* version pointer names a built version (launcher-version-store.ts); a      *)
(* plugin of the profile has its directory (managed-plugin-sources.ts); the  *)
(* registered roots agree with the locator (managed/service.ts); a started   *)
(* installation is the recorded one (installation-service.ts); a seed        *)
(* answered as verified is one whole release (bundled-seed.ts).              *)
RunsWhatItRecords ==
  /\ part = "harness" => HarnessRun!NoResurrection /\ HarnessRun!LiveIsFollowed
  /\ part = "versions" => HarnessTree!PointerIsReady
  /\ part = "plugins" => Plugins!ProfileIsBacked
  /\ part = "roots" => Roots!RootsAreConsistent
  /\ part = "installations" => Installed!RunsWhatIsRecorded
  /\ part = "seed" => Seed!VerifiedIsBound

(* What the process shows the user is so: an update offered is newer and its *)
(* file the one announced (launcher-update-service.ts); a window the code    *)
(* moves lies on one display, and one it looks at and leaves has a strip on  *)
(* some display (window-placement.ts); the process never runs on without a   *)
(* window, a tray for the hidden one, a Dock that makes one again or a quit  *)
(* under way (main.ts); a core is served whole or not at all, and by the     *)
(* newest handler (core/supervisor.ts); zoom commands add up (runtime-       *)
(* browser-controller.ts).                                                   *)
ShowsWhatIsTrue ==
  /\ part = "update" => Update!UpdateIsTrue
  /\ part = "window" => Window!WindowIsReachable
  /\ part = "lifecycle" => Lifecycle!NeverStranded
  /\ part = "helper" => Helper!NoHalfCore /\ Helper!NewestServes
  /\ part = "zoom" => Zoom!ZoomStepsAdd

(* Nothing recorded is lost or counted twice: token usage of a session log   *)
(* read in pieces, across files (session-usage-reader.ts); telemetry under   *)
(* consent, but for the events an answer takes off a queue that moved under  *)
(* its request, which are counted (statlog.ts); records migrated across      *)
(* versions of the program (runtime.ts).                                     *)
NothingIsLost ==
  /\ part = "usage" => Usage!UsageIsWhole
  /\ part = "telemetry" => Telemetry!SentIsConsented /\ Telemetry!NothingVanishes
  /\ part = "repository" => Repository!RecordsAreReadable
  /\ part = "migrations" => Migrations!RecordsAreReadable

(* An answer is about what was asked: a workbench is confirmed by the        *)
(* document that was asked (workbench-guests.ts); a remote computer is       *)
(* edited from what the user saw, and closed only once saved                 *)
(* (RemoteSSHManagementPanel.vue); a batch of records is written whole or    *)
(* not at all, unless a read or an undo failed or another writer came        *)
(* between (runtime.ts applyRepositoryBatch, storage.ts).                    *)
AnswersAreTheirOwn ==
  /\ [][part = "workbench" => Workbench!ConfirmedStep]_vars
  /\ [][part = "remote" => Remote!EditStep /\ Remote!CloseStep]_vars
  /\ [][part = "repository" => Repository!BatchStep]_vars
  /\ [][part = "migrations" => Migrations!BatchStep]_vars

(* A quit that started ends the process, whatever windows are open and       *)
(* whichever owner fails (createLauncherQuitSequence): once                  *)
(* Lifecycle's phase (v9) has left idle its exit (v12) is set.               *)
QuitCompletes ==
  (part = "lifecycle" /\ v9 # "idle") ~> (part = "lifecycle" /\ v12 # "no")
=============================================================================
