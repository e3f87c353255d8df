--------------------------- MODULE HarnessVersions ---------------------------
(***************************************************************************)
(* The versions of DSH on disk: electron/main/managed/                     *)
(* launcher-version-store.ts, launcher-operation-reporter.ts,              *)
(* bundled-harness-bootstrap.ts and the version operations of              *)
(* launcher-harness-service.ts.  Every commit is prepared in a directory   *)
(* of its own, a pointer names the active one, and the replaced ones are   *)
(* removed; any step may fail and the process may die between two.         *)
(***************************************************************************)
EXTENDS FiniteSets

CONSTANTS Commits, None

VARIABLES
  repo,      \* the repository: "empty", "absent", "ready"
  dir,       \* the version directories: "absent", "partial", "marked", "ready"
  pointer,   \* the active version's record
  boot,      \* #bootstrap: "no", "preparing", "failed"
  op,        \* the active operation: where it is and its commit
  launch,    \* a start: "stopped", "preflight" or "running", and of which version
  old        \* directories left for the prune in progress

vars == <<repo, dir, pointer, boot, op, launch, old>>

NoOp == [at |-> "none", commit |-> None]
Stopped == [at |-> "stopped", commit |-> None]

\* The manifest, the CLI's entry and the Git entry are there: all that
\* readHarnessReadiness looks at.  A directory can have them and be incomplete.
readHarnessReadiness(d) == d \in {"marked", "ready"}

Fail == op' = NoOp

\* BundledHarnessBootstrap.initialize: cloned beside, then put in the place of
\* the empty directory, which is removed first.
initialize(ok) ==
  /\ op.at = "seed" /\ repo \in {"empty", "absent"}
  /\ IF ok /\ repo = "empty" THEN repo' = "ready" /\ op' = [op EXCEPT !.at = "prepare"] /\ UNCHANGED boot
     ELSE op' = NoOp /\ boot' = "failed" /\ UNCHANGED repo
  /\ UNCHANGED <<dir, pointer, launch, old>>

\* A root that is not empty is left alone; an unpackaged launcher seeds nothing.
Seeded(packaged) ==
  /\ op.at = "seed" /\ (packaged => repo = "ready")
  /\ op' = [op EXCEPT !.at = "prepare"]
  /\ UNCHANGED <<repo, dir, pointer, boot, launch, old>>

\* prepareCurrentVersion: the repository's HEAD becomes the first version.  DSH
\* that was started meanwhile is a failed preparation, a missing repository none.
prepareCurrentVersion(c) ==
  /\ op.at = "prepare"
  /\ IF launch.at # "stopped" THEN op' = NoOp /\ boot' = "failed"
     ELSE IF repo # "ready" \/ pointer # None THEN op' = NoOp /\ boot' = "no"
     ELSE op' = [at |-> "begin", commit |-> c] /\ UNCHANGED boot
  /\ UNCHANGED <<repo, dir, pointer, launch, old>>

\* switchVersion, switchBranch and update: one operation at a time, none while
\* the first version is prepared, and none while DSH runs.
reportOperation(c) ==
  /\ op = NoOp /\ boot # "preparing" /\ repo = "ready" /\ launch.at = "stopped"
  /\ op' = [at |-> "begin", commit |-> c]
  /\ UNCHANGED <<repo, dir, pointer, boot, launch, old>>

\* initializeActiveVersion: an invalid worktree is not a failed preparation
Settle == boot' \in IF boot = "preparing" THEN {"failed", "no"} ELSE {boot}

\* materializeLauncherVersion: a directory that looks ready is used as it is, an
\* active one that does not is never prepared again
materialize ==
  /\ op.at = "begin"
  /\ op' = IF readHarnessReadiness(dir[op.commit]) THEN [op EXCEPT !.at = "validate"]
           ELSE [op EXCEPT !.at = "remove"]
  /\ readHarnessReadiness(dir[op.commit]) \/ pointer # op.commit
  /\ UNCHANGED <<repo, dir, pointer, boot, launch, old>>

\* removeInterruptedVersion: by Git when it is a registered worktree
removeInterruptedVersion ==
  /\ op.at = "remove" /\ dir' = [dir EXCEPT ![op.commit] = "absent"]
  /\ op' = [op EXCEPT !.at = "add"]
  /\ UNCHANGED <<repo, pointer, boot, launch, old>>

\* merge-base --is-ancestor, then worktree add
addLauncherVersionWorktree ==
  /\ op.at = "add" /\ dir' = [dir EXCEPT ![op.commit] = "partial"]
  /\ op' = [op EXCEPT !.at = "build"]
  /\ UNCHANGED <<repo, pointer, boot, launch, old>>

\* pnpm install and build; the CLI's entry appears before the build is over
build ==
  /\ op.at = "build"
  /\ \/ dir[op.commit] = "partial" /\ dir' = [dir EXCEPT ![op.commit] = "marked"] /\ UNCHANGED op
     \/ dir[op.commit] = "marked" /\ op' = [op EXCEPT !.at = "plugins"] /\ UNCHANGED dir
  /\ UNCHANGED <<repo, pointer, boot, launch, old>>

\* The profile's plugins are reconciled and the readiness is read again.
reconcilePlugins ==
  /\ op.at = "plugins" /\ dir' = [dir EXCEPT ![op.commit] = "ready"]
  /\ op' = [op EXCEPT !.at = "validate"]
  /\ UNCHANGED <<repo, pointer, boot, launch, old>>

\* The pointer is written before the version is built.
writeCurrentVersionPointerFirst ==
  /\ op.at \in {"build", "validate"} /\ pointer' = op.commit
  /\ op' = IF op.at = "validate" THEN [op EXCEPT !.at = "prune"] ELSE op
  /\ old' = {c \in Commits \ {op.commit} : dir[c] # "absent"}
  /\ UNCHANGED <<repo, dir, boot, launch>>

\* Validated, the pointer is replaced by a rename; then the directories that are
\* not kept are listed.
writeCurrentVersionPointer ==
  /\ op.at = "validate" /\ pointer' = op.commit
  /\ op' = [op EXCEPT !.at = "prune"]
  /\ old' = {c \in Commits \ {op.commit} : dir[c] # "absent"}
  /\ UNCHANGED <<repo, dir, boot, launch>>

\* pruneInactiveVersions: each directory goes file by file; what is left of one
\* may still look ready.
pruneInactiveVersions(c) ==
  /\ op.at = "prune" /\ c \in old
  /\ \/ dir[c] \in {"ready", "marked"} /\ dir' = [dir EXCEPT ![c] = "marked"] /\ UNCHANGED old
     \/ dir' = [dir EXCEPT ![c] = "partial"] /\ UNCHANGED old
     \/ dir' = [dir EXCEPT ![c] = "absent"] /\ old' = old \ {c}
     \/ UNCHANGED dir /\ old' = old \ {c}
  /\ UNCHANGED <<repo, pointer, boot, op, launch>>

OperationEnds ==
  /\ op.at = "prune" /\ old = {} /\ op' = NoOp
  /\ boot' = IF boot = "preparing" THEN "no" ELSE boot
  /\ UNCHANGED <<repo, dir, pointer, launch, old>>

\* A step fails: what it did stays.
StepFails ==
  /\ op.at \in {"begin", "remove", "add", "build", "plugins", "validate"} /\ Fail /\ Settle
  /\ UNCHANGED <<repo, dir, pointer, launch, old>>

\* Start reads the pointer and checks its directory, then the core spawns there.
start ==
  /\ launch.at = "stopped" /\ pointer # None
  /\ launch' = [at |-> "preflight", commit |-> pointer]
  /\ UNCHANGED <<repo, dir, pointer, boot, op, old>>

spawned ==
  /\ launch.at = "preflight"
  /\ launch' = IF readHarnessReadiness(dir[launch.commit]) THEN [launch EXCEPT !.at = "running"]
               ELSE Stopped
  /\ UNCHANGED <<repo, dir, pointer, boot, op, old>>

stop ==
  /\ launch.at = "running" /\ launch' = Stopped
  /\ UNCHANGED <<repo, dir, pointer, boot, op, old>>

\* The process dies and comes back: the files are what they were, or the
\* repository was between its two steps.
Crash ==
  /\ op' = [at |-> "seed", commit |-> None] /\ boot' = "preparing"
  /\ launch' = Stopped /\ old' = {}
  /\ repo' \in IF op.at = "seed" /\ repo = "empty" THEN {"empty", "absent"} ELSE {repo}
  /\ UNCHANGED <<dir, pointer>>

Init ==
  /\ repo = "empty" /\ dir = [c \in Commits |-> "absent"] /\ pointer = None
  /\ boot = "preparing" /\ op = [at |-> "seed", commit |-> None]
  /\ launch = Stopped /\ old = {}

Next ==
  \/ materialize \/ removeInterruptedVersion \/ addLauncherVersionWorktree
  \/ build \/ reconcilePlugins \/ writeCurrentVersionPointer \/ OperationEnds \/ StepFails
  \/ start \/ spawned \/ stop \/ Crash
  \/ \E b \in BOOLEAN : initialize(b) \/ Seeded(b)
  \/ \E c \in Commits :
       prepareCurrentVersion(c) \/ reportOperation(c) \/ pruneInactiveVersions(c)

Spec == Init /\ [][Next]_vars

TypeOK ==
  /\ repo \in {"empty", "absent", "ready"}
  /\ dir \in [Commits -> {"absent", "partial", "marked", "ready"}]
  /\ pointer \in Commits \cup {None} /\ boot \in {"no", "preparing", "failed"}
  /\ op.commit \in Commits \cup {None} /\ old \subseteq Commits
  /\ launch.at \in {"stopped", "preflight", "running"}

(* Whatever fails and whenever the process dies, the active version's        *)
(* directory passes the readiness check, and the prune never has it in hand. *)
PointerIsReady ==
  pointer # None => readHarnessReadiness(dir[pointer]) /\ pointer \notin old

(* What the version store says of itself: a switch never bricks the version  *)
(* that runs.                                                                *)
NeverBricked == launch.at = "running" => readHarnessReadiness(dir[launch.commit])
=============================================================================
