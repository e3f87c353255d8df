------------------------ MODULE ManagedInstallations ------------------------
(***************************************************************************)
(* The Harness installations of managed workspaces:                        *)
(* electron/main/managed/installation-service.ts with                      *)
(* installation-catalog.ts, executable-capabilities.ts, toolchain/,        *)
(* worktree-preparer.ts, harness-web-runtime.ts and the core's checkout,   *)
(* catalog and runtime methods.  A workspace owns one installation.  One   *)
(* operation runs at a time; any step may fail, an answer of the core may  *)
(* be lost after it took effect, the child may exit, the registered        *)
(* executables may be replaced, and the application may die.               *)
(***************************************************************************)
EXTENDS Naturals, FiniteSets

CONSTANTS
  Installs,   \* workspaces, each with its installation
  Revisions,  \* what may be requested: a kind and the commit it resolves to
  MaxExe,     \* bounds the replacements of the executables
  MaxTools,   \* toolchains
  None

VARIABLES
  held,     \* the kinds of executable selected and not yet used
  exe,      \* the identities of the Node and pnpm files as they are now
  tools,    \* the toolchains of the catalog: pinned identities and pnpm's launcher
  catalog,  \* the record of each installation, or None
  trees,    \* the worktrees there are: an installation and a commit
  ready,    \* the worktrees whose packages were installed
  child,    \* the core's record of each child: its state and its commit
  records,  \* the supervisor's last view of each launch
  op,       \* the operation under way
  refused   \* a catalog the launcher built was refused as invalid

vars == <<held, exe, tools, catalog, trees, ready, child, records, op, refused>>

ExecutableKinds == {"git", "node", "pnpm"}
NoTool == [node |-> 0, pnpm |-> 0, launcher |-> 0]
NoOp == [kind |-> "none", at |-> "none", who |-> None, rev |-> None, tool |-> NoTool]
NoChild == [state |-> "none", commit |-> None]
Goto(at) == op' = [op EXCEPT !.at = at]
Ends == op' = NoOp
runExclusive(next) == op = NoOp /\ op' = next
Disk == <<trees, ready>>
Processes == <<child, records>>

\* The worktree the operation works on
Tree == <<op.who, IF op.kind = "start" THEN catalog[op.who].commit ELSE op.rev.commit>>
Tool == IF op.kind = "install" THEN op.tool ELSE catalog[op.who].tool

(***************************************************************************)
(* Toolchains                                                              *)
(***************************************************************************)
selectExecutable(k) ==
  /\ k \notin held /\ Cardinality(tools) < MaxTools /\ held' = held \cup {k}
  /\ UNCHANGED <<exe, tools, catalog, Disk, Processes, op, refused>>

Expire(k) ==
  /\ k \in held /\ held' = held \ {k}
  /\ UNCHANGED <<exe, tools, catalog, Disk, Processes, op, refused>>

\* The three selections are inspected before any is used, then used together.
registerToolchain ==
  /\ held = ExecutableKinds /\ held' = {}
  /\ runExclusive([NoOp EXCEPT !.kind = "register", !.at = "git"])
  /\ UNCHANGED <<exe, tools, catalog, Disk, Processes, refused>>

\* A file is pinned by its identity and must still be what was pinned when used.
pinToolchainExecutable(k) == exe[k]
assertPinnedExecutable(k, id) == exe[k] = id

\* pnpm is a program of its own, or a script that the registered Node runs.
launcherForPnpm(script, node) == IF script THEN node ELSE 0
nodeRegistrationsEqual(tool) == tool.launcher \in {0, tool.node}

assertRegisteredNodeExecutable(tool) == assertPinnedExecutable("node", tool.node)
assertRegisteredPnpmExecutable(tool) ==
  /\ assertPinnedExecutable("pnpm", tool.pnpm)
  /\ tool.launcher # 0 => assertPinnedExecutable("node", tool.launcher)

\* Each is pinned, asked for its version in a directory made for that, and must not
\* have changed meanwhile; the directory goes however it ends.
gitRegister(ok) ==
  /\ op.at = "git"
  /\ IF ok THEN op' = [op EXCEPT !.at = "node", !.tool.node = pinToolchainExecutable("node")] ELSE Ends
  /\ UNCHANGED <<held, exe, tools, catalog, Disk, Processes, refused>>

registerNodeExecutable(ok, script) ==
  /\ op.at = "node" /\ (ok => assertRegisteredNodeExecutable(op.tool))
  /\ IF ok THEN op' = [op EXCEPT !.at = "pnpm", !.tool.pnpm = pinToolchainExecutable("pnpm"),
                                 !.tool.launcher = launcherForPnpm(script, op.tool.node)]
     ELSE Ends
  /\ UNCHANGED <<held, exe, tools, catalog, Disk, Processes, refused>>

registerPnpmExecutable(ok) ==
  /\ op.at = "pnpm" /\ (ok => assertRegisteredPnpmExecutable(op.tool))
  /\ IF ok THEN Goto("save") ELSE Ends
  /\ UNCHANGED <<held, exe, tools, catalog, Disk, Processes, refused>>

\* A toolchain that is there already is not recorded twice.
saveToolchain(ok, done) ==
  /\ op.kind = "register" /\ op.at = "save" /\ (ok => done) /\ Ends
  /\ tools' = IF done THEN tools \cup {op.tool} ELSE tools
  /\ UNCHANGED <<held, exe, catalog, Disk, Processes, refused>>

ReplaceExecutables ==
  /\ \E k \in DOMAIN exe : exe.node + exe.pnpm < MaxExe /\ exe' = [exe EXCEPT ![k] = @ + 1]
  /\ UNCHANGED <<held, tools, catalog, Disk, Processes, op, refused>>

(***************************************************************************)
(* Installing and switching                                                *)
(***************************************************************************)
\* installBundledSeed: the commit the application was packaged with, once its files
\* have been verified
installBundledSeed(i, rev, tool) ==
  /\ catalog[i] = None /\ tool \in tools /\ rev.kind = "commit"
  /\ runExclusive([kind |-> "install", at |-> "checkout", who |-> i, rev |-> rev, tool |-> tool])
  /\ UNCHANGED <<held, exe, tools, catalog, Disk, Processes, refused>>

cloneHarness(i, rev, tool) ==
  /\ catalog[i] = None /\ tool \in tools
  /\ runExclusive([kind |-> "install", at |-> "checkout", who |-> i, rev |-> rev, tool |-> tool])
  /\ UNCHANGED <<held, exe, tools, catalog, Disk, Processes, refused>>

Stopped(i) == child[i].state \in {"none", "stopped", "failed"}
viewOf(i) == IF child[i].state \in {"none", "stopped", "failed"} THEN child[i].state ELSE "running"

\* The core is asked; what it answers is also the supervisor's record.
assertInstallationKnown(i) == records' = [records EXCEPT ![i] = viewOf(i)]
assertInstallationStopped(i) == Stopped(i) /\ records' = [records EXCEPT ![i] = viewOf(i)]

switchRevision(i, rev) ==
  /\ catalog[i] # None /\ assertInstallationStopped(i)
  /\ runExclusive([NoOp EXCEPT !.kind = "switch", !.at = "checkout", !.who = i, !.rev = rev])
  /\ UNCHANGED <<held, exe, tools, catalog, Disk, child, refused>>

\* The core resolves the revision and materializes a worktree of its commit.
checkoutPrepare(ok) ==
  /\ op.at = "checkout"
  /\ trees' = IF ok THEN trees \cup {Tree} ELSE trees
  /\ IF ok THEN Goto("preflight") ELSE Ends
  /\ UNCHANGED <<held, exe, tools, catalog, ready, Processes, refused>>

\* The checkout's requirements are read and the pinned toolchain compared with them.
preflightCheckoutToolchain(ok) ==
  /\ op.at = "preflight"
  /\ ok => /\ assertRegisteredNodeExecutable(Tool) /\ assertRegisteredPnpmExecutable(Tool)
           /\ nodeRegistrationsEqual(Tool)
  /\ IF ok THEN Goto("packages") ELSE Ends
  /\ UNCHANGED <<held, exe, tools, catalog, Disk, Processes, refused>>

\* pnpm rewrites the packages of the worktree: a failure leaves them in between.
runPnpmCommand(ok) ==
  /\ op.at = "packages"
  /\ ready' = IF ok THEN ready \cup {Tree} ELSE ready \ {Tree}
  /\ IF ok /\ assertRegisteredNodeExecutable(Tool) /\ assertRegisteredPnpmExecutable(Tool)
     THEN Goto(IF op.kind = "start" THEN "launch" ELSE "save") ELSE Ends
  /\ UNCHANGED <<held, exe, tools, catalog, trees, Processes, refused>>

\* The record of a new installation
Installed == [tool |-> op.tool, kind |-> op.rev.kind, commit |-> op.rev.commit,
              tag |-> op.rev.kind = "tag"]

\* A switched one: fields of the old record stay where the new has none.
Switched == [catalog[op.who] EXCEPT !.kind = op.rev.kind, !.commit = op.rev.commit,
                                    !.tag = @ \/ op.rev.kind = "tag"]

\* A selection is a branch, a tag or a commit; a tag comes with its object.
parseRevisionSelection(r) == r.kind \in {"branch", "tag", "commit"}
parseInstallation(r) == parseRevisionSelection(r) /\ (r.kind = "tag") = r.tag

\* The core validates what it is given before it publishes it, and the launcher
\* what it reads.
validateManagedInstallationCatalog(c) ==
  /\ \A t \in tools : nodeRegistrationsEqual(t)
  /\ \A i \in Installs : c[i] # None => c[i].tool \in tools /\ parseInstallation(c[i])

saveInstallation(ok, done) ==
  /\ op.kind \in {"install", "switch"} /\ op.at = "save" /\ (ok => done) /\ Ends
  /\ LET next == [catalog EXCEPT ![op.who] = IF op.kind = "install" THEN Installed ELSE Switched] IN
     /\ catalog' = IF done /\ validateManagedInstallationCatalog(next) THEN next ELSE catalog
     /\ refused' = (refused \/ ~validateManagedInstallationCatalog(next))
  /\ UNCHANGED <<held, exe, tools, Disk, Processes>>

(***************************************************************************)
(* Running                                                                 *)
(***************************************************************************)
startHarness(i) ==
  /\ catalog[i] # None
  /\ runExclusive([NoOp EXCEPT !.kind = "start", !.at = "verify", !.who = i])
  /\ UNCHANGED <<held, exe, tools, catalog, Disk, Processes, refused>>

checkoutVerify(ok) ==
  /\ op.at = "verify" /\ (ok => Tree \in trees)
  /\ IF ok THEN Goto("preflight") ELSE Ends
  /\ UNCHANGED <<held, exe, tools, catalog, Disk, Processes, refused>>

\* The supervisor refuses a launch it knows to be running, the core one that is
\* live; an answer that is lost leaves the record as it was.
runtimeStart(ok, done) ==
  /\ op.at = "launch" /\ (ok => done) /\ Ends
  /\ done => records[op.who] # "running" /\ assertRegisteredNodeExecutable(Tool) /\ Stopped(op.who)
  /\ child' = IF done THEN [child EXCEPT ![op.who] = [state |-> "running", commit |-> Tree[2]]]
              ELSE child
  /\ records' = IF ok THEN [records EXCEPT ![op.who] = "running"] ELSE records
  /\ UNCHANGED <<held, exe, tools, catalog, Disk, refused>>

stopHarness(i) ==
  /\ catalog[i] # None
  /\ runExclusive([NoOp EXCEPT !.kind = "stop", !.at = "stop", !.who = i])
  /\ UNCHANGED <<held, exe, tools, catalog, Disk, Processes, refused>>

runtimeStop(ok, done) ==
  /\ op.at = "stop" /\ (ok => done) /\ Ends
  /\ child' = IF done /\ child[op.who].state # "none"
              THEN [child EXCEPT ![op.who].state = "stopped"] ELSE child
  /\ records' = IF ok /\ child[op.who].state # "none"
                THEN [records EXCEPT ![op.who] = "stopped"] ELSE records
  /\ UNCHANGED <<held, exe, tools, catalog, Disk, refused>>

\* getState asks the core for every launch, at any time.
projectInstallationsState(i) ==
  /\ catalog[i] # None /\ assertInstallationKnown(i) /\ records' # records
  /\ UNCHANGED <<held, exe, tools, catalog, Disk, child, op, refused>>

ChildExits(i) ==
  /\ child[i].state = "running" /\ child' = [child EXCEPT ![i].state = "failed"]
  /\ UNCHANGED <<held, exe, tools, catalog, Disk, records, op, refused>>

\* The application and its core end: the children go with them.
Crash ==
  /\ op # NoOp /\ Ends /\ held' = {}
  /\ child' = [i \in Installs |-> NoChild] /\ records' = [i \in Installs |-> "none"]
  /\ ready' = IF op.at = "packages" THEN ready \ {Tree} ELSE ready
  /\ UNCHANGED <<exe, tools, catalog, trees, refused>>

Init ==
  /\ held = {} /\ exe = [node |-> 1, pnpm |-> 1] /\ tools = {} /\ catalog = [i \in Installs |-> None]
  /\ trees = {} /\ ready = {} /\ child = [i \in Installs |-> NoChild]
  /\ records = [i \in Installs |-> "none"] /\ op = NoOp /\ refused = FALSE

Next ==
  \/ registerToolchain \/ ReplaceExecutables \/ Crash
  \/ \E k \in ExecutableKinds : selectExecutable(k) \/ Expire(k)
  \/ \E i \in Installs :
       \/ startHarness(i) \/ stopHarness(i) \/ projectInstallationsState(i) \/ ChildExits(i)
       \/ \E rev \in Revisions :
            \/ switchRevision(i, rev)
            \/ \E tool \in tools : cloneHarness(i, rev, tool) \/ installBundledSeed(i, rev, tool)
  \/ \E ok \in BOOLEAN :
       \/ gitRegister(ok) \/ registerPnpmExecutable(ok)
       \/ \E script \in BOOLEAN : registerNodeExecutable(ok, script)
       \/ checkoutPrepare(ok) \/ preflightCheckoutToolchain(ok)
       \/ runPnpmCommand(ok) \/ checkoutVerify(ok)
       \/ \E done \in BOOLEAN :
            \/ saveToolchain(ok, done) \/ saveInstallation(ok, done)
            \/ runtimeStart(ok, done) \/ runtimeStop(ok, done)

Spec == Init /\ [][Next]_vars

TypeOK ==
  /\ held \subseteq ExecutableKinds /\ exe \in [{"node", "pnpm"} -> 1..MaxExe]
  /\ ready \subseteq trees /\ DOMAIN catalog = Installs
  /\ records \in [Installs -> {"none", "running", "stopped", "failed"}]
  /\ child \in [Installs -> [state : {"none", "running", "stopped", "failed"},
                             commit : {r.commit : r \in Revisions} \cup {None}]]

(* A running Harness runs the commit its installation records, from a        *)
(* worktree that exists, with a toolchain that is registered, whatever       *)
(* operation failed halfway or lost its answer.                              *)
RunsWhatIsRecorded ==
  /\ \A i \in Installs : child[i].state = "running" =>
       catalog[i] # None /\ child[i].commit = catalog[i].commit
  /\ \A i \in Installs : catalog[i] # None =>
       <<i, catalog[i].commit>> \in trees /\ catalog[i].tool \in tools

(* The catalog a switch builds is one the core accepts, whichever kind of    *)
(* revision the installation was at (switchRevision, the comment at          *)
(* installation-service.ts:290).                                             *)
SwitchIsAdmitted == ~refused
=============================================================================
