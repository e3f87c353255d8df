----------------------------- MODULE ManagedView -----------------------------
(***************************************************************************)
(* The pages over the managed directories and installations:               *)
(* useManagedWorkspaces.ts and useManagedInstallations.ts with the panels  *)
(* that mount them.  Each composable runs one call at a time.  What the    *)
(* user selects natively is a capability the desktop process issued: the   *)
(* page holds its name, the desktop process its meaning, and a submission  *)
(* spends some of those it names even when it is refused.  A call may also *)
(* reject, which no composable catches.  An answer is applied in the step  *)
(* that produces it: the composable accepts nothing else meanwhile.        *)
(***************************************************************************)
EXTENDS Naturals, FiniteSets

CONSTANTS
  RootKinds,       \* MANAGED_ROOT_SETUP_ITEMS
  ExecutableKinds, \* MANAGED_EXECUTABLE_KINDS
  MaxSpaces,       \* bound on the workspaces
  MaxInstalled,    \* bound on the toolchains, and on the installations
  None

VARIABLES
  roots,  \* the workspace page
  inst,   \* the installation page inside it
  main,   \* what the desktop process keeps: roots, workspaces, installations
  spent,  \* what each page selected that the desktop process no longer holds
  unsure  \* what a rejected submission named

vars == <<roots, inst, main, spent, unsure>>

WorkDir == "workspace-working-directory"
Launches == {"stopped", "starting", "running", "failed"}

ManagedWorkspacesViewState == [kind |-> "loading", op |-> None, sel |-> {}, work |-> FALSE,
                               name |-> FALSE, spaces |-> 0]
ManagedInstallationsViewState ==
  [kind |-> "absent", op |-> None, exe |-> {}, ws |-> 0, tool |-> 0, id |-> 0,
   clone |-> FALSE, switch |-> FALSE, tools |-> 0, list |-> << >>]

isBusy(view) == view.op # None

\* run: one operation at a time, cleared whatever the action does.
run(view, op) == [view EXCEPT !.op = op]
ran(view) == [view EXCEPT !.op = None]

----------------------------------------------------------------------------
(* The workspace page. *)

\* The panel of the installations is there while the workspaces are; its
\* watch drops a selected workspace that is gone.
watchWorkspaces(r) ==
  inst' = IF r.kind # "ready" THEN ManagedInstallationsViewState
          ELSE IF inst.kind = "absent"
               THEN run([ManagedInstallationsViewState EXCEPT !.kind = "loading"], "load")
          ELSE IF inst.ws > r.spaces THEN [inst EXCEPT !.ws = 0, !.id = 0, !.switch = FALSE]
          ELSE inst

\* main's answer as the page keeps it.
projected(r) == [r EXCEPT !.kind = IF main'.ready THEN "ready" ELSE "setup-required",
                          !.spaces = main'.spaces]

\* Leaving the page between calls and coming back mounts it afresh; each
\* composable reads once, when it is mounted.
initialize ==
  /\ ~isBusy(roots) /\ ~isBusy(inst)
  /\ roots' = run(ManagedWorkspacesViewState, "load")
  /\ inst' = ManagedInstallationsViewState
  /\ spent' = {} /\ unsure' = {}
  /\ UNCHANGED main

selectRootDirectory(k) ==
  /\ roots.kind = "setup-required" /\ ~isBusy(roots)
  /\ roots' = run(roots, k)
  /\ UNCHANGED <<inst, main, spent, unsure>>

canRegisterRoots == roots.kind = "setup-required" /\ roots.sel = RootKinds /\ ~isBusy(roots)
registerRoots ==
  /\ canRegisterRoots
  /\ roots' = run(roots, "register-roots")
  /\ UNCHANGED <<inst, main, spent, unsure>>

selectWorkingDirectory ==
  /\ roots.kind = "ready" /\ ~isBusy(roots)
  /\ roots' = run(roots, WorkDir)
  /\ UNCHANGED <<inst, main, spent, unsure>>

\* The name field opens once a directory is selected.
nameWorkspace ==
  /\ roots.kind = "ready" /\ roots.work /\ ~isBusy(roots)
  /\ roots' = [roots EXCEPT !.name = ~@]
  /\ UNCHANGED <<inst, main, spent, unsure>>
canCreateWorkspace == roots.kind = "ready" /\ roots.work /\ roots.name /\ ~isBusy(roots)
createWorkspace ==
  /\ canCreateWorkspace
  /\ roots' = run(roots, "create-workspace")
  /\ UNCHANGED <<inst, main, spent, unsure>>

\* A native selection is fresh, cancelled or refused.
rootSelected(k) ==
  /\ roots.op = k
  /\ \/ /\ roots' = IF k = WorkDir THEN [ran(roots) EXCEPT !.work = TRUE]
                    ELSE [ran(roots) EXCEPT !.sel = @ \cup {k}]
        /\ spent' = spent \ {k} /\ unsure' = unsure \ {k}
     \/ roots' = ran(roots) /\ UNCHANGED <<spent, unsure>>
  /\ UNCHANGED <<inst, main>>

\* What the desktop process spends of the selections a submission names: all
\* of them when it succeeds, any of them when it does not.
Spends(names, ok) ==
  /\ \E used \in SUBSET names : (ok => used = names) /\ spent' = spent \cup used
  /\ unsure' = unsure \ names
Rejects(names) ==
  /\ \E used \in SUBSET names : spent' = spent \cup used
  /\ unsure' = unsure \cup names

rootsRead(ok) ==
  /\ roots.op = "load"
  /\ UNCHANGED <<main, spent, unsure>>
  /\ roots' = IF ok THEN projected(ran(roots)) ELSE [ran(roots) EXCEPT !.kind = "error"]
  /\ watchWorkspaces(roots')

rootsRegisteredKeepsRefused(ok) ==
  /\ roots.op = "register-roots" /\ (ok => ~main.ready)
  /\ main' = [main EXCEPT !.ready = @ \/ ok]
  /\ roots' = IF ok THEN projected([ran(roots) EXCEPT !.sel = {}]) ELSE ran(roots)
  /\ watchWorkspaces(roots')
  /\ Spends(RootKinds, ok)

\* Refused or not, the selections of the submission are gone.
rootsRegistered(ok) ==
  /\ roots.op = "register-roots" /\ (ok => ~main.ready)
  /\ main' = [main EXCEPT !.ready = @ \/ ok]
  /\ LET r == [ran(roots) EXCEPT !.sel = {}] IN roots' = IF ok THEN projected(r) ELSE r
  /\ watchWorkspaces(roots')
  /\ Spends(RootKinds, ok)

workspaceCreated(ok) ==
  /\ roots.op = "create-workspace" /\ (ok => main.spaces < MaxSpaces)
  /\ main' = [main EXCEPT !.spaces = IF ok THEN @ + 1 ELSE @]
  /\ LET r == [ran(roots) EXCEPT !.work = FALSE, !.name = IF ok THEN FALSE ELSE @]
     IN roots' = IF ok THEN projected(r) ELSE r
  /\ watchWorkspaces(roots')
  /\ Spends({WorkDir}, ok)

\* The invocation rejects: only the operation is cleared.
rootsThrew ==
  /\ isBusy(roots)
  /\ roots' = ran(roots)
  /\ Rejects(CASE roots.op = "register-roots" -> RootKinds
               [] roots.op = "create-workspace" -> {WorkDir} [] OTHER -> {})
  /\ UNCHANGED <<inst, main>>

----------------------------------------------------------------------------
(* The installation page. *)

ofWorkspace(v) == {i \in DOMAIN v.list : v.list[i].ws = v.ws /\ v.ws # 0}
selectedInstallation(v) == v.id \in ofWorkspace(v)
hasSelectedToolchain(v) == v.tool \in 1 .. v.tools
isReady(v) == v.kind = "ready" /\ ~isBusy(v)

clearSelectionsMissingFromState(v) ==
  LET t == [v EXCEPT !.tool = IF hasSelectedToolchain(v) THEN @ ELSE 0]
  IN IF selectedInstallation(v) THEN t ELSE [t EXCEPT !.id = 0, !.switch = FALSE]

received(v) ==
  clearSelectionsMissingFromState(
    [v EXCEPT !.kind = "ready", !.tools = main'.tools, !.list = main'.inst])

Edits(v) == inst.kind = "ready" /\ ~isBusy(inst) /\ inst' = v /\ UNCHANGED <<roots, main, spent, unsure>>

selectWorkspace(w) == w \in 0 .. roots.spaces /\ Edits([inst EXCEPT !.ws = w, !.id = 0, !.switch = FALSE])
selectInstallation(i) == i \in ofWorkspace(inst) /\ Edits([inst EXCEPT !.id = i, !.switch = FALSE])
selectToolchain(t) == t \in 0 .. inst.tools /\ Edits([inst EXCEPT !.tool = t])
writeCloneForm == Edits([inst EXCEPT !.clone = ~@])
writeSwitchForm == selectedInstallation(inst) /\ Edits([inst EXCEPT !.switch = ~@])

canRegisterToolchain(v) == isReady(v) /\ v.exe = ExecutableKinds
canCloneHarness(v) == isReady(v) /\ v.ws # 0 /\ hasSelectedToolchain(v) /\ v.clone
canInstallBundledSeed(v) == isReady(v) /\ v.ws # 0 /\ hasSelectedToolchain(v) /\ ofWorkspace(v) = {}
canSwitchRevision(v) == isReady(v) /\ selectedInstallation(v) /\ v.switch
canStartHarness(v) == isReady(v) /\ selectedInstallation(v) /\ v.list[v.id].launch \in {"stopped", "failed"}
canStopHarness(v) == isReady(v) /\ selectedInstallation(v) /\ v.list[v.id].launch = "running"

Begins(op) == inst' = run(inst, op) /\ UNCHANGED <<roots, main, spent, unsure>>
selectExecutable(k) == isReady(inst) /\ Begins(k)
registerToolchain == canRegisterToolchain(inst) /\ Begins("register-toolchain")
cloneHarness == canCloneHarness(inst) /\ Begins("clone-harness")
installBundledSeed == canInstallBundledSeed(inst) /\ Begins("install-bundled-seed")
switchRevision == canSwitchRevision(inst) /\ Begins("switch-revision")
startHarness == canStartHarness(inst) /\ Begins("start-harness")
stopHarness == canStopHarness(inst) /\ Begins("stop-harness")

executableSelected(k) ==
  /\ inst.op = k
  /\ \/ inst' = [ran(inst) EXCEPT !.exe = @ \cup {k}] /\ spent' = spent \ {k}
        /\ unsure' = unsure \ {k}
     \/ inst' = ran(inst) /\ UNCHANGED <<spent, unsure>>
  /\ UNCHANGED <<roots, main>>

loaded(ok) ==
  /\ inst.op = "load" /\ UNCHANGED <<main, roots, spent, unsure>>
  /\ inst' = IF ok THEN received(ran(inst)) ELSE [ran(inst) EXCEPT !.kind = "error"]

toolchainRegisteredKeepsRefused(ok) ==
  /\ inst.op = "register-toolchain" /\ (ok => main.tools < MaxInstalled)
  /\ main' = [main EXCEPT !.tools = IF ok THEN @ + 1 ELSE @]
  /\ inst' = IF ok THEN received([ran(inst) EXCEPT !.exe = {}, !.tool = main'.tools])
             ELSE ran(inst)
  /\ Spends(ExecutableKinds, ok) /\ UNCHANGED roots

toolchainRegistered(ok) ==
  /\ inst.op = "register-toolchain" /\ (ok => main.tools < MaxInstalled)
  /\ main' = [main EXCEPT !.tools = IF ok THEN @ + 1 ELSE @]
  /\ LET v == [ran(inst) EXCEPT !.exe = {}]
     IN inst' = IF ok THEN received([v EXCEPT !.tool = main'.tools]) ELSE v
  /\ Spends(ExecutableKinds, ok) /\ UNCHANGED roots

\* A clone, or the bundled seed, of which a workspace admits one.
installed(ok) ==
  /\ inst.op \in {"clone-harness", "install-bundled-seed"}
  /\ ok => Cardinality(DOMAIN main.inst) < MaxInstalled
  /\ main' = IF ~ok THEN main
             ELSE [main EXCEPT !.inst = [i \in 1 .. Cardinality(DOMAIN @) + 1 |->
                     IF i \in DOMAIN @ THEN @[i] ELSE [ws |-> inst.ws, launch |-> "stopped"]]]
  /\ LET v == [ran(inst) EXCEPT !.clone = IF inst.op = "clone-harness" /\ ok THEN FALSE ELSE @]
     IN inst' = IF ok THEN received(v) ELSE v
  /\ UNCHANGED <<roots, spent, unsure>>

\* Switching is refused while the installation runs.
revisionSwitched(ok) ==
  /\ inst.op = "switch-revision" /\ UNCHANGED <<main, roots, spent, unsure>>
  /\ ok => main.inst[inst.id].launch \in {"stopped", "failed"}
  /\ inst' = IF ok THEN received([ran(inst) EXCEPT !.switch = FALSE]) ELSE ran(inst)

harnessStarted(ok) ==
  /\ inst.op = "start-harness" /\ (ok => main.inst[inst.id].launch \in {"stopped", "failed"})
  /\ main' = [main EXCEPT !.inst[inst.id].launch = IF ok THEN "starting" ELSE @]
  /\ inst' = IF ok THEN received(ran(inst)) ELSE ran(inst)
  /\ UNCHANGED <<roots, spent, unsure>>

harnessStopped(ok) ==
  /\ inst.op = "stop-harness"
  /\ main' = [main EXCEPT !.inst[inst.id].launch = IF ok THEN "stopped" ELSE @]
  /\ inst' = IF ok THEN received(ran(inst)) ELSE ran(inst)
  /\ UNCHANGED <<roots, spent, unsure>>

instThrew ==
  /\ isBusy(inst)
  /\ inst' = ran(inst)
  /\ Rejects(IF inst.op = "register-toolchain" THEN ExecutableKinds ELSE {})
  /\ UNCHANGED <<roots, main>>

\* A launch moves on by itself; no page is told.
Child ==
  /\ \E i \in DOMAIN main.inst :
       \/ /\ main.inst[i].launch = "starting"
          /\ \E l \in {"running", "failed"} : main' = [main EXCEPT !.inst[i].launch = l]
       \/ /\ main.inst[i].launch = "running"
          /\ main' = [main EXCEPT !.inst[i].launch = "failed"]
  /\ UNCHANGED <<roots, inst, spent, unsure>>

----------------------------------------------------------------------------
Init ==
  /\ roots = run(ManagedWorkspacesViewState, "load")
  /\ inst = ManagedInstallationsViewState
  /\ \E ready \in BOOLEAN :
       main = [ready |-> ready, spaces |-> 0, tools |-> 0, inst |-> << >>]
  /\ spent = {} /\ unsure = {}

Next ==
  \/ initialize \/ registerRoots \/ selectWorkingDirectory \/ nameWorkspace \/ createWorkspace
  \/ \E k \in RootKinds : selectRootDirectory(k)
  \/ \E k \in RootKinds \cup {WorkDir} : rootSelected(k)
  \/ \E ok \in BOOLEAN :
       \/ rootsRead(ok) \/ rootsRegistered(ok) \/ workspaceCreated(ok)
       \/ loaded(ok) \/ toolchainRegistered(ok) \/ installed(ok) \/ revisionSwitched(ok)
       \/ harnessStarted(ok) \/ harnessStopped(ok)
  \/ rootsThrew \/ instThrew \/ Child
  \/ \E n \in 0 .. MaxSpaces : selectWorkspace(n)
  \/ \E n \in 0 .. MaxInstalled : selectInstallation(n) \/ selectToolchain(n)
  \/ writeCloneForm \/ writeSwitchForm
  \/ registerToolchain \/ cloneHarness \/ installBundledSeed
  \/ switchRevision \/ startHarness \/ stopHarness
  \/ \E k \in ExecutableKinds : selectExecutable(k) \/ executableSelected(k)

Spec == Init /\ [][Next]_vars

----------------------------------------------------------------------------
TypeOK ==
  /\ roots.kind \in {"loading", "error", "setup-required", "ready"}
  /\ inst.kind \in {"absent", "loading", "error", "ready"}
  /\ inst.kind # "absent" => roots.kind = "ready"
  /\ roots.sel \subseteq RootKinds /\ inst.exe \subseteq ExecutableKinds
  /\ \A i \in DOMAIN inst.list : inst.list[i].launch \in Launches

(* Between calls a page offers no selection the desktop process has already  *)
(* spent, through any refusal: only a submission whose call rejected leaves  *)
(* one (useManagedWorkspaces.ts registerRoots, createWorkspace;              *)
(* useManagedInstallations.ts registerToolchain).                            *)
OfferedIsHeld ==
  /\ ~isBusy(roots) =>
       /\ roots.sel \cap spent \subseteq unsure
       /\ roots.work /\ WorkDir \in spent => WorkDir \in unsure
  /\ ~isBusy(inst) => inst.exe \cap spent \subseteq unsure
=============================================================================
