-------------------------- MODULE LauncherRunProofs -------------------------
(***************************************************************************)
(* The launcher runs only what it recorded, for every set of commits,      *)
(* plugins, paths and installations: proofs about the parts of MCLauncher  *)
(* that start a program or change what will be started: DSH Web, its       *)
(* versions and plugins, managed roots, managed installations and the seed *)
(* the launcher is shipped with.                                           *)
(***************************************************************************)
EXTENDS MCLauncher, SequenceTheorems, FiniteSetTheorems, TLAPS

-----------------------------------------------------------------------------
(* DSH Web as the launcher shows it. *)

\* A drain belongs to a generation that has been, a timer that fired has its drain, only a
\* runtime that was started is followed; while the feed has one timer, a drain of this
\* generation keeps it and a launch shown as live has it; after a stop nothing is live.
HarnessInv ==
  /\ HarnessRun!TypeOK
  /\ \A d \in {1, 2} : v9[d].gen <= v6
  /\ v7 = "fired" => \E d \in {1, 2} : v9[d].at # "idle"
  /\ v7 # "none" \/ v8 > 0 \/ (\E d \in {1, 2} : v9[d].at # "idle") => v2 # "none"
  /\ \A c \in {1, 2} : v3[c] = "started" => v2 # "none"
  /\ \A d \in {1, 2} : v9[d].at = "answer" => v9[d].view # "none"
  /\ ~v11 => v8 = 0 /\ \A d \in {1, 2} : v9[d].at # "idle" /\ v9[d].gen = v6 => v7 # "none"
  /\ v1 \in HarnessRun!Live /\ ~v5 /\ ~v11 => v7 # "none" \/ \E c \in {1, 2} : v3[c] # "idle"
  /\ v10 => /\ v1 \notin HarnessRun!Live /\ v2 \notin HarnessRun!Live
            /\ \A c \in {1, 2} : v3[c] = "idle"
            /\ \A d \in {1, 2} : v9[d].at = "answer" /\ v9[d].gen = v6
                                 => v9[d].view \notin HarnessRun!Live

\* The properties follow.
LEMMA HarnessImplies ==
  ASSUME HarnessInv PROVE HarnessRun!NoResurrection /\ HarnessRun!LiveIsFollowed
BY DEF HarnessInv, HarnessRun!NoResurrection, HarnessRun!LiveIsFollowed, HarnessRun!TypeOK,
   HarnessRun!Live, HarnessRun!Calls, HarnessRun!Idle

\* It holds at the start.
LEMMA HarnessStarts == ASSUME HarnessRun!Init PROVE HarnessInv
<1>1. /\ v1 = "stopped" /\ v2 = "none" /\ v3 = [c \in {1, 2} |-> "idle"] /\ v4 = "idle"
      /\ v6 = 0 /\ v7 = "none" /\ v8 = 0 /\ v9 = [d \in {1, 2} |-> HarnessRun!Idle]
      /\ ~v5 /\ v5 \in BOOLEAN /\ ~v10 /\ v10 \in BOOLEAN /\ ~v11 /\ v11 \in BOOLEAN
  BY DEF HarnessRun!Init, HarnessRun!Calls
<1> QED BY <1>1, HarnessAssumption
        DEF HarnessInv, HarnessRun!TypeOK, HarnessRun!Live, HarnessRun!Calls, HarnessRun!Idle

\* Every step keeps it.
LEMMA HarnessSteps == ASSUME HarnessInv, HarnessRun!Next PROVE HarnessInv'
<1> USE HarnessAssumption
    DEF HarnessInv, HarnessRun!TypeOK, HarnessRun!Live, HarnessRun!Calls, HarnessRun!Idle
<1>0. /\ v6 < MaxGen /\ v8' <= MaxLeaked /\ v11' \in BOOLEAN
      /\ ~v11' => \/ ~v11 /\ ~(v8' > v8)
                  \/ v7' = "pending" /\ v8' = 0 /\ \A d \in {1, 2} : v9'[d].at = "idle"
  <2>1. /\ v6 < MaxGen /\ v8' <= MaxLeaked
        /\ v11' = ((v11 \/ v8' > v8) /\ ~HarnessRun!OneChain')
    BY DEF HarnessRun!Next
  <2>2. HarnessRun!OneChain' => v7' = "pending" /\ v8' = 0 /\ \A d \in {1, 2} : v9'[d].at = "idle"
    BY DEF HarnessRun!OneChain
  <2> QED BY <2>1, <2>2, Zenon
<1>1. CASE HarnessRun!observe BY <1>0, <1>1 DEF HarnessRun!observe
<1>2. CASE HarnessRun!Stop BY <1>0, <1>2 DEF HarnessRun!Stop
<1>3. CASE HarnessRun!shutdown BY <1>0, <1>3 DEF HarnessRun!shutdown, HarnessRun!feedStop
<1>4. CASE HarnessRun!stopAnswered
  <2>1. CASE v4 = "refused"
    <3>1. v4' = "idle" /\ UNCHANGED <<v1, v2, v3, v5, v6, v7, v8, v9, v10>>
      BY <1>4, <2>1 DEF HarnessRun!stopAnswered
    <3> QED BY <1>0, <3>1
  <2>2. CASE v4 # "refused"
    <3>1. /\ v4' = "idle" /\ v1' = v4 /\ v4 \in {"stopped", "failed"} /\ UNCHANGED <<v2, v3, v5, v9, v8>>
          /\ v10' \in BOOLEAN
          /\ v10' => ~v5 /\ v2 \notin HarnessRun!Live /\ \A c \in {1, 2} : v3[c] = "idle"
      <4>1. /\ v4' = "idle" /\ v1' = v4 /\ v4 \in {"stopped", "failed"} /\ UNCHANGED <<v2, v3, v5, v9, v8>>
        BY <1>4, <2>2 DEF HarnessRun!stopAnswered, HarnessRun!feedStop
      <4>2. v10' = (~v5 /\ v2 \notin HarnessRun!Live /\ \A c \in {1, 2} : v3[c] = "idle")
        BY <1>4, <2>2 DEF HarnessRun!stopAnswered
      <4> QED BY <4>1, <4>2, Zenon
    <3>2. CASE v5
      <4>1. UNCHANGED <<v6, v7, v8>> BY <1>4, <2>2, <3>2 DEF HarnessRun!stopAnswered
      <4> QED BY <1>0, <3>1, <3>2, <4>1
    <3>3. CASE ~v5
      <4>1. v6' = v6 + 1 /\ v7' = "none" BY <1>4, <2>2, <3>3 DEF HarnessRun!stopAnswered, HarnessRun!feedStop
      <4> QED BY <1>0, <3>1, <3>3, <4>1
    <3> QED BY <3>2, <3>3
  <2> QED BY <2>1, <2>2
<1>5. ASSUME NEW c \in {1, 2}, HarnessRun!Start(c) PROVE HarnessInv'
  BY <1>0, <1>5 DEF HarnessRun!Start
<1>6. ASSUME NEW c \in {1, 2}, HarnessRun!startAnswered(c) PROVE HarnessInv'
  BY <1>0, <1>6 DEF HarnessRun!startAnswered, HarnessRun!feedStart, HarnessRun!schedule
<1>7. ASSUME NEW c \in {1, 2}, NEW ok \in BOOLEAN, HarnessRun!preflight(c, ok) PROVE HarnessInv'
  BY <1>0, <1>7 DEF HarnessRun!preflight
<1>8. ASSUME NEW c \in {1, 2}, NEW ok \in BOOLEAN, HarnessRun!CoreStarts(c, ok) PROVE HarnessInv'
  BY <1>0, <1>8 DEF HarnessRun!CoreStarts
<1>9. ASSUME NEW how \in {"stopped", "failed"}, HarnessRun!ChildExits(how) PROVE HarnessInv'
  BY <1>0, <1>9 DEF HarnessRun!ChildExits
<1>10. ASSUME NEW ok \in BOOLEAN, HarnessRun!CoreStops(ok) PROVE HarnessInv'
  BY <1>0, <1>10 DEF HarnessRun!CoreStops
<1>11. ASSUME NEW own \in BOOLEAN, HarnessRun!Fires(own) PROVE HarnessInv'
  <2>1. PICK d \in {1, 2} :
          v9' = [v9 EXCEPT ![d] = [at |-> "console", gen |-> v6, view |-> "none"]]
    <3>1. PICK d \in {1, 2} :
            v9' = [v9 EXCEPT ![d] = [HarnessRun!Idle EXCEPT !.at = "console", !.gen = v6]]
      BY <1>11, Zenon DEF HarnessRun!Fires
    <3>2. [HarnessRun!Idle EXCEPT !.at = "console", !.gen = v6] = [at |-> "console", gen |-> v6, view |-> "none"]
      <4>1. PICK g : g = v6 OBVIOUS
      <4>2. [HarnessRun!Idle EXCEPT !.at = "console", !.gen = g] = [[HarnessRun!Idle EXCEPT !.at = "console"] EXCEPT !.gen = g]
        BY DEF HarnessRun!Idle
      <4>3. [HarnessRun!Idle EXCEPT !.at = "console"] = [at |-> "console", gen |-> 0, view |-> "none"]
        BY DEF HarnessRun!Idle
      <4>4. [[at |-> "console", gen |-> 0, view |-> "none"] EXCEPT !.gen = g] = [at |-> "console", gen |-> g, view |-> "none"]
        OBVIOUS
      <4> QED BY <4>1, <4>2, <4>3, <4>4
    <3> QED BY <3>1, <3>2
  <2>2. UNCHANGED <<v1, v2, v3, v4, v5, v6, v10>> BY <1>11 DEF HarnessRun!Fires
  <2>3. CASE own
    <3>1. v7 = "pending" /\ v7' = "fired" /\ v8' = v8 BY <1>11, <2>3 DEF HarnessRun!Fires
    <3> QED BY <1>0, <2>1, <2>2, <3>1
  <2>4. CASE ~own
    <3>1. v8 > 0 /\ v8' = v8 - 1 /\ v7' = v7 BY <1>11, <2>4 DEF HarnessRun!Fires
    <3> QED BY <1>0, <2>1, <2>2, <3>1
  <2> QED BY <2>3, <2>4
<1>12. ASSUME NEW d \in {1, 2}, HarnessRun!ConsoleRead(d) PROVE HarnessInv'
  BY <1>0, <1>12 DEF HarnessRun!ConsoleRead, HarnessRun!Ends, HarnessRun!schedule
<1>13. ASSUME NEW d \in {1, 2}, HarnessRun!CoreStatus(d) PROVE HarnessInv'
  BY <1>0, <1>13 DEF HarnessRun!CoreStatus
<1>14. ASSUME NEW d \in {1, 2}, HarnessRun!StatusRead(d) PROVE HarnessInv'
  BY <1>0, <1>14 DEF HarnessRun!StatusRead, HarnessRun!Ends, HarnessRun!schedule, HarnessRun!feedStop
<1>15. ASSUME NEW d \in {1, 2}, HarnessRun!DrainFails(d) PROVE HarnessInv'
  BY <1>0, <1>15 DEF HarnessRun!DrainFails, HarnessRun!Ends, HarnessRun!schedule
<1> QED BY <1>1, <1>2, <1>3, <1>4, <1>5, <1>6, <1>7, <1>8, <1>9, <1>10, <1>11, <1>12, <1>13,
           <1>14, <1>15 DEF HarnessRun!Next

-----------------------------------------------------------------------------
(* The versions of DSH on disk. *)

\* The version an operation is to prepare is not the active one, the one it has prepared is
\* ready, and the active one is ready and not up for pruning.
VersionsInv ==
  /\ HarnessTree!TypeOK
  /\ v5 \in [at : {"none", "seed", "prepare", "begin", "remove", "add", "build", "plugins",
                   "validate", "prune"}, commit : Commits \cup {None}]
  /\ v5.at \in {"begin", "remove", "add", "build", "plugins", "validate"} => v5.commit \in Commits
  /\ v5.at \in {"remove", "add", "build", "plugins"} => v5.commit # v3
  /\ v5.at = "validate" => v2[v5.commit] \in {"marked", "ready"}
  /\ v6 \in [at : {"stopped", "preflight", "running"}, commit : Commits \cup {None}]
  /\ HarnessTree!PointerIsReady

\* It holds at the start.
LEMMA VersionsStarts == ASSUME HarnessTree!Init PROVE VersionsInv
BY DEF VersionsInv, HarnessTree!Init, HarnessTree!TypeOK, HarnessTree!PointerIsReady,
   HarnessTree!Stopped

\* Every step keeps it.
LEMMA VersionsSteps == ASSUME VersionsInv, HarnessTree!Next PROVE VersionsInv'
<1> USE VersionsAssumption
    DEF VersionsInv, HarnessTree!TypeOK, HarnessTree!PointerIsReady, HarnessTree!NoOp,
        HarnessTree!Stopped, HarnessTree!readHarnessReadiness
<1>1. CASE HarnessTree!materialize BY <1>1 DEF HarnessTree!materialize
<1>2. CASE HarnessTree!removeInterruptedVersion BY <1>2 DEF HarnessTree!removeInterruptedVersion
<1>3. CASE HarnessTree!addLauncherVersionWorktree
  BY <1>3 DEF HarnessTree!addLauncherVersionWorktree
<1>4. CASE HarnessTree!build BY <1>4 DEF HarnessTree!build
<1>5. CASE HarnessTree!reconcilePlugins BY <1>5 DEF HarnessTree!reconcilePlugins
<1>6. CASE HarnessTree!writeCurrentVersionPointer
  BY <1>6 DEF HarnessTree!writeCurrentVersionPointer
<1>7. CASE HarnessTree!OperationEnds BY <1>7 DEF HarnessTree!OperationEnds
<1>8. CASE HarnessTree!StepFails
  BY <1>8 DEF HarnessTree!StepFails, HarnessTree!Fail, HarnessTree!Settle
<1>9. CASE HarnessTree!start BY <1>9 DEF HarnessTree!start
<1>10. CASE HarnessTree!spawned BY <1>10 DEF HarnessTree!spawned
<1>11. CASE HarnessTree!stop BY <1>11 DEF HarnessTree!stop
<1>12. CASE HarnessTree!Crash BY <1>12 DEF HarnessTree!Crash
<1>13. ASSUME NEW b \in BOOLEAN, HarnessTree!initialize(b) \/ HarnessTree!Seeded(b)
       PROVE  VersionsInv'
  BY <1>13 DEF HarnessTree!initialize, HarnessTree!Seeded
<1>14. ASSUME NEW c \in Commits, HarnessTree!prepareCurrentVersion(c) PROVE VersionsInv'
  BY <1>14 DEF HarnessTree!prepareCurrentVersion
<1>15. ASSUME NEW c \in Commits, HarnessTree!reportOperation(c) PROVE VersionsInv'
  BY <1>15 DEF HarnessTree!reportOperation
<1>16. ASSUME NEW c \in Commits, HarnessTree!pruneInactiveVersions(c) PROVE VersionsInv'
  BY <1>16 DEF HarnessTree!pruneInactiveVersions
<1> QED BY <1>1, <1>2, <1>3, <1>4, <1>5, <1>6, <1>7, <1>8, <1>9, <1>10, <1>11, <1>12, <1>13,
           <1>14, <1>15, <1>16 DEF HarnessTree!Next

-----------------------------------------------------------------------------
(* The plugins of the profile. *)

\* The directory of an operation in progress is its own until the profile has it, then the
\* named plugin's; a recorded directory is in the profile at most under its own name.
PluginsInv ==
  /\ Plugins!TypeOK
  /\ v6 \in [kind : {"none", "install", "adopt", "remove", "update", "refresh"},
             at : {"none", "materialize", "add", "discard", "record", "command", "directory", "write"},
             name : PluginNames \cup {None}, dir : PluginDirs \cup {None}, fresh : BOOLEAN]
  /\ v6.at \in {"materialize", "add", "discard", "record"} => v6.name \in PluginNames /\ v6.dir \in PluginDirs
  /\ v6.at \in {"command", "directory"} => v6.name \in PluginNames
  /\ v6.kind = "remove" => v6.name \in PluginNames
  /\ v6.at \in {"add", "record"} => v6.dir \in v2
  /\ v6.at \in {"materialize", "add", "discard"} => \A n \in PluginNames : v1[n] # v6.dir
  /\ v6.at \in {"materialize", "add", "discard", "record"} => \A n \in PluginNames : v3[n] # v6.dir
  /\ v6.at = "record" => \A n \in PluginNames : v1[n] = v6.dir => n = v6.name
  /\ v6.at = "directory" => v1[v6.name] = None
  /\ \A m, n \in PluginNames : v3[m] = v1[n] /\ v3[m] # None => m = n
  /\ Plugins!ProfileIsBacked

\* It holds at the start.
LEMMA PluginsStarts == ASSUME Plugins!Init PROVE PluginsInv
BY PluginsAssumption DEF PluginsInv, Plugins!Init, Plugins!TypeOK, Plugins!ProfileIsBacked, Plugins!NoOp

\* Every step keeps it.
LEMMA PluginsSteps == ASSUME PluginsInv, Plugins!Next PROVE PluginsInv'
<1> USE PluginsAssumption
    DEF PluginsInv, Plugins!TypeOK, Plugins!ProfileIsBacked, Plugins!NoOp, Plugins!Idle,
        Plugins!At, Plugins!Goto
<1>0. ASSUME v6' = Plugins!NoOp, UNCHANGED <<v1, v2, v3, v4, v5>> PROVE PluginsInv' BY <1>0
<1>1. CASE Plugins!discard BY <1>1 DEF Plugins!discard
<1>2. CASE Plugins!record BY <1>2 DEF Plugins!record
<1>3. CASE Plugins!removeDirectory
  <2>1. CASE v3[v6.name] = None \/ v3[v6.name] \notin v2
    <3>1. v6' = Plugins!NoOp /\ UNCHANGED <<v1, v2, v3, v4, v5>> BY <1>3, <2>1 DEF Plugins!removeDirectory
    <3> QED BY <1>0, <3>1
  <2>2. CASE ~(v3[v6.name] = None \/ v3[v6.name] \notin v2)
    <3>1. /\ v2' = v2 \ {v3[v6.name]} /\ v6' = [v6 EXCEPT !.at = "write"] /\ v6.kind = "remove"
          /\ v6.at = "directory" /\ UNCHANGED <<v1, v3, v4, v5>>
      BY <1>3, <2>2 DEF Plugins!removeDirectory
    <3>2. v6.name \in PluginNames /\ v1[v6.name] = None BY <3>1
    <3>3. \A n \in PluginNames : v1[n] # v3[v6.name] BY <2>2, <3>2
    <3>4. \A n \in PluginNames : v1[n] \in PluginDirs => v1[n] \in v2' BY <3>1, <3>3
    <3> QED BY <3>1, <3>2, <3>4
  <2> QED BY <2>1, <2>2
<1>4. CASE Plugins!removeRecord BY <1>4 DEF Plugins!removeRecord
<1>5. CASE Plugins!refreshGitSourceStatus BY <1>5 DEF Plugins!refreshGitSourceStatus
<1>6. CASE Plugins!Rewritten BY <1>6 DEF Plugins!Rewritten
<1>7. CASE Plugins!Crash BY <1>7 DEF Plugins!Crash
<1>8. ASSUME NEW n \in PluginNames, Plugins!uninstall(n) PROVE PluginsInv'
  BY <1>8 DEF Plugins!uninstall
<1>9. ASSUME NEW n \in PluginNames, Plugins!update(n) PROVE PluginsInv'
  BY <1>9 DEF Plugins!update
<1>10. ASSUME NEW n \in PluginNames, Plugins!ProfileChanges(n) PROVE PluginsInv'
  BY <1>10 DEF Plugins!ProfileChanges
<1>11. ASSUME NEW n \in PluginNames, NEW d \in PluginDirs, Plugins!install(n, d) PROVE PluginsInv'
  BY <1>11 DEF Plugins!install, Plugins!unused
<1>12. ASSUME NEW n \in PluginNames, NEW d \in PluginDirs, Plugins!adopt(n, d) PROVE PluginsInv'
  BY <1>12 DEF Plugins!adopt, Plugins!unused
<1>13. ASSUME NEW ok \in BOOLEAN, Plugins!addCommand(ok) PROVE PluginsInv'
  BY <1>13 DEF Plugins!addCommand
<1>14. ASSUME NEW ok \in BOOLEAN, Plugins!removeCommand(ok) PROVE PluginsInv'
  <2>1. CASE ok
    <3>1. /\ v1' = [v1 EXCEPT ![v6.name] = None] /\ v6' = [v6 EXCEPT !.at = "directory"]
          /\ v6.kind = "remove" /\ v6.at = "command" /\ UNCHANGED <<v2, v3, v4, v5>>
      BY <1>14, <2>1 DEF Plugins!removeCommand
    <3>2. v6.name \in PluginNames /\ v1'[v6.name] = None BY <3>1
    <3>3. \A n \in PluginNames : n # v6.name => v1'[n] = v1[n] BY <3>1
    <3> QED BY <3>1, <3>2, <3>3
  <2>2. CASE ~ok
    <3>1. v6' = Plugins!NoOp /\ UNCHANGED <<v1, v2, v3, v4, v5>> BY <1>14, <2>2 DEF Plugins!removeCommand
    <3> QED BY <1>0, <3>1
  <2> QED BY <2>1, <2>2
<1>15. ASSUME NEW ok \in BOOLEAN, NEW s \in {"git", "local", "archive"}, Plugins!materialize(s, ok)
       PROVE  PluginsInv'
  <2>1. /\ v6.at = "materialize" /\ v6.name \in PluginNames /\ v6.dir \in PluginDirs
        /\ UNCHANGED <<v1, v3, v5>> /\ v4' \subseteq PluginDirs
        /\ v2 \subseteq v2' /\ v2' \subseteq PluginDirs
    BY <1>15 DEF Plugins!materialize
  <2>2. CASE ok
    <3>1. v2' = v2 \cup {v6.dir} /\ v6' = [v6 EXCEPT !.at = "add"] BY <1>15, <2>2 DEF Plugins!materialize
    <3> QED BY <2>1, <3>1
  <2>3. CASE ~ok
    <3>1. v6' = Plugins!NoOp BY <1>15, <2>3 DEF Plugins!materialize
    <3> QED BY <2>1, <3>1
  <2> QED BY <2>2, <2>3
<1> QED BY <1>1, <1>2, <1>3, <1>4, <1>5, <1>6, <1>7, <1>8, <1>9, <1>10, <1>11, <1>12, <1>13,
           <1>14, <1>15 DEF Plugins!Next

-----------------------------------------------------------------------------
(* The managed roots and their workspaces. *)

\* The directories a call may register.
RootSets == [{"settings", "harness"} -> Paths] \cup {Default}

\* A workspace.
Works == [id : Caps, path : Paths]

\* The calls there are.
CallForms ==
  [kind : {"none", "register", "state", "workspace"},
   at : {"none", "assertInitialSetup", "inspect", "layout", "consume", "locator", "registry",
         "catalog", "directories", "artifacts", "save", "remove"},
   roots : RootSets \cup {None}, use : SUBSET Caps, work : Works \cup {None}]

\* What the files, the selections and the calls are made of.
RootsTypes ==
  /\ v1 \in Paths \cup {None} /\ v2 \in [Paths -> [roots : RootSets, works : SUBSET Works] \cup {None}]
  /\ v3 \subseteq Paths /\ v4 \subseteq Paths /\ v5 \subseteq Caps
  /\ v6 \in [Caps -> [purpose : {"none", "spent", "settings", "harness", "workspace"},
                      path : Paths \cup {<<>>}]]
  /\ \A cap \in Caps : v6[cap].purpose \in {"settings", "harness", "workspace"} => v6[cap].path \in Paths
  /\ v7 \in BOOLEAN /\ v8 \in [{1, 2} -> CallForms] /\ v9 \in BOOLEAN

\* A registration goes on while there is no locator, or after it wrote its own; a workspace
\* is made under a registry, from a selection that is spent.
StageOf(x) ==
  /\ x.at = "none" => x = Roots!NoCall
  /\ x.at = "assertInitialSetup" /\ x.use = {} => x.roots = Default
  /\ x.at \in {"layout", "consume", "locator", "registry", "catalog"} => x.roots \in RootSets
  /\ x.at \in {"inspect", "layout", "consume", "locator"} => v1 = None
  /\ x.at = "registry" => v1 = x.roots.settings /\ \A p \in Paths : v2[p] = None
  /\ x.at \in {"directories", "artifacts", "save", "remove"} =>
       /\ x.work \in Works /\ v1 \in Paths /\ v6[x.work.id].purpose = "spent"
       /\ x.at # "remove" => v2[v1] # None
       /\ x.at \in {"artifacts", "save"} => x.work.id \in v5
       /\ \/ x.at = "remove" /\ v9
          \/ \A w \in v2[v1].works : w.id # x.work.id

\* One call at a time.
CallStage ==
  /\ v7 <=> \E c \in {1, 2} : v8[c].at # "none"
  /\ \A c, d \in {1, 2} : c = d \/ v8[c].at = "none" \/ v8[d].at = "none"
  /\ \A c \in {1, 2} : StageOf(v8[c])

\* A registry lies where the locator points; its workspaces are of spent selections.
RegistryKept ==
  /\ v1 = None => \A p \in Paths : v2[p] = None
  /\ \A p \in Paths : v2[p] # None =>
       \A w \in v2[p].works : v6[w.id].purpose = "spent"
  /\ Roots!RootsAreConsistent

\* The invariant of the managed roots.
RootsInv == RootsTypes /\ CallStage /\ RegistryKept

\* The types follow.
LEMMA RootsImplies == ASSUME RootsInv PROVE Roots!TypeOK /\ Roots!RootsAreConsistent
<1>1. \A c \in {1, 2} : v8[c].at # "none" <=> v8[c] # Roots!NoCall
  BY DEF RootsInv, CallStage, StageOf, Roots!NoCall
<1>2. v7 <=> \E c \in {1, 2} : v8[c] # Roots!NoCall BY <1>1 DEF RootsInv, CallStage
<1>3. v7 = (\E c \in {1, 2} : v8[c] # Roots!NoCall)
  BY <1>2, Zenon DEF RootsInv, RootsTypes
<1> QED BY <1>3 DEF RootsInv, RootsTypes, RegistryKept, Roots!TypeOK, Roots!CallSlots

\* The settings root of a registration is a path.
LEMMA SettingsIsPath == ASSUME NEW r \in RootSets PROVE r.settings \in Paths
<1>1. CASE r = Default BY <1>1, RootsAssumption
<1>2. CASE r \in [{"settings", "harness"} -> Paths] BY <1>2
<1> QED BY <1>1, <1>2 DEF RootSets

\* It holds at the start.
LEMMA RootsStarts == ASSUME Roots!Init PROVE RootsInv
<1> USE RootsAssumption
<1>1. /\ v1 = None /\ v2 = [p \in Paths |-> None] /\ v3 = {} /\ v4 = {} /\ v5 = {}
      /\ v6 = [cap \in Caps |-> Roots!Unissued] /\ ~v7 /\ v7 \in BOOLEAN
      /\ v8 = [c \in {1, 2} |-> Roots!NoCall] /\ ~v9 /\ v9 \in BOOLEAN
  BY DEF Roots!Init, Roots!CallSlots
<1>2. RootsTypes BY <1>1 DEF RootsTypes, Roots!Unissued, CallForms, Roots!NoCall
<1>3. CallStage BY <1>1 DEF CallStage, StageOf, Roots!NoCall
<1>4. RegistryKept BY <1>1 DEF RegistryKept, Roots!RootsAreConsistent
<1> QED BY <1>2, <1>3, <1>4 DEF RootsInv

\* A call goes on, or a new one is put in a free place.
LEMMA CallMoves ==
  ASSUME RootsInv, NEW c \in {1, 2}, NEW x \in CallForms, v8' = [v8 EXCEPT ![c] = x],
         v8[c].at # "none" \/ ~v7, v7' \in BOOLEAN, v7' <=> x.at # "none", StageOf(x)'
  PROVE  v8' \in [{1, 2} -> CallForms] /\ CallStage'
<1>1. /\ v8' \in [{1, 2} -> CallForms] /\ v8'[c] = x
      /\ \A d \in {1, 2} : d = c \/ v8'[d] = Roots!NoCall
  BY DEF RootsInv, RootsTypes, CallStage, StageOf
<1>2. Roots!NoCall.at = "none" BY DEF Roots!NoCall
<1>3. PICK n : n = Roots!NoCall OBVIOUS
<1>4. StageOf(n)' BY <1>2, <1>3 DEF StageOf
<1>5. \A d \in {1, 2} : StageOf(v8[d])' BY <1>1, <1>3, <1>4 DEF StageOf
<1> QED BY <1>1, <1>2, <1>5 DEF CallStage

\* The selections change, and none that is spent comes back.
LEMMA StageStays ==
  ASSUME RootsInv, UNCHANGED <<v1, v2, v5, v7, v8, v9>>,
         \A cap \in Caps : v6[cap].purpose = "spent" => v6'[cap].purpose = "spent"
  PROVE  CallStage'
BY DEF RootsInv, CallStage, StageOf, Works

\* The registry stays, and nothing it rests on goes.
LEMMA RegistryStays ==
  ASSUME RootsInv, v1 # None => UNCHANGED v1, UNCHANGED v2, v5 \subseteq v5', v9 => v9',
         \A cap \in Caps : v6[cap].purpose = "spent" => v6'[cap].purpose = "spent"
  PROVE  RegistryKept'
<1>1. Roots!RootsAreConsistent' BY DEF RootsInv, RegistryKept, Roots!RootsAreConsistent
<1>2. v1' = None => \A p \in Paths : v2'[p] = None BY DEF RootsInv, RegistryKept
<1>3. \A p \in Paths : v2'[p] # None => \A w \in v2'[p].works : v6'[w.id].purpose = "spent"
  BY DEF RootsInv, RootsTypes, RegistryKept, Works
<1> QED BY <1>1, <1>2, <1>3 DEF RegistryKept

\* One selection changes.
LEMMA OneSelected ==
  ASSUME NEW S, NEW f \in [Caps -> S], NEW cap \in Caps, NEW r \in S,
         NEW g, g = [f EXCEPT ![cap] = r]
  PROVE  g \in [Caps -> S] /\ g[cap] = r /\ \A k \in Caps : k # cap => g[k] = f[k]
OBVIOUS

\* The selections: chosen, expired, or lost with the process.
LEMMA SelectionSteps ==
  ASSUME RootsInv,
         \/ Roots!Crash
         \/ \E cap \in Caps : Roots!Expire(cap)
         \/ \E cap \in Caps, purpose \in {"settings", "harness", "workspace"}, p \in Paths :
              Roots!selectDirectory(cap, purpose, p)
  PROVE  RootsInv'
<1> USE RootsAssumption DEF Roots!Files
<1> DEFINE S == [purpose : {"none", "spent", "settings", "harness", "workspace"},
                 path : Paths \cup {<<>>}]
<1>0. v6 \in [Caps -> S] BY DEF RootsInv, RootsTypes
<1>1. CASE Roots!Crash
  <2>1. /\ v7' \in BOOLEAN /\ ~v7' /\ v8' = [c \in {1, 2} |-> Roots!NoCall]
        /\ UNCHANGED <<v1, v2, v3, v4, v5, v9>>
        /\ v6' = [cap \in Caps |-> IF v6[cap] = Roots!Unissued THEN Roots!Unissued ELSE Roots!Spent]
    BY <1>1 DEF Roots!Crash, Roots!CallSlots
  <2>2. /\ v6' \in [Caps -> S]
        /\ \A cap \in Caps : v6'[cap].purpose \notin {"settings", "harness", "workspace"}
        /\ \A cap \in Caps : v6[cap].purpose = "spent" => v6'[cap].purpose = "spent"
    BY <2>1 DEF Roots!Unissued, Roots!Spent
  <2>3. RootsTypes' BY <2>1, <2>2 DEF RootsInv, RootsTypes, CallForms, Roots!NoCall
  <2>4. CallStage' BY <2>1 DEF CallStage, StageOf, Roots!NoCall
  <2>5. RegistryKept' BY <2>1, <2>2, RegistryStays
  <2> QED BY <2>3, <2>4, <2>5 DEF RootsInv
<1>2. ASSUME NEW cap \in Caps, Roots!Expire(cap) PROVE RootsInv'
  <2>1. v6' = [v6 EXCEPT ![cap] = Roots!Spent] /\ UNCHANGED <<v1, v2, v3, v4, v5, v7, v8, v9>>
    BY <1>2 DEF Roots!Expire
  <2>2. /\ v6' \in [Caps -> S]
        /\ \A k \in Caps : v6'[k] = v6[k] \/ v6'[k].purpose = "spent"
    BY <1>0, <2>1 DEF Roots!Spent
  <2>3. RootsTypes' BY <2>1, <2>2 DEF RootsInv, RootsTypes
  <2> QED BY <2>1, <2>2, <2>3, StageStays, RegistryStays DEF RootsInv
<1>3. ASSUME NEW cap \in Caps, NEW purpose \in {"settings", "harness", "workspace"}, NEW p \in Paths,
             Roots!selectDirectory(cap, purpose, p)
      PROVE  RootsInv'
  <2>0. PICK r : r = [purpose |-> purpose, path |-> p] OBVIOUS
  <2>1. /\ v6[cap].purpose = "none" /\ v6' = [v6 EXCEPT ![cap] = r]
        /\ UNCHANGED <<v1, v2, v3, v4, v5, v7, v8, v9>>
    BY <1>3, <2>0 DEF Roots!selectDirectory, Roots!Unissued
  <2>2. r \in S /\ r.path \in Paths BY <2>0
  <2> HIDE DEF S
  <2>3. v6' \in [Caps -> S] /\ v6'[cap] = r /\ \A k \in Caps : k # cap => v6'[k] = v6[k]
    BY <1>0, <2>1, <2>2, OneSelected
  <2>4. \A k \in Caps : v6'[k] = v6[k] \/ (v6[k].purpose = "none" /\ v6'[k].path \in Paths)
    BY <2>1, <2>2, <2>3
  <2> USE DEF S
  <2>5. RootsTypes' BY <2>1, <2>3, <2>4 DEF RootsInv, RootsTypes
  <2>6. \A k \in Caps : v6[k].purpose = "spent" => v6'[k].purpose = "spent" BY <2>4
  <2> QED BY <2>1, <2>5, <2>6, StageStays, RegistryStays DEF RootsInv
<1> QED BY <1>1, <1>2, <1>3

\* A call ends.
LEMMA CallEnds ==
  ASSUME RootsInv, NEW c \in {1, 2}, v8[c].at # "none", Roots!Ends(c)
  PROVE  v7' \in BOOLEAN /\ v8' \in [{1, 2} -> CallForms] /\ CallStage'
<1>1. /\ Roots!NoCall \in CallForms /\ Roots!NoCall.at = "none"
      /\ v8' = [v8 EXCEPT ![c] = Roots!NoCall] /\ v7' \in BOOLEAN /\ ~v7'
  BY DEF Roots!Ends, Roots!NoCall, CallForms
<1>2. PICK n \in CallForms : n = Roots!NoCall BY <1>1
<1>3. StageOf(n)' BY <1>1, <1>2 DEF StageOf
<1>4. v8' = [v8 EXCEPT ![c] = n] /\ (v7' <=> n.at # "none") BY <1>1, <1>2
<1> QED BY <1>1, <1>3, <1>4, CallMoves

\* What a call that goes on becomes.
LEMMA CallGoes ==
  ASSUME RootsInv, NEW c \in {1, 2}, v8[c].at # "none", NEW at, Roots!Goto(c, at), UNCHANGED v7,
         at \in {"inspect", "layout", "consume", "locator", "registry", "catalog", "artifacts", "save", "remove"}
  PROVE  \E x \in CallForms : /\ x.at = at /\ x.kind = v8[c].kind /\ x.roots = v8[c].roots
                              /\ x.use = v8[c].use /\ x.work = v8[c].work
                              /\ v8' = [v8 EXCEPT ![c] = x] /\ v7' \in BOOLEAN
                              /\ (v7' <=> x.at # "none") /\ StageOf(v8[c])
<1>1. v8 \in [{1, 2} -> CallForms] /\ v7 \in BOOLEAN /\ v7 /\ StageOf(v8[c])
  BY DEF RootsInv, RootsTypes, CallStage
<1> DEFINE x == [v8[c] EXCEPT !.at = at]
<1>2. /\ x \in CallForms /\ x.at = at /\ x.kind = v8[c].kind /\ x.roots = v8[c].roots
      /\ x.use = v8[c].use /\ x.work = v8[c].work
  BY <1>1 DEF CallForms
<1>3. v8' = [v8 EXCEPT ![c] = x] BY <1>1 DEF Roots!Goto
<1>4. at # "none" OBVIOUS
<1> HIDE DEF x
<1> QED BY <1>1, <1>2, <1>3, <1>4

\* The steps of a registration.
LEMMA RegisterSteps ==
  ASSUME RootsInv, NEW c \in {1, 2},
         \/ Roots!getState(c) \/ Roots!initializeDefaultRoots(c) \/ Roots!assertInitialSetup(c)
         \/ Roots!inspectRoots(c) \/ Roots!ensureRegistryDirectory(c) \/ Roots!consumeRoots(c)
         \/ \E use \in SUBSET Caps : use # {} /\ Roots!registerRoots(c, use)
  PROVE  RootsInv'
<1> USE RootsAssumption DEF Roots!Files
<1>0. /\ v8 \in [{1, 2} -> CallForms] /\ v7 \in BOOLEAN /\ StageOf(v8[c])
      /\ (v8[c].at # "none" => v7)
  BY DEF RootsInv, RootsTypes, CallStage
<1>a. ASSUME NEW x \in CallForms, Roots!runExclusive(c, x), x.at # "none", StageOf(x),
             UNCHANGED <<v1, v2, v3, v4, v5, v6, v9>>
      PROVE  RootsInv'
  <2>1. ~v7 /\ v7' \in BOOLEAN /\ v7' /\ v8' = [v8 EXCEPT ![c] = x] BY <1>a DEF Roots!runExclusive
  <2>2. StageOf(x)' BY <1>a DEF StageOf
  <2>3. v8' \in [{1, 2} -> CallForms] /\ CallStage' BY <1>a, <2>1, <2>2, CallMoves
  <2>4. RootsTypes' BY <1>a, <2>1, <2>3 DEF RootsInv, RootsTypes
  <2>5. RegistryKept' BY <1>a, RegistryStays
  <2> QED BY <2>3, <2>4, <2>5 DEF RootsInv
<1>b. ASSUME Roots!Ends(c), v8[c].at # "none", UNCHANGED <<v1, v2, v3, v4, v5, v6, v9>>
      PROVE  RootsInv'
  <2>1. v7' \in BOOLEAN /\ v8' \in [{1, 2} -> CallForms] /\ CallStage' BY <1>b, CallEnds
  <2>2. RootsTypes' BY <1>b, <2>1 DEF RootsInv, RootsTypes
  <2>3. RegistryKept' BY <1>b, RegistryStays
  <2> QED BY <2>1, <2>2, <2>3 DEF RootsInv
<1>d. Default \in RootSets BY DEF RootSets
<1>1. CASE Roots!getState(c)
  <2>1. UNCHANGED <<v1, v2, v3, v4, v5, v6, v9>> BY <1>1 DEF Roots!getState
  <2>2. CASE UNCHANGED <<v8, v7>>
    <3>1. RootsTypes' BY <2>1, <2>2 DEF RootsInv, RootsTypes
    <3> QED BY <2>1, <2>2, <3>1, StageStays, RegistryStays DEF RootsInv
  <2>3. CASE ~UNCHANGED <<v8, v7>>
    <3>1. Roots!runExclusive(c, [Roots!Defaults EXCEPT !.kind = "state"])
      BY <1>1, <2>3 DEF Roots!getState
    <3>2. PICK x : x = [Roots!Defaults EXCEPT !.kind = "state"] OBVIOUS
    <3>3. /\ x \in CallForms /\ x.at = "assertInitialSetup" /\ x.roots = Default
      BY <1>d, <3>2 DEF Roots!Defaults, Roots!NoCall, CallForms
    <3>4. StageOf(x) BY <3>3 DEF StageOf
    <3> QED BY <1>a, <2>1, <3>1, <3>2, <3>3, <3>4
  <2> QED BY <2>2, <2>3
<1>2. CASE Roots!initializeDefaultRoots(c)
  <2>1. Roots!runExclusive(c, Roots!Defaults) /\ UNCHANGED <<v1, v2, v3, v4, v5, v6, v9>>
    BY <1>2 DEF Roots!initializeDefaultRoots
  <2>2. PICK x : x = Roots!Defaults OBVIOUS
  <2>3. x \in CallForms /\ x.at = "assertInitialSetup" /\ x.roots = Default
    BY <1>d, <2>2 DEF Roots!Defaults, Roots!NoCall, CallForms
  <2>4. StageOf(x) BY <2>3 DEF StageOf
  <2> QED BY <1>a, <2>1, <2>2, <2>3, <2>4
<1>3. CASE Roots!assertInitialSetup(c)
  <2>1. v8[c].at = "assertInitialSetup" /\ UNCHANGED <<v1, v2, v3, v4, v5, v6, v9>>
    BY <1>3 DEF Roots!assertInitialSetup
  <2>2. CASE v1 = None
    <3>1. PICK at \in {"layout", "inspect"} :
            Roots!Goto(c, at) /\ UNCHANGED v7 /\ (at = "layout" => v8[c].use = {})
      BY <1>3, <2>2 DEF Roots!assertInitialSetup, Roots!missing_bootstrap_locator
    <3>2. PICK x \in CallForms : /\ x.at = at /\ x.roots = v8[c].roots /\ x.use = v8[c].use
                                 /\ v8' = [v8 EXCEPT ![c] = x] /\ v7' \in BOOLEAN /\ (v7' <=> x.at # "none")
      BY <2>1, <3>1, CallGoes
    <3>3. StageOf(x)' BY <1>0, <1>d, <2>1, <2>2, <3>1, <3>2 DEF StageOf
    <3>4. v8' \in [{1, 2} -> CallForms] /\ CallStage' BY <2>1, <3>2, <3>3, CallMoves
    <3>5. RootsTypes' BY <2>1, <3>2, <3>4 DEF RootsInv, RootsTypes
    <3>6. RegistryKept' BY <2>1, RegistryStays
    <3> QED BY <3>4, <3>5, <3>6 DEF RootsInv
  <2>3. CASE v1 # None
    <3>1. Roots!Ends(c) BY <1>3, <2>3 DEF Roots!assertInitialSetup, Roots!missing_bootstrap_locator
    <3> QED BY <1>b, <2>1, <3>1
  <2> QED BY <2>2, <2>3
<1>4. CASE Roots!inspectRoots(c)
  <2>1. v8[c].at = "inspect" /\ UNCHANGED <<v1, v2, v3, v4, v5, v6, v9>>
    BY <1>4 DEF Roots!inspectRoots
  <2> DEFINE good == \A k \in Roots!Kinds : \E cap \in v8[c].use : Roots!Held(cap, k)
             roots == [k \in Roots!Kinds |-> v6[Roots!Chosen(v8[c].use, k)].path]
  <2>2. CASE good
    <3>1. ASSUME NEW k \in Roots!Kinds PROVE v6[Roots!Chosen(v8[c].use, k)].path \in Paths
      <4>1. PICK cap \in v8[c].use : v6[cap].purpose = k BY <2>2 DEF Roots!Held
      <4>2. /\ Roots!Chosen(v8[c].use, k) \in v8[c].use
            /\ v6[Roots!Chosen(v8[c].use, k)].purpose = k
        BY <4>1 DEF Roots!Chosen
      <4>3. v8[c].use \subseteq Caps BY <1>0 DEF CallForms
      <4>4. k \in {"settings", "harness"} BY DEF Roots!Kinds
      <4> QED BY <4>2, <4>3, <4>4 DEF RootsInv, RootsTypes
    <3>2. roots \in RootSets BY <3>1 DEF RootSets, Roots!Kinds
    <3> DEFINE x == [v8[c] EXCEPT !.at = "layout", !.roots = roots]
    <3>3. v8' = [v8 EXCEPT ![c] = x] /\ UNCHANGED v7 BY <1>4, <2>2 DEF Roots!inspectRoots
    <3> HIDE DEF roots
    <3>4. x \in CallForms /\ x.at = "layout" /\ x.roots = roots BY <1>0, <3>2 DEF CallForms
    <3> HIDE DEF x
    <3>5. PICK y \in CallForms : y = x BY <3>4
    <3>6. StageOf(y)' BY <1>0, <2>1, <3>2, <3>4, <3>5 DEF StageOf
    <3>7. v8' \in [{1, 2} -> CallForms] /\ CallStage'
      BY <1>0, <2>1, <3>3, <3>4, <3>5, <3>6, CallMoves
    <3>8. RootsTypes' BY <1>0, <2>1, <3>3, <3>7 DEF RootsInv, RootsTypes
    <3>9. RegistryKept' BY <2>1, RegistryStays
    <3> QED BY <3>7, <3>8, <3>9 DEF RootsInv
  <2>3. CASE ~good
    <3>1. Roots!Ends(c) BY <1>4, <2>3 DEF Roots!inspectRoots
    <3> QED BY <1>b, <2>1, <3>1
  <2> QED BY <2>2, <2>3
<1>5. CASE Roots!ensureRegistryDirectory(c)
  <2>1. v8[c].at = "layout" /\ UNCHANGED <<v1, v2, v3, v5, v6, v9>>
    BY <1>5 DEF Roots!ensureRegistryDirectory
  <2>2. v8[c].roots \in RootSets BY <1>0, <2>1 DEF StageOf
  <2>3. CASE Roots!Ends(c) /\ UNCHANGED v4 BY <1>b, <2>1, <2>3
  <2>4. CASE v4' = v4 \cup {v8[c].roots.settings} /\ Roots!Goto(c, "consume") /\ UNCHANGED v7
    <3>1. PICK x \in CallForms : /\ x.at = "consume" /\ x.roots = v8[c].roots
                                 /\ v8' = [v8 EXCEPT ![c] = x] /\ v7' \in BOOLEAN /\ (v7' <=> x.at # "none")
      BY <2>1, <2>4, CallGoes
    <3>2. StageOf(x)' BY <1>0, <2>1, <2>2, <3>1 DEF StageOf
    <3>3. v8' \in [{1, 2} -> CallForms] /\ CallStage' BY <2>1, <3>1, <3>2, CallMoves
    <3>4. v4' \subseteq Paths BY <2>2, <2>4, SettingsIsPath DEF RootsInv, RootsTypes
    <3>5. RootsTypes' BY <2>1, <3>1, <3>3, <3>4 DEF RootsInv, RootsTypes
    <3>6. RegistryKept' BY <2>1, RegistryStays
    <3> QED BY <3>3, <3>5, <3>6 DEF RootsInv
  <2> QED BY <1>5, <2>3, <2>4 DEF Roots!ensureRegistryDirectory
<1>6. CASE Roots!consumeRoots(c)
  <2> DEFINE held == {cap \in v8[c].use : v6[cap] # Roots!Spent}
  <2>1. /\ v8[c].at = "consume" /\ UNCHANGED <<v1, v2, v3, v4, v5, v9>>
        /\ v6' = [cap \in Caps |-> IF cap \in held THEN Roots!Spent ELSE v6[cap]]
    BY <1>6 DEF Roots!consumeRoots
  <2>2. /\ v6' \in [Caps -> [purpose : {"none", "spent", "settings", "harness", "workspace"},
                             path : Paths \cup {<<>>}]]
        /\ \A k \in Caps : v6'[k] = v6[k] \/ v6'[k].purpose = "spent"
    <3> HIDE DEF held
    <3> QED BY <2>1 DEF RootsInv, RootsTypes, Roots!Spent
  <2>3. RegistryKept' BY <2>1, <2>2, RegistryStays
  <2>4. CASE held = v8[c].use
    <3>1. Roots!Goto(c, "locator") /\ UNCHANGED v7 BY <1>6, <2>4 DEF Roots!consumeRoots
    <3>2. PICK x \in CallForms : /\ x.at = "locator" /\ x.roots = v8[c].roots
                                 /\ v8' = [v8 EXCEPT ![c] = x] /\ v7' \in BOOLEAN /\ (v7' <=> x.at # "none")
      BY <2>1, <3>1, CallGoes
    <3>3. StageOf(x)' BY <1>0, <2>1, <3>2 DEF StageOf
    <3>4. v8' \in [{1, 2} -> CallForms] /\ CallStage' BY <2>1, <3>2, <3>3, CallMoves
    <3>5. RootsTypes' BY <2>1, <2>2, <3>2, <3>4 DEF RootsInv, RootsTypes
    <3> QED BY <2>3, <3>4, <3>5 DEF RootsInv
  <2>5. CASE held # v8[c].use
    <3>1. Roots!Ends(c) BY <1>6, <2>5 DEF Roots!consumeRoots
    <3>2. v7' \in BOOLEAN /\ v8' \in [{1, 2} -> CallForms] /\ CallStage' BY <2>1, <3>1, CallEnds
    <3>3. RootsTypes' BY <2>1, <2>2, <3>2 DEF RootsInv, RootsTypes
    <3> QED BY <2>3, <3>2, <3>3 DEF RootsInv
  <2> QED BY <2>4, <2>5
<1>7. ASSUME NEW use \in SUBSET Caps, use # {}, Roots!registerRoots(c, use) PROVE RootsInv'
  <2> DEFINE x == [Roots!NoCall EXCEPT !.kind = "register", !.at = "assertInitialSetup", !.use = use]
  <2>1. Roots!runExclusive(c, x) /\ UNCHANGED <<v1, v2, v3, v4, v5, v6, v9>>
    BY <1>7 DEF Roots!registerRoots
  <2>2. x \in CallForms /\ x.at = "assertInitialSetup" /\ x.use = use
    BY DEF Roots!NoCall, CallForms
  <2> HIDE DEF x
  <2>3. StageOf(x) BY <1>7, <2>2 DEF StageOf
  <2> QED BY <1>a, <2>1, <2>2, <2>3
<1> QED BY <1>1, <1>2, <1>3, <1>4, <1>5, <1>6, <1>7

\* The three files of a registration.
LEMMA SaveSteps ==
  ASSUME RootsInv, NEW c \in {1, 2}, NEW ok \in BOOLEAN, NEW done \in BOOLEAN,
         Roots!saveLocator(c, ok, done) \/ Roots!saveRegistry(c, ok, done) \/ Roots!saveCatalog(c, ok, done)
  PROVE  RootsInv'
<1> USE RootsAssumption DEF Roots!Files
<1>0. /\ v8 \in [{1, 2} -> CallForms] /\ v7 \in BOOLEAN /\ StageOf(v8[c])
  BY DEF RootsInv, RootsTypes, CallStage
<1>1. PICK s : s = v8[c].roots.settings OBVIOUS
<1>2. ASSUME v8[c].at \in {"locator", "registry", "catalog"} PROVE s \in Paths
  BY <1>0, <1>1, <1>2, SettingsIsPath DEF StageOf
<1>3. CASE Roots!saveLocator(c, ok, done)
  <2>1. /\ v8[c].at = "locator" /\ (ok => done) /\ v1 = None /\ v1' = (IF done THEN s ELSE v1)
        /\ UNCHANGED <<v2, v3, v4, v5, v6, v9>> /\ \A p \in Paths : v2[p] = None
    BY <1>0, <1>1, <1>3 DEF Roots!saveLocator, StageOf, RootsInv, RegistryKept
  <2>2. v1' \in Paths \cup {None} BY <1>2, <2>1
  <2>3. RegistryKept' BY <2>1, RegistryStays
  <2>4. CASE ok
    <3>1. Roots!Goto(c, "registry") /\ UNCHANGED v7 BY <1>3, <2>4 DEF Roots!saveLocator
    <3>2. PICK x \in CallForms : /\ x.at = "registry" /\ x.roots = v8[c].roots
                                 /\ v8' = [v8 EXCEPT ![c] = x] /\ v7' \in BOOLEAN /\ (v7' <=> x.at # "none")
      BY <2>1, <3>1, CallGoes
    <3>3. x.roots \in RootSets /\ x.roots.settings = s BY <1>0, <1>1, <2>1, <3>2 DEF StageOf
    <3>4. StageOf(x)' BY <2>1, <2>4, <3>2, <3>3 DEF StageOf
    <3>5. v8' \in [{1, 2} -> CallForms] /\ CallStage' BY <2>1, <3>2, <3>4, CallMoves
    <3>6. RootsTypes' BY <2>1, <2>2, <3>2, <3>5 DEF RootsInv, RootsTypes
    <3> QED BY <2>3, <3>5, <3>6 DEF RootsInv
  <2>5. CASE ~ok
    <3>1. Roots!Ends(c) BY <1>3, <2>5 DEF Roots!saveLocator
    <3>2. v7' \in BOOLEAN /\ v8' \in [{1, 2} -> CallForms] /\ CallStage' BY <2>1, <3>1, CallEnds
    <3>3. RootsTypes' BY <2>1, <2>2, <3>2 DEF RootsInv, RootsTypes
    <3> QED BY <2>3, <3>2, <3>3 DEF RootsInv
  <2> QED BY <2>4, <2>5
<1>4. CASE Roots!saveRegistry(c, ok, done)
  <2> DEFINE r == [roots |-> v8[c].roots, works |-> {}]
  <2>1. /\ v8[c].at = "registry" /\ (ok => done) /\ UNCHANGED <<v1, v3, v4, v5, v6, v9>>
        /\ v8[c].roots \in RootSets /\ v1 = s /\ \A p \in Paths : v2[p] = None
        /\ v2' = IF done THEN [v2 EXCEPT ![s] = r] ELSE v2
    BY <1>0, <1>1, <1>4 DEF Roots!saveRegistry, StageOf
  <2>2. s \in Paths BY <1>2, <2>1
  <2>3. r.roots = v8[c].roots /\ r.works = {} /\ r \in [roots : RootSets, works : SUBSET Works]
    BY <2>1
  <2>4. /\ v2' \in [Paths -> [roots : RootSets, works : SUBSET Works] \cup {None}]
        /\ \A p \in Paths : v2'[p] = None \/ (p = s /\ v2'[p] = r)
    <3>1. v2 \in [Paths -> [roots : RootSets, works : SUBSET Works] \cup {None}]
      BY DEF RootsInv, RootsTypes
    <3> DEFINE R == [roots : RootSets, works : SUBSET Works] \cup {None}
    <3>2. r \in R BY <2>3
    <3> HIDE DEF r, R
    <3>3. v2 \in [Paths -> R] BY <3>1 DEF R
    <3>4. v2' \in [Paths -> R] BY <2>1, <2>2, <3>2, <3>3
    <3> QED BY <2>1, <2>2, <3>2, <3>3, <3>4 DEF R
  <2>5. RegistryKept'
    <3>1. Roots!RootsAreConsistent'
      <4> SUFFICES ASSUME NEW p \in Paths, v2'[p] # None
                   PROVE  v1' = p /\ v2'[p].roots.settings = p /\ v2'[p].works = {}
        BY DEF Roots!RootsAreConsistent
      <4>1. p = s /\ v2'[p] = r BY <2>4
      <4> HIDE DEF r
      <4> QED BY <1>1, <2>1, <2>3, <4>1
    <3> HIDE DEF r
    <3>2. v1' # None BY <2>1, <2>2
    <3>3. \A p \in Paths : v2'[p] # None => v2'[p].works = {} BY <2>3, <2>4
    <3> QED BY <3>1, <3>2, <3>3 DEF RegistryKept
  <2> HIDE DEF r
  <2>6. CASE ok
    <3>1. Roots!Goto(c, "catalog") /\ UNCHANGED v7 BY <1>4, <2>6 DEF Roots!saveRegistry
    <3>2. PICK x \in CallForms : /\ x.at = "catalog" /\ x.roots = v8[c].roots
                                 /\ v8' = [v8 EXCEPT ![c] = x] /\ v7' \in BOOLEAN /\ (v7' <=> x.at # "none")
      BY <2>1, <3>1, CallGoes
    <3>3. StageOf(x)' BY <2>1, <3>2 DEF StageOf
    <3>4. v8' \in [{1, 2} -> CallForms] /\ CallStage' BY <2>1, <3>2, <3>3, CallMoves
    <3>5. RootsTypes' BY <2>1, <2>4, <3>2, <3>4 DEF RootsInv, RootsTypes
    <3> QED BY <2>5, <3>4, <3>5 DEF RootsInv
  <2>7. CASE ~ok
    <3>1. Roots!Ends(c) BY <1>4, <2>7 DEF Roots!saveRegistry
    <3>2. v7' \in BOOLEAN /\ v8' \in [{1, 2} -> CallForms] /\ CallStage' BY <2>1, <3>1, CallEnds
    <3>3. RootsTypes' BY <2>1, <2>4, <3>2 DEF RootsInv, RootsTypes
    <3> QED BY <2>5, <3>2, <3>3 DEF RootsInv
  <2> QED BY <2>6, <2>7
<1>5. CASE Roots!saveCatalog(c, ok, done)
  <2>1. /\ v8[c].at = "catalog" /\ Roots!Ends(c) /\ UNCHANGED <<v1, v2, v4, v5, v6, v9>>
        /\ v3' = IF done THEN v3 \cup {s} ELSE v3
    BY <1>1, <1>5 DEF Roots!saveCatalog
  <2>2. v7' \in BOOLEAN /\ v8' \in [{1, 2} -> CallForms] /\ CallStage' BY <2>1, CallEnds
  <2>3. v3' \subseteq Paths BY <1>2, <2>1 DEF RootsInv, RootsTypes
  <2>4. RootsTypes' BY <2>1, <2>2, <2>3 DEF RootsInv, RootsTypes
  <2>5. RegistryKept' BY <2>1, RegistryStays
  <2> QED BY <2>2, <2>4, <2>5 DEF RootsInv
<1> QED BY <1>3, <1>4, <1>5

\* The steps of a workspace.
LEMMA WorkspaceSteps ==
  ASSUME RootsInv, NEW c \in {1, 2},
         \/ Roots!removeManagedWorkspaceDirectories(c)
         \/ \E cap \in Caps : Roots!createWorkspace(c, cap)
         \/ \E ok \in BOOLEAN : \/ Roots!createManagedWorkspaceDirectories(c, ok)
                               \/ Roots!createDesktopWorkspaceProfileArtifacts(c, ok)
         \/ \E ok, done \in BOOLEAN : Roots!commitWorkspace(c, ok, done)
  PROVE  RootsInv'
<1> USE RootsAssumption DEF Roots!Files
<1>0. /\ v8 \in [{1, 2} -> CallForms] /\ v7 \in BOOLEAN /\ StageOf(v8[c])
  BY DEF RootsInv, RootsTypes, CallStage
<1>1. CASE Roots!removeManagedWorkspaceDirectories(c)
  <2>1. /\ v8[c].at = "remove" /\ Roots!Ends(c) /\ v5' = v5 \ {v8[c].work.id}
        /\ UNCHANGED <<v1, v2, v3, v4, v6, v9>>
    BY <1>1 DEF Roots!removeManagedWorkspaceDirectories
  <2>2. v7' \in BOOLEAN /\ v8' \in [{1, 2} -> CallForms] /\ CallStage' BY <2>1, CallEnds
  <2>3. RootsTypes' BY <2>1, <2>2 DEF RootsInv, RootsTypes
  <2>4. v1 \in Paths /\ (v9 \/ \A w \in v2[v1].works : w.id # v8[c].work.id)
    BY <1>0, <2>1 DEF StageOf
  <2>5. Roots!RootsAreConsistent'
    <3>1. CASE v9 BY <2>1, <3>1 DEF RootsInv, RegistryKept, Roots!RootsAreConsistent
    <3>2. CASE ~v9 BY <2>1, <2>4, <3>2 DEF RootsInv, RegistryKept, Roots!RootsAreConsistent
    <3> QED BY <3>1, <3>2
  <2>6. RegistryKept' BY <2>1, <2>5 DEF RootsInv, RegistryKept
  <2> QED BY <2>2, <2>3, <2>6 DEF RootsInv
<1>2. ASSUME NEW cap \in Caps, Roots!createWorkspace(c, cap) PROVE RootsInv'
  <2>1. PICK w : w = [id |-> cap, path |-> v6[cap].path] OBVIOUS
  <2> DEFINE x == [Roots!NoCall EXCEPT !.kind = "workspace", !.at = "directories", !.use = {cap}, !.work = w]
  <2>2. /\ Roots!Ready /\ v6[cap].purpose = "workspace" /\ Roots!runExclusive(c, x)
        /\ v6' = [v6 EXCEPT ![cap] = Roots!Spent] /\ UNCHANGED <<v1, v2, v3, v4, v5, v9>>
    BY <1>2, <2>1 DEF Roots!createWorkspace, Roots!Held
  <2>3. w \in Works /\ w.id = cap BY <2>1, <2>2 DEF RootsInv, RootsTypes, Works
  <2>4. x \in CallForms /\ x.at = "directories" /\ x.work = w BY <2>3 DEF CallForms, Roots!NoCall
  <2> HIDE DEF x
  <2>5. ~v7 /\ v7' \in BOOLEAN /\ v7' /\ v8' = [v8 EXCEPT ![c] = x] BY <2>2 DEF Roots!runExclusive
  <2>6. /\ v6' \in [Caps -> [purpose : {"none", "spent", "settings", "harness", "workspace"},
                             path : Paths \cup {<<>>}]]
        /\ v6'[cap].purpose = "spent" /\ \A k \in Caps : v6'[k] = v6[k] \/ v6'[k].purpose = "spent"
    BY <2>2 DEF RootsInv, RootsTypes, Roots!Spent
  <2>7. v1 \in Paths /\ v2[v1] # None
    BY <2>2 DEF Roots!Ready, Roots!missing_bootstrap_locator, Roots!missing_registry, RootsInv, RootsTypes
  <2>8. \A u \in v2[v1].works : u.id # cap
    BY <2>2, <2>7 DEF RootsInv, RegistryKept
  <2>9. PICK y \in CallForms : y = x BY <2>4
  <2>10. StageOf(y)' BY <2>2, <2>3, <2>4, <2>6, <2>7, <2>8, <2>9 DEF StageOf
  <2>11. v8' \in [{1, 2} -> CallForms] /\ CallStage' BY <2>4, <2>5, <2>9, <2>10, CallMoves
  <2>12. RootsTypes' BY <2>2, <2>5, <2>6, <2>11 DEF RootsInv, RootsTypes
  <2>13. RegistryKept' BY <2>2, <2>6, RegistryStays
  <2> QED BY <2>11, <2>12, <2>13 DEF RootsInv
<1>3. ASSUME NEW ok \in BOOLEAN, Roots!createManagedWorkspaceDirectories(c, ok) PROVE RootsInv'
  <2>1. v8[c].at = "directories" /\ UNCHANGED <<v1, v2, v3, v4, v6, v9>>
    BY <1>3 DEF Roots!createManagedWorkspaceDirectories
  <2>2. v8[c].work \in Works BY <1>0, <2>1 DEF StageOf
  <2>3. CASE ok
    <3>1. v5' = v5 \cup {v8[c].work.id} /\ Roots!Goto(c, "artifacts") /\ UNCHANGED v7
      BY <1>3, <2>3 DEF Roots!createManagedWorkspaceDirectories
    <3>2. PICK x \in CallForms : /\ x.at = "artifacts" /\ x.work = v8[c].work
                                 /\ v8' = [v8 EXCEPT ![c] = x] /\ v7' \in BOOLEAN /\ (v7' <=> x.at # "none")
      BY <2>1, <3>1, CallGoes
    <3>3. StageOf(x)' BY <1>0, <2>1, <3>1, <3>2 DEF StageOf
    <3>4. v8' \in [{1, 2} -> CallForms] /\ CallStage' BY <2>1, <3>2, <3>3, CallMoves
    <3>5. RootsTypes' BY <2>1, <2>2, <3>1, <3>2, <3>4 DEF RootsInv, RootsTypes, Works
    <3>6. RegistryKept' BY <2>1, <3>1, RegistryStays
    <3> QED BY <3>4, <3>5, <3>6 DEF RootsInv
  <2>4. CASE ~ok
    <3>1. Roots!Ends(c) /\ UNCHANGED v5 BY <1>3, <2>4 DEF Roots!createManagedWorkspaceDirectories
    <3>2. v7' \in BOOLEAN /\ v8' \in [{1, 2} -> CallForms] /\ CallStage' BY <2>1, <3>1, CallEnds
    <3>3. RootsTypes' BY <2>1, <3>1, <3>2 DEF RootsInv, RootsTypes
    <3>4. RegistryKept' BY <2>1, <3>1, RegistryStays
    <3> QED BY <3>2, <3>3, <3>4 DEF RootsInv
  <2> QED BY <2>3, <2>4
<1>4. ASSUME NEW ok \in BOOLEAN, Roots!createDesktopWorkspaceProfileArtifacts(c, ok) PROVE RootsInv'
  <2>1. /\ v8[c].at = "artifacts" /\ UNCHANGED <<v1, v2, v3, v4, v5, v6, v7, v9>>
    BY <1>4 DEF Roots!createDesktopWorkspaceProfileArtifacts
  <2>2. PICK at \in {"save", "remove"} : Roots!Goto(c, at)
    BY <1>4 DEF Roots!createDesktopWorkspaceProfileArtifacts
  <2>3. PICK x \in CallForms : /\ x.at = at /\ x.work = v8[c].work
                               /\ v8' = [v8 EXCEPT ![c] = x] /\ v7' \in BOOLEAN /\ (v7' <=> x.at # "none")
    BY <2>1, <2>2, CallGoes
  <2>4. StageOf(x)' BY <1>0, <2>1, <2>3 DEF StageOf
  <2>5. v8' \in [{1, 2} -> CallForms] /\ CallStage' BY <2>1, <2>3, <2>4, CallMoves
  <2>6. RootsTypes' BY <2>1, <2>3, <2>5 DEF RootsInv, RootsTypes
  <2>7. RegistryKept' BY <2>1, RegistryStays
  <2> QED BY <2>5, <2>6, <2>7 DEF RootsInv
<1>5. ASSUME NEW ok \in BOOLEAN, NEW done \in BOOLEAN, Roots!commitWorkspace(c, ok, done) PROVE RootsInv'
  <2>1. PICK w : w = v8[c].work OBVIOUS
  <2>2. /\ v8[c].at = "save" /\ w \in Works /\ v1 \in Paths /\ v2[v1] # None /\ w.id \in v5
        /\ v6[w.id].purpose = "spent" /\ \A u \in v2[v1].works : u.id # w.id
    BY <1>0, <1>5, <2>1 DEF StageOf, Roots!commitWorkspace
  <2> DEFINE next == [v2[v1] EXCEPT !.works = @ \cup {w}]
  <2>3. /\ (ok => done) /\ (done => Roots!validateManagedRootRegistry(next))
        /\ v2' = (IF done THEN [v2 EXCEPT ![v1] = next] ELSE v2)
        /\ v9' = (v9 \/ (done /\ ~ok)) /\ UNCHANGED <<v1, v3, v4, v5, v6>>
    BY <1>5, <2>1 DEF Roots!commitWorkspace
  <2>4. v2[v1] \in [roots : RootSets, works : SUBSET Works] BY <2>2 DEF RootsInv, RootsTypes
  <2>5. /\ next \in [roots : RootSets, works : SUBSET Works]
        /\ next.roots = v2[v1].roots /\ next.works = v2[v1].works \cup {w}
    BY <2>2, <2>4
  <2> HIDE DEF next
  <2>6. v9' \in BOOLEAN /\ (v9 => v9') BY <2>3 DEF RootsInv, RootsTypes
  <2>7. CASE done
    <3>1. /\ v2' \in [Paths -> [roots : RootSets, works : SUBSET Works] \cup {None}]
          /\ v2'[v1] = next /\ \A p \in Paths : p # v1 => v2'[p] = v2[p]
      <4> DEFINE R == [roots : RootSets, works : SUBSET Works] \cup {None}
      <4>1. v2 \in [Paths -> R] /\ next \in R BY <2>5 DEF RootsInv, RootsTypes
      <4> HIDE DEF R
      <4>2. v2' = [v2 EXCEPT ![v1] = next] BY <2>3, <2>7
      <4>3. v2' \in [Paths -> R] /\ v2'[v1] = next /\ \A p \in Paths : p # v1 => v2'[p] = v2[p]
        BY <2>2, <4>1, <4>2
      <4> QED BY <4>3 DEF R
    <3>2. \A p \in Paths : v2[p] # None => p = v1 /\ v2[p].roots.settings = p
      BY DEF RootsInv, RegistryKept, Roots!RootsAreConsistent
    <3>4. \A p \in Paths : v2'[p] # None => p = v1 BY <3>1, <3>2
    <3>5. Roots!RootsAreConsistent'
      <4> SUFFICES ASSUME NEW u \in next.works
                   PROVE  /\ \A q \in {next.roots[k] : k \in Roots!Kinds} \cup {v.path : v \in next.works \ {u}} :
                                ~Roots!pathsOverlap(q, u.path)
                          /\ v9' \/ u.id \in v5
        BY <2>2, <2>3, <2>5, <3>1, <3>2, <3>4 DEF Roots!RootsAreConsistent
      <4>1. \A k \in Roots!Kinds : ~Roots!pathsOverlap(next.roots[k], u.path)
        BY <2>3, <2>7 DEF Roots!validateManagedRootRegistry, Roots!assertWorkspaceBinding
      <4>2. \A v \in next.works \ {u} : ~Roots!pathsOverlap(v.path, u.path)
        BY <2>3, <2>7 DEF Roots!validateManagedRootRegistry, Roots!assertWorkspacesDoNotOverlap
      <4>3. v9 \/ u.id \in v5
        BY <2>2, <2>5 DEF RootsInv, RegistryKept, Roots!RootsAreConsistent
      <4> QED BY <2>6, <4>1, <4>2, <4>3
    <3>6. RegistryKept'
      <4>1. v1' # None BY <2>2, <2>3
      <4>2. \A u \in next.works : v6[u.id].purpose = "spent" BY <2>2, <2>5 DEF RootsInv, RegistryKept
      <4> QED BY <2>3, <3>1, <3>4, <3>5, <4>1, <4>2 DEF RegistryKept
    <3>7. CASE ok
      <4>1. Roots!Ends(c) BY <1>5, <3>7 DEF Roots!commitWorkspace
      <4>2. v7' \in BOOLEAN /\ v8' \in [{1, 2} -> CallForms] /\ CallStage' BY <2>2, <4>1, CallEnds
      <4>3. RootsTypes' BY <2>3, <2>6, <3>1, <4>2 DEF RootsInv, RootsTypes
      <4> QED BY <3>6, <4>2, <4>3 DEF RootsInv
    <3>8. CASE ~ok
      <4>1. Roots!Goto(c, "remove") /\ UNCHANGED v7 BY <1>5, <3>8 DEF Roots!commitWorkspace
      <4>2. PICK x \in CallForms : /\ x.at = "remove" /\ x.work = w
                                   /\ v8' = [v8 EXCEPT ![c] = x] /\ v7' \in BOOLEAN /\ (v7' <=> x.at # "none")
        BY <2>1, <2>2, <4>1, CallGoes
      <4>3. v9' BY <2>3, <2>7, <3>8
      <4>4. StageOf(x)' BY <2>2, <2>3, <4>2, <4>3 DEF StageOf
      <4>5. v8' \in [{1, 2} -> CallForms] /\ CallStage' BY <2>2, <4>2, <4>4, CallMoves
      <4>6. RootsTypes' BY <2>3, <2>6, <3>1, <4>2, <4>5 DEF RootsInv, RootsTypes
      <4> QED BY <3>6, <4>5, <4>6 DEF RootsInv
    <3> QED BY <3>7, <3>8
  <2>8. CASE ~done
    <3>1. v2' = v2 /\ ~ok BY <2>3, <2>8
    <3>2. Roots!Goto(c, "remove") /\ UNCHANGED v7 BY <1>5, <3>1 DEF Roots!commitWorkspace
    <3>3. PICK x \in CallForms : /\ x.at = "remove" /\ x.work = w
                                 /\ v8' = [v8 EXCEPT ![c] = x] /\ v7' \in BOOLEAN /\ (v7' <=> x.at # "none")
      BY <2>1, <2>2, <3>2, CallGoes
    <3>4. StageOf(x)' BY <2>2, <2>3, <3>1, <3>3 DEF StageOf
    <3>5. v8' \in [{1, 2} -> CallForms] /\ CallStage' BY <2>2, <3>3, <3>4, CallMoves
    <3>6. RootsTypes' BY <2>3, <2>6, <3>1, <3>3, <3>5 DEF RootsInv, RootsTypes
    <3>7. RegistryKept' BY <2>3, <2>6, <3>1, RegistryStays
    <3> QED BY <3>5, <3>6, <3>7 DEF RootsInv
  <2> QED BY <2>7, <2>8
<1> QED BY <1>1, <1>2, <1>3, <1>4, <1>5

\* The instance counts as the library does.
LEMMA RootsCardinality == ASSUME NEW S PROVE Roots!Cardinality(S) = Cardinality(S)
BY DEF Roots!Cardinality, Cardinality

\* Every step keeps it.
LEMMA RootsSteps == ASSUME RootsInv, Roots!Next PROVE RootsInv'
<1>1. ASSUME NEW use \in SUBSET Caps, Cardinality(use) = Cardinality(Roots!Kinds) PROVE use # {}
  <2>1. IsFiniteSet(Roots!Kinds) /\ Roots!Kinds # {}
    <3>1. IsFiniteSet({"settings"}) BY FS_Singleton
    <3>2. IsFiniteSet({"settings"} \cup {"harness"}) BY <3>1, FS_AddElement
    <3>3. Roots!Kinds = {"settings"} \cup {"harness"} BY DEF Roots!Kinds
    <3> QED BY <3>2, <3>3
  <2> QED BY <1>1, <2>1, FS_EmptySet
<1>2. Roots!Kinds \cup {"workspace"} = {"settings", "harness", "workspace"} BY DEF Roots!Kinds
<1>3. CASE \/ Roots!Crash
           \/ \E cap \in Caps : Roots!Expire(cap)
           \/ \E cap \in Caps, purpose \in Roots!Kinds \cup {"workspace"}, p \in Paths :
                Roots!selectDirectory(cap, purpose, p)
  BY <1>2, <1>3, SelectionSteps
<1>4. ASSUME NEW c \in {1, 2},
             \/ Roots!getState(c) \/ Roots!initializeDefaultRoots(c) \/ Roots!assertInitialSetup(c)
             \/ Roots!inspectRoots(c) \/ Roots!ensureRegistryDirectory(c) \/ Roots!consumeRoots(c)
             \/ \E use \in SUBSET Caps :
                  Roots!Cardinality(use) = Roots!Cardinality(Roots!Kinds) /\ Roots!registerRoots(c, use)
      PROVE  RootsInv'
  BY <1>1, <1>4, RootsCardinality, RegisterSteps
<1>5. ASSUME NEW c \in {1, 2}, NEW ok \in BOOLEAN, NEW done \in BOOLEAN,
             Roots!saveLocator(c, ok, done) \/ Roots!saveRegistry(c, ok, done) \/ Roots!saveCatalog(c, ok, done)
      PROVE  RootsInv'
  BY <1>5, SaveSteps
<1>6. ASSUME NEW c \in {1, 2},
             \/ Roots!removeManagedWorkspaceDirectories(c)
             \/ \E cap \in Caps : Roots!createWorkspace(c, cap)
             \/ \E ok \in BOOLEAN : \/ Roots!createManagedWorkspaceDirectories(c, ok)
                                   \/ Roots!createDesktopWorkspaceProfileArtifacts(c, ok)
             \/ \E ok, done \in BOOLEAN : Roots!commitWorkspace(c, ok, done)
      PROVE  RootsInv'
  BY <1>6, WorkspaceSteps
<1>7. CASE \E c \in {1, 2} :
           \/ Roots!getState(c) \/ Roots!initializeDefaultRoots(c) \/ Roots!assertInitialSetup(c)
           \/ Roots!inspectRoots(c) \/ Roots!ensureRegistryDirectory(c) \/ Roots!consumeRoots(c)
           \/ Roots!removeManagedWorkspaceDirectories(c)
           \/ \E use \in SUBSET Caps :
                Roots!Cardinality(use) = Roots!Cardinality(Roots!Kinds) /\ Roots!registerRoots(c, use)
           \/ \E cap \in Caps : Roots!createWorkspace(c, cap)
           \/ \E ok \in BOOLEAN : \/ Roots!createManagedWorkspaceDirectories(c, ok)
                                 \/ Roots!createDesktopWorkspaceProfileArtifacts(c, ok)
           \/ \E ok, done \in BOOLEAN :
                \/ Roots!saveLocator(c, ok, done) \/ Roots!saveRegistry(c, ok, done)
                \/ Roots!saveCatalog(c, ok, done) \/ Roots!commitWorkspace(c, ok, done)
  BY <1>4, <1>5, <1>6, <1>7, Zenon
<1> QED BY <1>3, <1>7, Zenon DEF Roots!Next, Roots!CallSlots

-----------------------------------------------------------------------------
(* Managed installations. *)

\* What a toolchain, a record of the catalog and an operation look like.
InstalledTools == [node : Nat, pnpm : Nat, launcher : Nat]
InstalledCommits == {r.commit : r \in Revisions}
InstalledRecords ==
  [tool : InstalledTools, kind : {r.kind : r \in Revisions}, commit : InstalledCommits, tag : BOOLEAN]
InstalledOps ==
  [kind : {"none", "register", "install", "switch", "start", "stop"},
   at : {"none", "git", "node", "pnpm", "save", "checkout", "preflight", "packages", "verify",
         "launch", "stop"},
   who : Installs \cup {None}, rev : Revisions \cup {None}, tool : InstalledTools]

\* What an operation rests on at each of its steps: it has the catalog to itself,
\* so what it was admitted for is still so when it gets to its end.
InstalledStages ==
  /\ v9.kind = "none" => v9.at = "none"
  /\ v9.kind = "register" => v9.at \in {"git", "node", "pnpm", "save"}
  /\ v9.kind = "stop" => v9.at = "stop" /\ v9.who \in Installs
  /\ v9.kind = "start" => /\ v9.at \in {"verify", "preflight", "packages", "launch"}
                          /\ v9.who \in Installs /\ v4[v9.who] # None
  /\ v9.kind \in {"install", "switch"} =>
       /\ v9.at \in {"checkout", "preflight", "packages", "save"}
       /\ v9.who \in Installs /\ v9.rev \in Revisions
       /\ v9.at # "checkout" => <<v9.who, v9.rev.commit>> \in v5
  /\ v9.kind = "install" => v4[v9.who] = None /\ v9.tool \in v3
  /\ v9.kind = "switch" => v4[v9.who] # None /\ v7[v9.who].state # "running"

\* The invariant.
InstalledInv ==
  /\ Installed!TypeOK /\ Installed!RunsWhatIsRecorded
  /\ v3 \subseteq InstalledTools /\ v4 \in [Installs -> InstalledRecords \cup {None}]
  /\ v9 \in InstalledOps /\ InstalledStages

\* Nothing is installed at the start.
LEMMA InstalledStarts == ASSUME Installed!Init PROVE InstalledInv
BY InstallsAssumption
   DEF Installed!Init, InstalledInv, Installed!TypeOK, Installed!RunsWhatIsRecorded, InstalledTools,
       InstalledOps, InstalledStages, Installed!NoOp, Installed!NoTool, Installed!NoChild,
       Installed!ExecutableKinds

\* An operation that ends leaves nothing behind it.
LEMMA InstalledEnds == ASSUME Installed!Ends PROVE v9' \in InstalledOps /\ InstalledStages'
BY DEF Installed!Ends, InstalledOps, InstalledStages, Installed!NoOp, Installed!NoTool, InstalledTools

\* One that goes on stays of its kind.
LEMMA InstalledGoes ==
  ASSUME v9 \in InstalledOps, NEW at, Installed!Goto(at)
  PROVE  /\ v9'.at = at /\ v9'.kind = v9.kind /\ v9'.who = v9.who /\ v9'.rev = v9.rev
         /\ v9'.tool = v9.tool
         /\ at \in {"save", "preflight", "packages", "launch"} => v9' \in InstalledOps
BY DEF Installed!Goto, InstalledOps

\* Selecting and replacing executables, asking for the state, and an exit.
LEMMA InstalledOutside ==
  ASSUME InstalledInv,
         \/ Installed!ReplaceExecutables
         \/ \E k \in Installed!ExecutableKinds : Installed!selectExecutable(k) \/ Installed!Expire(k)
         \/ \E i \in Installs : Installed!projectInstallationsState(i) \/ Installed!ChildExits(i)
  PROVE  InstalledInv'
<1>1. CASE Installed!ReplaceExecutables
  <2>1. PICK k \in DOMAIN v2 : v2.node + v2.pnpm < MaxExe /\ v2' = [v2 EXCEPT ![k] = @ + 1]
    BY <1>1 DEF Installed!ReplaceExecutables
  <2>2. v2' \in [{"node", "pnpm"} -> 1..MaxExe]
    BY <2>1, InstallsAssumption DEF InstalledInv, Installed!TypeOK
  <2> QED BY <1>1, <2>2
     DEF Installed!ReplaceExecutables, Installed!Disk, Installed!Processes, InstalledInv,
         Installed!TypeOK, Installed!RunsWhatIsRecorded, InstalledStages
<1>2. ASSUME NEW k \in Installed!ExecutableKinds, Installed!selectExecutable(k) \/ Installed!Expire(k)
      PROVE  InstalledInv'
  BY <1>2
     DEF Installed!selectExecutable, Installed!Expire, Installed!Disk, Installed!Processes, InstalledInv,
         Installed!TypeOK, Installed!RunsWhatIsRecorded, InstalledStages
<1>3. ASSUME NEW i \in Installs, Installed!projectInstallationsState(i) PROVE InstalledInv'
  <2>1. v8' \in [Installs -> {"none", "running", "stopped", "failed"}]
    BY <1>3 DEF Installed!projectInstallationsState, Installed!assertInstallationKnown, Installed!viewOf,
        InstalledInv, Installed!TypeOK
  <2> QED BY <1>3, <2>1
     DEF Installed!projectInstallationsState, Installed!Disk, InstalledInv,
         Installed!TypeOK, Installed!RunsWhatIsRecorded, InstalledStages
<1>4. ASSUME NEW i \in Installs, Installed!ChildExits(i) PROVE InstalledInv'
  <2>1. /\ v7' \in [Installs -> [state : {"none", "running", "stopped", "failed"},
                                commit : InstalledCommits \cup {None}]]
        /\ \A j \in Installs : v7'[j].state = "running" => v7'[j] = v7[j]
    BY <1>4 DEF Installed!ChildExits, InstalledInv, Installed!TypeOK, InstalledCommits
  <2> QED BY <1>4, <2>1
     DEF Installed!ChildExits, Installed!Disk, InstalledInv, InstalledCommits,
         Installed!TypeOK, Installed!RunsWhatIsRecorded, InstalledStages
<1> QED BY <1>1, <1>2, <1>3, <1>4

\* An operation begins when no other is under way.
LEMMA InstalledBegins ==
  ASSUME InstalledInv,
         \/ Installed!registerToolchain
         \/ \E i \in Installs :
              \/ Installed!startHarness(i) \/ Installed!stopHarness(i)
              \/ \E rev \in Revisions :
                   \/ Installed!switchRevision(i, rev)
                   \/ \E tool \in v3 :
                        Installed!cloneHarness(i, rev, tool) \/ Installed!installBundledSeed(i, rev, tool)
  PROVE  InstalledInv'
<1>1. CASE Installed!registerToolchain
  <2>1. v9' \in InstalledOps /\ v9'.kind = "register" /\ v9'.at = "git"
    BY <1>1 DEF Installed!registerToolchain, Installed!runExclusive, Installed!NoOp, Installed!NoTool,
       InstalledOps, InstalledTools
  <2> QED BY <1>1, <2>1
     DEF Installed!registerToolchain, Installed!Disk, Installed!Processes, InstalledInv,
         Installed!TypeOK, Installed!RunsWhatIsRecorded, InstalledStages
<1>2. ASSUME NEW i \in Installs, Installed!startHarness(i) \/ Installed!stopHarness(i)
      PROVE  InstalledInv'
  <2>1. /\ v9' \in InstalledOps /\ v9'.who = i
        /\ \/ v9'.kind = "start" /\ v9'.at = "verify"
           \/ v9'.kind = "stop" /\ v9'.at = "stop"
    <3>1. \/ v9' = [Installed!NoOp EXCEPT !.kind = "start", !.at = "verify", !.who = i]
          \/ v9' = [Installed!NoOp EXCEPT !.kind = "stop", !.at = "stop", !.who = i]
      BY <1>2 DEF Installed!startHarness, Installed!stopHarness, Installed!runExclusive
    <3>2. CASE v9' = [Installed!NoOp EXCEPT !.kind = "start", !.at = "verify", !.who = i]
      BY <3>2 DEF Installed!NoOp, Installed!NoTool, InstalledOps, InstalledTools
    <3>3. CASE v9' = [Installed!NoOp EXCEPT !.kind = "stop", !.at = "stop", !.who = i]
      BY <3>3 DEF Installed!NoOp, Installed!NoTool, InstalledOps, InstalledTools
    <3> QED BY <3>1, <3>2, <3>3
  <2> QED BY <1>2, <2>1
     DEF Installed!startHarness, Installed!stopHarness, Installed!Disk, Installed!Processes, InstalledInv,
         Installed!TypeOK, Installed!RunsWhatIsRecorded, InstalledStages
<1>3. ASSUME NEW i \in Installs, NEW rev \in Revisions, Installed!switchRevision(i, rev)
      PROVE  InstalledInv'
  <2>1. v9' \in InstalledOps /\ v9'.who = i /\ v9'.kind = "switch" /\ v9'.at = "checkout" /\ v9'.rev = rev
    BY <1>3 DEF Installed!switchRevision, Installed!runExclusive, Installed!NoOp,
       Installed!NoTool, InstalledOps, InstalledTools
  <2>2. v8' \in [Installs -> {"none", "running", "stopped", "failed"}] /\ v7[i].state # "running"
    BY <1>3 DEF Installed!switchRevision, Installed!assertInstallationStopped, Installed!Stopped,
        Installed!viewOf, InstalledInv, Installed!TypeOK
  <2> QED BY <1>3, <2>1, <2>2
     DEF Installed!switchRevision, Installed!Disk, InstalledInv,
         Installed!TypeOK, Installed!RunsWhatIsRecorded, InstalledStages
<1>4. ASSUME NEW i \in Installs, NEW rev \in Revisions, NEW tool \in v3,
             Installed!cloneHarness(i, rev, tool) \/ Installed!installBundledSeed(i, rev, tool)
      PROVE  InstalledInv'
  <2>1. /\ v9' \in InstalledOps /\ v9'.who = i /\ v9'.kind = "install" /\ v9'.at = "checkout"
        /\ v9'.rev = rev /\ v9'.tool = tool
    BY <1>4 DEF Installed!cloneHarness, Installed!installBundledSeed, Installed!runExclusive, InstalledInv,
       InstalledOps
  <2> QED BY <1>4, <2>1
     DEF Installed!cloneHarness, Installed!installBundledSeed, Installed!Disk, Installed!Processes,
         InstalledInv, Installed!TypeOK, Installed!RunsWhatIsRecorded, InstalledStages
<1> QED BY <1>1, <1>2, <1>3, <1>4

\* Registering a toolchain: nothing is recorded before the last step.
LEMMA InstalledRegisters ==
  ASSUME InstalledInv,
         \E ok \in BOOLEAN :
           \/ Installed!gitRegister(ok) \/ Installed!registerPnpmExecutable(ok)
           \/ \E script \in BOOLEAN : Installed!registerNodeExecutable(ok, script)
           \/ \E done \in BOOLEAN : Installed!saveToolchain(ok, done)
  PROVE  InstalledInv'
<1> DEFINE Same == UNCHANGED <<v1, v2, v4, v5, v6, v7, v8, v10>>
<1>1. ASSUME Same, v3 \subseteq v3', v3' \subseteq InstalledTools, v9' \in InstalledOps, InstalledStages'
      PROVE  InstalledInv'
  BY <1>1 DEF InstalledInv, Installed!TypeOK, Installed!RunsWhatIsRecorded
<1>2. PICK ok \in BOOLEAN :
           \/ Installed!gitRegister(ok) \/ Installed!registerPnpmExecutable(ok)
           \/ \E script \in BOOLEAN : Installed!registerNodeExecutable(ok, script)
           \/ \E done \in BOOLEAN : Installed!saveToolchain(ok, done)
  OBVIOUS
<1>3. v9 \in InstalledOps /\ v9.tool \in InstalledTools BY DEF InstalledInv, InstalledOps
<1>4. CASE v9' = Installed!NoOp
  <2>1. v9' \in InstalledOps /\ InstalledStages' BY <1>4, InstalledEnds DEF Installed!Ends
  <2>2. Same /\ v3 \subseteq v3' /\ v3' \subseteq InstalledTools
    BY <1>2, <1>3 DEF Installed!gitRegister, Installed!registerPnpmExecutable, Installed!registerNodeExecutable,
       Installed!saveToolchain, Installed!Disk, Installed!Processes, InstalledInv
  <2> QED BY <1>1, <2>1, <2>2
<1>5. CASE v9' # Installed!NoOp
  <2>1. /\ Same /\ v3' = v3 /\ v9.at \in {"git", "node", "pnpm"}
        /\ \/ v9' = [v9 EXCEPT !.at = "node", !.tool.node = v2["node"]]
           \/ v9' = [v9 EXCEPT !.at = "save"]
           \/ \E l \in {0, v9.tool.node} :
                v9' = [v9 EXCEPT !.at = "pnpm", !.tool.pnpm = v2["pnpm"], !.tool.launcher = l]
    BY <1>2, <1>5 DEF Installed!gitRegister, Installed!registerPnpmExecutable, Installed!registerNodeExecutable,
       Installed!saveToolchain, Installed!Disk, Installed!Processes, Installed!Ends, Installed!Goto,
       Installed!pinToolchainExecutable, Installed!launcherForPnpm
  <2>2. v9.kind = "register"
    BY <2>1, <1>3 DEF InstalledInv, InstalledStages, InstalledOps
  <2>3. v2["node"] \in Nat /\ v2["pnpm"] \in Nat
    BY InstallsAssumption DEF InstalledInv, Installed!TypeOK
  <2>4. /\ v9' \in InstalledOps /\ v9'.kind = "register"
        /\ v9'.at \in {"node", "pnpm", "save"}
    <3>1. CASE v9' = [v9 EXCEPT !.at = "node", !.tool.node = v2["node"]]
      BY <1>3, <2>2, <2>3, <3>1 DEF InstalledOps, InstalledTools
    <3>2. CASE v9' = [v9 EXCEPT !.at = "save"]
      BY <1>3, <2>2, <2>3, <3>2 DEF InstalledOps, InstalledTools
    <3>3. ASSUME NEW l \in {0, v9.tool.node},
                 v9' = [v9 EXCEPT !.at = "pnpm", !.tool.pnpm = v2["pnpm"], !.tool.launcher = l]
          PROVE  v9' \in InstalledOps /\ v9'.kind = "register" /\ v9'.at = "pnpm"
      <4>1. l \in Nat BY <1>3 DEF InstalledTools
      <4>2. [v9.tool EXCEPT !.pnpm = v2["pnpm"], !.launcher = l] \in InstalledTools
        BY <1>3, <2>3, <4>1 DEF InstalledTools
      <4>3. v9' = [v9 EXCEPT !.at = "pnpm", !.tool = [v9.tool EXCEPT !.pnpm = v2["pnpm"], !.launcher = l]]
        BY <1>3, <3>3 DEF InstalledOps, InstalledTools
      <4> QED BY <1>3, <2>2, <4>2, <4>3 DEF InstalledOps
    <3> QED BY <2>1, <3>1, <3>2, <3>3
  <2>5. InstalledStages' BY <2>4 DEF InstalledStages
  <2> QED BY <1>1, <2>1, <2>4, <2>5 DEF InstalledInv
<1> QED BY <1>4, <1>5

\* An operation works on a tree and its packages.
LEMMA InstalledPrepares ==
  ASSUME InstalledInv,
         \E ok \in BOOLEAN :
           \/ Installed!checkoutPrepare(ok) \/ Installed!preflightCheckoutToolchain(ok)
           \/ Installed!runPnpmCommand(ok) \/ Installed!checkoutVerify(ok)
  PROVE  InstalledInv'
<1>1. PICK ok \in BOOLEAN :
           \/ Installed!checkoutPrepare(ok) \/ Installed!preflightCheckoutToolchain(ok)
           \/ Installed!runPnpmCommand(ok) \/ Installed!checkoutVerify(ok)
  OBVIOUS
<1>2. v9 \in InstalledOps /\ InstalledStages BY DEF InstalledInv
<1>3. UNCHANGED <<v1, v2, v3, v4, v7, v8, v10>>
  BY <1>1 DEF Installed!checkoutPrepare, Installed!preflightCheckoutToolchain, Installed!runPnpmCommand,
     Installed!checkoutVerify, Installed!Disk, Installed!Processes
<1>4. v9.kind \in {"install", "switch", "start"}
  BY <1>1, <1>2 DEF Installed!checkoutPrepare, Installed!preflightCheckoutToolchain,
     Installed!runPnpmCommand, Installed!checkoutVerify, InstalledStages, InstalledOps
<1>5. v9.at \in {"preflight", "packages"} => Installed!Tree \in v5
  BY <1>2, <1>4 DEF InstalledStages, InstalledInv, Installed!RunsWhatIsRecorded, Installed!Tree
<1>6. v5 \subseteq v5' /\ v6' \subseteq v5'
  BY <1>1, <1>5 DEF Installed!checkoutPrepare, Installed!preflightCheckoutToolchain,
     Installed!runPnpmCommand, Installed!checkoutVerify, Installed!Disk, InstalledInv, Installed!TypeOK
<1>7. v9' \in InstalledOps /\ InstalledStages'
  <2>1. CASE Installed!Ends BY <2>1, InstalledEnds
  <2>2. CASE ~Installed!Ends
    <3>1. \/ /\ v9.at = "checkout" /\ v5' = v5 \cup {Installed!Tree}
             /\ Installed!Goto("preflight")
          \/ v9.at = "verify" /\ Installed!Goto("preflight")
          \/ v9.at = "preflight" /\ Installed!Goto("packages")
          \/ v9.at = "packages" /\ v9.kind = "start" /\ Installed!Goto("launch")
          \/ v9.at = "packages" /\ v9.kind # "start" /\ Installed!Goto("save")
      BY <1>1, <2>2 DEF Installed!checkoutPrepare, Installed!preflightCheckoutToolchain,
         Installed!runPnpmCommand, Installed!checkoutVerify
    <3>2. PICK at \in {"preflight", "packages", "launch", "save"} :
            /\ Installed!Goto(at)
            /\ at = "launch" => v9.kind = "start"
            /\ at = "save" => v9.kind # "start"
            /\ v9.at = "checkout" => v5' = v5 \cup {Installed!Tree}
      BY <3>1
    <3>3. /\ v9' \in InstalledOps /\ v9'.at = at /\ v9'.kind = v9.kind /\ v9'.who = v9.who
          /\ v9'.rev = v9.rev /\ v9'.tool = v9.tool
      BY <1>2, <3>2, InstalledGoes
    <3>4. v9.kind \in {"install", "switch"} => <<v9.who, v9.rev.commit>> \in v5'
      BY <1>2, <1>6, <3>2 DEF InstalledStages, Installed!Tree
    <3> QED BY <1>2, <1>3, <1>4, <3>2, <3>3, <3>4 DEF InstalledStages
  <2> QED BY <2>1, <2>2
<1> QED BY <1>3, <1>6, <1>7 DEF InstalledInv, Installed!TypeOK, Installed!RunsWhatIsRecorded

\* The catalog is saved: the record names the tree that was prepared, and what it
\* replaces is not running.
LEMMA InstalledSaves ==
  ASSUME InstalledInv, NEW ok \in BOOLEAN, NEW done \in BOOLEAN, Installed!saveInstallation(ok, done)
  PROVE  InstalledInv'
<1>1. /\ UNCHANGED <<v1, v2, v3, v5, v6, v7, v8>> /\ v9' \in InstalledOps /\ InstalledStages'
  BY InstalledEnds DEF Installed!saveInstallation, Installed!Disk, Installed!Processes
<1>2. CASE v4' = v4
  BY <1>1, <1>2 DEF InstalledInv, Installed!TypeOK, Installed!RunsWhatIsRecorded
<1>3. CASE v4' # v4
  <2>1. /\ v9.kind \in {"install", "switch"} /\ v9.at = "save"
        /\ v4' = [v4 EXCEPT ![v9.who] = IF v9.kind = "install" THEN Installed!Installed
                                       ELSE Installed!Switched]
    BY <1>3 DEF Installed!saveInstallation
  <2>2. /\ v9.who \in Installs /\ v9.rev \in Revisions /\ <<v9.who, v9.rev.commit>> \in v5
        /\ v7[v9.who].state # "running"
    BY <2>1 DEF InstalledInv, InstalledStages, Installed!RunsWhatIsRecorded
  <2>3. PICK r : /\ r \in InstalledRecords /\ r.commit = v9.rev.commit /\ r.tool \in v3
                 /\ v4' = [v4 EXCEPT ![v9.who] = r]
    <3>1. CASE v9.kind = "install"
      <4>1. /\ Installed!Installed \in InstalledRecords /\ Installed!Installed.commit = v9.rev.commit
            /\ Installed!Installed.tool \in v3
        BY <2>2, <3>1 DEF Installed!Installed, InstalledRecords, InstalledInv, InstalledStages, InstalledCommits
      <4> QED BY <2>1, <3>1, <4>1
    <3>2. CASE v9.kind = "switch"
      <4>1. v4[v9.who] \in InstalledRecords /\ v4[v9.who].tool \in v3
        BY <2>2, <3>2 DEF InstalledInv, InstalledStages, Installed!RunsWhatIsRecorded
      <4>2. /\ Installed!Switched \in InstalledRecords /\ Installed!Switched.commit = v9.rev.commit
            /\ Installed!Switched.tool \in v3
        BY <2>2, <4>1 DEF Installed!Switched, InstalledRecords, InstalledCommits
      <4> QED BY <2>1, <3>2, <4>2
    <3> QED BY <2>1, <3>1, <3>2
  <2>4. v4' \in [Installs -> InstalledRecords \cup {None}]
    BY <2>3 DEF InstalledInv
  <2>5. \A i \in Installs : v4'[i] = IF i = v9.who THEN r ELSE v4[i]
    BY <2>3 DEF InstalledInv
  <2>6. Installed!RunsWhatIsRecorded'
    BY <1>1, <2>2, <2>3, <2>5 DEF InstalledInv, Installed!RunsWhatIsRecorded
  <2>7. DOMAIN v4' = Installs BY <2>4
  <2> QED BY <1>1, <2>4, <2>6, <2>7 DEF InstalledInv, Installed!TypeOK
<1> QED BY <1>2, <1>3

\* A launch, a stop and the end of the application.
LEMMA InstalledRuns ==
  ASSUME InstalledInv,
         \/ Installed!Crash
         \/ \E ok, done \in BOOLEAN : Installed!runtimeStart(ok, done) \/ Installed!runtimeStop(ok, done)
  PROVE  InstalledInv'
<1> DEFINE Children == [state : {"none", "running", "stopped", "failed"}, commit : InstalledCommits \cup {None}]
<1> DEFINE Views == {"none", "running", "stopped", "failed"}
<1>1. /\ UNCHANGED <<v2, v3, v4, v5>> /\ v1' \in {v1, {}} /\ v6' \subseteq v6
      /\ v9' \in InstalledOps /\ InstalledStages'
  BY InstalledEnds DEF Installed!runtimeStart, Installed!runtimeStop, Installed!Crash, Installed!Disk
<1>2. /\ v7 \in [Installs -> Children] /\ v8 \in [Installs -> Views]
      /\ v4 \in [Installs -> InstalledRecords \cup {None}] /\ v9 \in InstalledOps /\ InstalledStages
  BY DEF InstalledInv, Installed!TypeOK, InstalledCommits
<1>3. ASSUME /\ v7' \in [Installs -> Children] /\ v8' \in [Installs -> Views],
             \A i \in Installs : v7'[i].state = "running" =>
               v4[i] # None /\ v7'[i].commit = v4[i].commit
      PROVE  InstalledInv'
  BY <1>1, <1>3 DEF InstalledInv, Installed!TypeOK, InstalledCommits, Installed!RunsWhatIsRecorded
<1>4. CASE Installed!Crash
  <2>1. v7' = [i \in Installs |-> Installed!NoChild] /\ v8' = [i \in Installs |-> "none"]
    BY <1>4 DEF Installed!Crash
  <2>2. Installed!NoChild \in Children /\ Installed!NoChild.state = "none"
    BY DEF Installed!NoChild
  <2> QED BY <1>3, <2>1, <2>2
<1>5. ASSUME NEW ok \in BOOLEAN, NEW done \in BOOLEAN, Installed!runtimeStart(ok, done) PROVE InstalledInv'
  <2>1. /\ v9.who \in Installs /\ v4[v9.who] \in InstalledRecords /\ v4[v9.who] # None
        /\ Installed!Tree[2] = v4[v9.who].commit
    BY <1>2, <1>5 DEF Installed!runtimeStart, InstalledStages, InstalledOps, Installed!Tree
  <2>2. v4[v9.who].commit \in InstalledCommits BY <2>1 DEF InstalledRecords
  <2>3. v8' \in [Installs -> Views] BY <1>2, <1>5 DEF Installed!runtimeStart
  <2>4. v7' \in [Installs -> Children]
    BY <1>2, <1>5, <2>1, <2>2 DEF Installed!runtimeStart
  <2>5. \A i \in Installs : v7'[i].state = "running" => v4[i] # None /\ v7'[i].commit = v4[i].commit
    BY <1>2, <1>5, <2>1 DEF Installed!runtimeStart, InstalledInv, Installed!RunsWhatIsRecorded
  <2> QED BY <1>3, <2>3, <2>4, <2>5
<1>6. ASSUME NEW ok \in BOOLEAN, NEW done \in BOOLEAN, Installed!runtimeStop(ok, done) PROVE InstalledInv'
  <2>1. v9.who \in Installs BY <1>2, <1>6 DEF Installed!runtimeStop, InstalledStages, InstalledOps
  <2>3. v8' \in [Installs -> Views] BY <1>2, <1>6 DEF Installed!runtimeStop
  <2>4. v7' \in [Installs -> Children]
    BY <1>2, <1>6, <2>1 DEF Installed!runtimeStop
  <2>5. \A i \in Installs : v7'[i].state = "running" => v7'[i] = v7[i]
    BY <1>2, <1>6, <2>1 DEF Installed!runtimeStop
  <2>6. \A i \in Installs : v7'[i].state = "running" => v4[i] # None /\ v7'[i].commit = v4[i].commit
    BY <2>5 DEF InstalledInv, Installed!RunsWhatIsRecorded
  <2> QED BY <1>3, <2>3, <2>4, <2>6
<1> QED BY <1>4, <1>5, <1>6

\* Every step keeps the invariant.
LEMMA InstalledSteps == ASSUME InstalledInv, Installed!Next PROVE InstalledInv'
<1>1. CASE \/ Installed!registerToolchain
           \/ \E i \in Installs :
                \/ Installed!startHarness(i) \/ Installed!stopHarness(i)
                \/ \E rev \in Revisions :
                     \/ Installed!switchRevision(i, rev)
                     \/ \E tool \in v3 :
                          Installed!cloneHarness(i, rev, tool) \/ Installed!installBundledSeed(i, rev, tool)
  BY <1>1, InstalledBegins
<1>2. CASE \/ Installed!ReplaceExecutables
           \/ \E k \in Installed!ExecutableKinds : Installed!selectExecutable(k) \/ Installed!Expire(k)
           \/ \E i \in Installs : Installed!projectInstallationsState(i) \/ Installed!ChildExits(i)
  BY <1>2, InstalledOutside
<1>3. CASE \E ok \in BOOLEAN :
             \/ Installed!gitRegister(ok) \/ Installed!registerPnpmExecutable(ok)
             \/ \E script \in BOOLEAN : Installed!registerNodeExecutable(ok, script)
             \/ \E done \in BOOLEAN : Installed!saveToolchain(ok, done)
  BY <1>3, InstalledRegisters
<1>4. CASE \E ok \in BOOLEAN :
             \/ Installed!checkoutPrepare(ok) \/ Installed!preflightCheckoutToolchain(ok)
             \/ Installed!runPnpmCommand(ok) \/ Installed!checkoutVerify(ok)
  BY <1>4, InstalledPrepares
<1>5. CASE \E ok, done \in BOOLEAN : Installed!saveInstallation(ok, done)
  BY <1>5, InstalledSaves
<1>6. CASE \/ Installed!Crash
           \/ \E ok, done \in BOOLEAN : Installed!runtimeStart(ok, done) \/ Installed!runtimeStop(ok, done)
  BY <1>6, InstalledRuns
<1> QED BY <1>1, <1>2, <1>3, <1>4, <1>5, <1>6, Zenon DEF Installed!Next

-----------------------------------------------------------------------------
(* The bundled seed. *)

\* The steps at which the manifest has been read.
SeedParsed == {"directories", "contents", "inspect", "texts"}

\* The loader's looks and what it keeps are records.
SeedForms ==
  /\ DOMAIN v3 = Seed!Names
  /\ v6 = [n \in Seed!Names |-> [at |-> v6[n].at, before |-> v6[n].before, body |-> v6[n].body]]
  /\ v7 = [manifest |-> v7.manifest, resources |-> v7.resources, texts |-> v7.texts]

\* What is kept of the manifest is a manifest as parsed, and the resources found are
\* the declared ones.
SeedKept ==
  /\ v5 \in SeedParsed => \E b : v7.manifest = Seed!parseSeedManifest(b)
  /\ v5 = "texts" => v7.resources = v7.manifest.resources

\* A verified seed is bound.
SeedBound ==
  v8 = "verified" =>
    LET r == v7.manifest.revision IN
    /\ \A n \in Seed!expectedResourcePaths : v7.resources[n] = Seed!Resource(n, Seed!Packaged(r))
    /\ \A n \in Seed!texts : Seed!sha256(n, v7.texts[n]) = v7.resources[n].sha256
    /\ v7.texts["generation"].release = r

\* A packaged file of release r.
SeedFile(r) == [body |-> Seed!Packaged(r), link |-> FALSE, stamp |-> 0]

\* One whole release is on the disk, and every look so far saw it.
SeedWhole(r) ==
  /\ v1 = [d \in Seed!Dirs |-> "directory"] /\ v2 = {}
  /\ v3 = [n \in Seed!Names |-> SeedFile(r)]
  /\ \A n \in Seed!Names : /\ v6[n].at # "before" => v6[n].before = SeedFile(r)
                           /\ v6[n].at \in {"after", "looked"} => v6[n].body = Seed!Packaged(r)
  /\ v5 \in SeedParsed => v7.manifest = Seed!parseSeedManifest(Seed!Packaged(r))
  /\ v8 \in {None, "verified"}

\* A development build has no seed.
SeedAbsent == v1 = [d \in Seed!Dirs |-> "absent"] /\ v5 \in {"root", "done"}

\* Until somebody changes the files, it is one of the two.
SeedUntouched == v4 = 0 => SeedAbsent \/ \E r \in {1, 2} : SeedWhole(r)

\* The invariant.
SeedInv == Seed!TypeOK /\ SeedForms /\ SeedKept /\ SeedBound /\ SeedUntouched

\* It gives what a run checks.
LEMMA SeedImplies == ASSUME SeedInv PROVE Seed!VerifiedIsBound
<1>1. (v4 = 0 /\ v8 \notin {None, "verified"}) => v1["root"] = "absent"
  BY DEF SeedInv, SeedUntouched, SeedAbsent, SeedWhole, Seed!Dirs
<1> QED BY <1>1 DEF SeedInv, SeedBound, Seed!VerifiedIsBound

\* It holds at the start.
LEMMA SeedStarts == ASSUME Seed!Init PROVE SeedInv
<1>1. /\ v2 = {} /\ v4 = 0 /\ v5 = "root" /\ v6 = [n \in Seed!Names |-> Seed!NoLook]
      /\ v7 = Seed!NoSeed /\ v8 = None
  BY DEF Seed!Init
<1>2. SeedForms /\ SeedKept /\ SeedBound
  <2>1. DOMAIN v3 = Seed!Names BY DEF Seed!Init
  <2> QED BY <1>1, <2>1, SeedAssumption
     DEF SeedForms, SeedKept, SeedBound, SeedParsed, Seed!NoLook, Seed!NoSeed
<1>3. CASE v1 = [d \in Seed!Dirs |-> "absent"] /\ v3 = [n \in Seed!Names |-> None]
  <2>1. SeedUntouched BY <1>1, <1>3 DEF SeedUntouched, SeedAbsent
  <2>2. Seed!TypeOK BY <1>1, <1>3, SeedAssumption DEF Seed!TypeOK, Seed!NoLook
  <2> QED BY <1>2, <2>1, <2>2 DEF SeedInv
<1>4. CASE /\ v1 = [d \in Seed!Dirs |-> "directory"]
           /\ \E r \in {1, 2} : v3 = [n \in Seed!Names |-> SeedFile(r)]
  <2>1. PICK r \in {1, 2} : v3 = [n \in Seed!Names |-> SeedFile(r)] BY <1>4
  <2>2. SeedWhole(r)
    BY <1>1, <1>4, <2>1 DEF SeedWhole, SeedParsed, Seed!NoLook
  <2>3. \A n \in Seed!Names : SeedFile(r) \in Seed!Files(n)
    BY SeedAssumption DEF SeedFile, Seed!Files, Seed!Bodies, Seed!Forms, Seed!Packaged, Seed!Names
  <2>4. Seed!TypeOK BY <1>1, <1>4, <2>1, <2>3, SeedAssumption DEF Seed!TypeOK, Seed!NoLook
  <2> QED BY <1>2, <2>2, <2>4 DEF SeedInv, SeedUntouched
<1> QED BY <1>3, <1>4 DEF Seed!Init, SeedFile

\* A refusal keeps it, if a whole release nobody touched is not what is refused.
LEMMA SeedRefuses ==
  ASSUME SeedInv, NEW code, code \notin {None, "verified"}, Seed!Refuse(code),
         UNCHANGED <<v1, v2, v3, v4>>, v4 = 0 => SeedAbsent
  PROVE  SeedInv'
<1>1. /\ v8' = code /\ v5' = "done" /\ v6' = [n \in Seed!Names |-> Seed!NoLook] /\ v7' = Seed!NoSeed
  BY DEF Seed!Refuse
<1>2. Seed!TypeOK' BY <1>1 DEF SeedInv, Seed!TypeOK, Seed!NoLook
<1>3. SeedForms' BY <1>1 DEF SeedInv, SeedForms, Seed!NoLook, Seed!NoSeed
<1>4. SeedKept' /\ SeedBound' BY <1>1 DEF SeedKept, SeedBound, SeedParsed
<1>5. SeedUntouched' BY <1>1 DEF SeedUntouched, SeedAbsent
<1> QED BY <1>2, <1>3, <1>4, <1>5 DEF SeedInv

\* A whole release nobody touched has nothing wrong with it.
LEMMA SeedSound ==
  ASSUME NEW r \in {1, 2}, SeedWhole(r)
  PROVE  /\ \A d \in Seed!Dirs : Seed!assertDirectDirectory(d) = None
         /\ \A d \in Seed!Dirs : Seed!assertExactChildren(d) = None
         /\ \A n \in Seed!Names : v3[n] # None
         /\ \A n \in Seed!Names : Seed!assertDirectRegularFile(n) = None
         /\ \A n \in Seed!Names : ~Seed!tooLong(n)
<1>1. SeedFile(r) # None /\ SeedFile(r).link = FALSE /\ SeedFile(r).body = Seed!Packaged(r)
  <2>1. SeedFile(r) \in [body : [release : {1, 2}, form : {"packaged"}], link : {FALSE}, stamp : {0}]
    BY DEF SeedFile, Seed!Packaged
  <2>2. SeedFile(r) # None BY <2>1, SeedAssumption, Zenon
  <2> QED BY <2>2 DEF SeedFile
<1>2. \A n \in Seed!Names : v3[n] = SeedFile(r) BY DEF SeedWhole
<1>3. \A d \in Seed!Dirs : v1[d] = "directory" BY DEF SeedWhole
<1>4. \A d \in Seed!Dirs : Seed!assertDirectDirectory(d) = None
  BY <1>3 DEF Seed!assertDirectDirectory
<1>5. \A d \in Seed!Dirs : ~Seed!missingChild(d)
  BY <1>1, <1>2, <1>3 DEF Seed!missingChild
<1>6. \A d \in Seed!Dirs : Seed!assertExactChildren(d) = None
  BY <1>5 DEF Seed!assertExactChildren, SeedWhole
<1>7. \A n \in Seed!Names : Seed!assertDirectRegularFile(n) = None
  BY <1>1, <1>2 DEF Seed!assertDirectRegularFile
<1>8. \A n \in Seed!Names : ~Seed!tooLong(n)
  BY <1>1, <1>2 DEF Seed!tooLong, Seed!numericByteSize, Seed!Packaged, Seed!MAX_JSON_RESOURCE_BYTES
<1> QED BY <1>1, <1>2, <1>4, <1>6, <1>7, <1>8

\* A look at the directories: what is kept and what was seen stays.
LEMMA SeedDirectories == ASSUME SeedInv, Seed!Directories PROVE SeedInv'
<1>1. UNCHANGED <<v1, v2, v3, v4>> BY DEF Seed!Directories
<1>2. \/ /\ v5 = "root" /\ Seed!LookAt({"root"}, Seed!assertDirectDirectory, "children")
      \/ /\ v5 = "children" /\ Seed!LookAt({"root"}, Seed!assertExactChildren, "manifest")
      \/ /\ v5 = "directories"
         /\ Seed!LookAt({"harness", "plugins"}, Seed!assertDirectDirectory, "contents")
      \/ /\ v5 = "contents"
         /\ Seed!LookAt({"harness", "plugins"}, Seed!assertExactChildren, "inspect")
  BY DEF Seed!Directories
<1>3. \A d : /\ Seed!assertDirectDirectory(d) # "verified"
             /\ Seed!assertExactChildren(d) # "verified"
  BY SeedAssumption DEF Seed!assertDirectDirectory, Seed!assertExactChildren
<1>4. ASSUME NEW d \in Seed!Dirs,
             \/ /\ Seed!assertDirectDirectory(d) # None /\ Seed!Refuse(Seed!assertDirectDirectory(d))
             \/ /\ v5 # "root" /\ v5 # "done"
                /\ Seed!assertExactChildren(d) # None /\ Seed!Refuse(Seed!assertExactChildren(d))
      PROVE  SeedInv'
  <2>1. v4 = 0 => SeedAbsent BY <1>4, SeedSound DEF SeedInv, SeedUntouched
  <2> QED BY <1>1, <1>3, <1>4, <2>1, SeedRefuses
<1>5. ASSUME UNCHANGED <<v6, v7, v8>>,
             \/ v5 \in {"root", "children"} /\ v5' \in {"children", "manifest"}
             \/ v5 \in {"directories", "contents"} /\ v5' \in {"contents", "inspect"},
             v5 = "root" => v1["root"] # "absent"
      PROVE  SeedInv'
  <2>1. Seed!TypeOK' BY <1>1, <1>5 DEF SeedInv, Seed!TypeOK
  <2>2. SeedForms' /\ SeedKept' /\ SeedBound'
    BY <1>1, <1>5 DEF SeedInv, SeedForms, SeedKept, SeedBound, SeedParsed
  <2>3. ~SeedAbsent BY <1>5 DEF SeedAbsent, Seed!Dirs
  <2>4. \A r \in {1, 2} : SeedWhole(r) => SeedWhole(r)' BY <1>1, <1>5 DEF SeedWhole, SeedParsed
  <2>5. SeedUntouched' BY <1>1, <2>3, <2>4 DEF SeedInv, SeedUntouched
  <2> QED BY <2>1, <2>2, <2>5 DEF SeedInv
<1>6. CASE v5 = "root" /\ Seed!LookAt({"root"}, Seed!assertDirectDirectory, "children")
  <2>1. CASE Seed!assertDirectDirectory("root") # None /\ Seed!Refuse(Seed!assertDirectDirectory("root"))
    BY <1>4, <2>1 DEF Seed!Dirs
  <2>2. CASE /\ Seed!assertDirectDirectory("root") = None
             /\ v5' = "children" /\ UNCHANGED <<v6, v7, v8>>
    <3>1. v1["root"] # "absent" BY <2>2, SeedAssumption DEF Seed!assertDirectDirectory
    <3> QED BY <1>5, <1>6, <2>2, <3>1
  <2> QED BY <1>6, <2>1, <2>2 DEF Seed!LookAt
<1>7. CASE v5 = "children" /\ Seed!LookAt({"root"}, Seed!assertExactChildren, "manifest")
  BY <1>4, <1>5, <1>7 DEF Seed!LookAt, Seed!Dirs
<1>8. CASE /\ v5 = "directories"
           /\ Seed!LookAt({"harness", "plugins"}, Seed!assertDirectDirectory, "contents")
  BY <1>4, <1>5, <1>8 DEF Seed!LookAt, Seed!Dirs
<1>9. CASE /\ v5 = "contents"
           /\ Seed!LookAt({"harness", "plugins"}, Seed!assertExactChildren, "inspect")
  BY <1>4, <1>5, <1>9 DEF Seed!LookAt, Seed!Dirs
<1> QED BY <1>2, <1>6, <1>7, <1>8, <1>9

\* A look at one file goes on: whoever looks keeps what it found.
LEMMA SeedLooks ==
  ASSUME SeedInv, NEW n \in Seed!Names, NEW look, v6' = [v6 EXCEPT ![n] = look],
         look = [at |-> look.at, before |-> look.before, body |-> look.body],
         look.at \in {"read", "after", "looked"},
         UNCHANGED <<v1, v2, v3, v4, v5, v7, v8>>, v5 \in {"manifest", "inspect", "texts"},
         \A r \in {1, 2} : SeedWhole(r) =>
           /\ look.before = SeedFile(r)
           /\ look.at \in {"after", "looked"} => look.body = Seed!Packaged(r)
  PROVE  SeedInv'
<1>1. DOMAIN v6 = Seed!Names BY DEF SeedInv, SeedForms
<1>2. \A m \in Seed!Names : v6'[m] = IF m = n THEN look ELSE v6[m] BY <1>1
<1>3. Seed!TypeOK' BY <1>2 DEF SeedInv, Seed!TypeOK
<1>4. SeedForms'
  <2>1. \A m \in Seed!Names : v6[m] = [at |-> v6[m].at, before |-> v6[m].before, body |-> v6[m].body]
    BY DEF SeedInv, SeedForms
  <2>2. v6' = [m \in Seed!Names |-> v6'[m]] BY <1>1
  <2>3. \A m \in Seed!Names : v6'[m] = [at |-> v6'[m].at, before |-> v6'[m].before, body |-> v6'[m].body]
    BY <1>2, <2>1
  <2> QED BY <2>2, <2>3 DEF SeedInv, SeedForms
<1>5. SeedKept' /\ SeedBound' BY DEF SeedInv, SeedKept, SeedBound
<1>6. \A r \in {1, 2} : SeedWhole(r) => SeedWhole(r)' BY <1>2 DEF SeedWhole
<1>7. ~SeedAbsent BY DEF SeedAbsent
<1>8. SeedUntouched' BY <1>6, <1>7 DEF SeedInv, SeedUntouched
<1> QED BY <1>3, <1>4, <1>5, <1>8 DEF SeedInv

\* The three parts of a look.
LEMMA SeedFiles ==
  ASSUME SeedInv, NEW n \in Seed!Names, Seed!Before(n) \/ Seed!Read(n) \/ Seed!After(n)
  PROVE  SeedInv'
<1>1. UNCHANGED <<v1, v2, v3, v4>> /\ n \in Seed!Looking
  BY DEF Seed!Before, Seed!Read, Seed!After
<1>2. v5 \in {"manifest", "inspect", "texts"} BY <1>1 DEF Seed!Looking
<1>3. ~SeedAbsent BY <1>2 DEF SeedAbsent
<1>4. ASSUME v4 = 0 PROVE \E r \in {1, 2} : SeedWhole(r) BY <1>3, <1>4 DEF SeedInv, SeedUntouched
<1>5. Seed!assertDirectRegularFile(n) # "verified" BY SeedAssumption DEF Seed!assertDirectRegularFile
<1>6. PICK old : /\ v6[n] = old /\ old = [at |-> old.at, before |-> old.before, body |-> old.body]
                 /\ v6 = [m \in Seed!Names |-> v6[m]]
  BY DEF SeedInv, SeedForms
<1>7. CASE Seed!Before(n)
  <2>1. CASE Seed!assertDirectRegularFile(n) # None /\ Seed!Refuse(Seed!assertDirectRegularFile(n))
    BY <1>1, <1>4, <1>5, <2>1, SeedSound, SeedRefuses
  <2>2. CASE Seed!tooLong(n) /\ Seed!Refuse("bundled_seed.invalid")
    BY <1>1, <1>4, <2>2, SeedSound, SeedRefuses, SeedAssumption
  <2>3. CASE /\ v6' = [v6 EXCEPT ![n] = [at |-> "read", before |-> v3[n], body |-> None]]
             /\ UNCHANGED <<v5, v7, v8>>
    <3>1. \A r \in {1, 2} : SeedWhole(r) => v3[n] = SeedFile(r) BY DEF SeedWhole
    <3>2. PICK look : look = [at |-> "read", before |-> v3[n], body |-> None] OBVIOUS
    <3>3. look.at = "read" /\ look.before = v3[n] BY <3>2
    <3>4. look = [at |-> look.at, before |-> look.before, body |-> look.body] BY <3>2
    <3> QED BY <1>1, <1>2, <2>3, <3>1, <3>2, <3>3, <3>4, SeedLooks
  <2> QED BY <1>7, <2>1, <2>2, <2>3 DEF Seed!Before
<1>8. CASE Seed!Read(n)
  <2>1. CASE v3[n] = None /\ Seed!Refuse("bundled_seed.unavailable")
    BY <1>1, <1>4, <2>1, SeedSound, SeedRefuses, SeedAssumption
  <2>2. CASE /\ v6' = [v6 EXCEPT ![n].at = "after", ![n].body = v3[n].body]
             /\ UNCHANGED <<v5, v7, v8>>
    <3>1. PICK look : look = [at |-> "after", before |-> old.before, body |-> v3[n].body] OBVIOUS
    <3>2. look = [old EXCEPT !.at = "after", !.body = v3[n].body]
      <4>1. PICK a, p, b : old = [at |-> a, before |-> p, body |-> b] BY <1>6
      <4>2. look = [at |-> "after", before |-> p, body |-> v3[n].body] BY <3>1, <4>1
      <4>3. PICK x : x = v3[n].body OBVIOUS
      <4>4. [old EXCEPT !.at = "after", !.body = x] = [at |-> "after", before |-> p, body |-> x]
        <5>1. [old EXCEPT !.at = "after"] = [at |-> "after", before |-> p, body |-> b] BY <4>1
        <5>2. [old EXCEPT !.at = "after", !.body = x] = [[old EXCEPT !.at = "after"] EXCEPT !.body = x]
          BY <4>1
        <5>3. [[at |-> "after", before |-> p, body |-> b] EXCEPT !.body = x] =
                [at |-> "after", before |-> p, body |-> x]
          OBVIOUS
        <5> QED BY <5>1, <5>2, <5>3
      <4> QED BY <4>2, <4>3, <4>4
    <3>3. v6' = [v6 EXCEPT ![n] = look] BY <1>6, <2>2, <3>2
    <3>4. look.at = "after" /\ look.before = old.before /\ look.body = v3[n].body BY <3>1
    <3>5. look = [at |-> look.at, before |-> look.before, body |-> look.body] BY <3>1
    <3>6. \A r \in {1, 2} : SeedWhole(r) => v3[n].body = Seed!Packaged(r) BY DEF SeedWhole, SeedFile
    <3>7. \A r \in {1, 2} : SeedWhole(r) => old.before = SeedFile(r)
      BY <1>6, <1>8 DEF SeedWhole, Seed!Read
    <3>8. \A r \in {1, 2} : SeedWhole(r) =>
            /\ look.before = SeedFile(r)
            /\ look.at \in {"after", "looked"} => look.body = Seed!Packaged(r)
      BY <3>4, <3>6, <3>7
    <3>9. look.at \in {"read", "after", "looked"} BY <3>4
    <3> QED BY <1>1, <1>2, <2>2, <3>3, <3>5, <3>8, <3>9, SeedLooks
  <2> QED BY <1>8, <2>1, <2>2 DEF Seed!Read
<1>9. CASE Seed!After(n)
  <2>1. \A r \in {1, 2} : SeedWhole(r) =>
          /\ v3[n] = SeedFile(r) /\ v6[n].before = SeedFile(r) /\ v6[n].body = Seed!Packaged(r)
    BY <1>9 DEF SeedWhole, Seed!After
  <2>2. \A r \in {1, 2} : SeedWhole(r) => Seed!unchanged(n)
    BY <2>1 DEF Seed!unchanged, Seed!sameFile, SeedFile
  <2>3. CASE Seed!assertDirectRegularFile(n) # None /\ Seed!Refuse(Seed!assertDirectRegularFile(n))
    BY <1>1, <1>4, <1>5, <2>3, SeedSound, SeedRefuses
  <2>4. CASE ~Seed!unchanged(n) /\ Seed!Refuse("bundled_seed.invalid")
    BY <1>1, <1>4, <2>2, <2>4, SeedRefuses, SeedAssumption
  <2>5. CASE v6' = [v6 EXCEPT ![n].at = "looked"] /\ UNCHANGED <<v5, v7, v8>>
    <3>1. PICK look : look = [at |-> "looked", before |-> old.before, body |-> old.body] OBVIOUS
    <3>2. look = [old EXCEPT !.at = "looked"] BY <1>6, <3>1
    <3>3. v6' = [v6 EXCEPT ![n] = look] BY <1>6, <2>5, <3>2
    <3>4. look.at = "looked" /\ look.before = old.before /\ look.body = old.body BY <3>1
    <3>5. look = [at |-> look.at, before |-> look.before, body |-> look.body] BY <3>1
    <3> QED BY <1>1, <1>2, <1>6, <2>1, <2>5, <3>3, <3>4, <3>5, SeedLooks
  <2> QED BY <1>9, <2>3, <2>4, <2>5 DEF Seed!After
<1> QED BY <1>7, <1>8, <1>9

\* A look ends with everything looked at: what was seen of an untouched release is it.
LEMMA SeedLooked ==
  ASSUME NEW r \in {1, 2}, SeedWhole(r), Seed!Looked
  PROVE  \A n \in Seed!Looking : v6[n].body = Seed!Packaged(r)
BY DEF SeedWhole, Seed!Looked, Seed!Looking, Seed!expectedResourcePaths, Seed!texts, Seed!Names

\* What the loader keeps after a step, for the next one.
LEMMA SeedKeeps ==
  ASSUME SeedInv, NEW record, NEW next, Seed!Keep(record, next), UNCHANGED <<v1, v2, v3, v4>>,
         v5 # "done", v5 # "root", next \in {"directories", "texts"},
         record = [manifest |-> record.manifest, resources |-> record.resources, texts |-> record.texts],
         \E b : record.manifest = Seed!parseSeedManifest(b),
         next = "texts" => record.resources = record.manifest.resources,
         \A r \in {1, 2} : SeedWhole(r) => record.manifest = Seed!parseSeedManifest(Seed!Packaged(r))
  PROVE  SeedInv'
<1>1. v7' = record /\ v5' = next /\ v6' = [n \in Seed!Names |-> Seed!NoLook] /\ v8' = v8
  BY DEF Seed!Keep
<1>2. v8 = None BY DEF SeedInv, Seed!TypeOK
<1>3. Seed!TypeOK' BY <1>1, <1>2 DEF SeedInv, Seed!TypeOK, Seed!NoLook
<1>4. SeedForms' BY <1>1 DEF SeedInv, SeedForms, Seed!NoLook
<1>5. SeedKept' BY <1>1 DEF SeedKept
<1>6. SeedBound' BY <1>1, <1>2, SeedAssumption DEF SeedBound
<1>7. ASSUME NEW r \in {1, 2}, SeedWhole(r) PROVE SeedWhole(r)'
  BY <1>1, <1>2, <1>7 DEF SeedWhole, Seed!NoLook
<1>8. SeedUntouched' BY <1>7 DEF SeedInv, SeedUntouched, SeedAbsent
<1> QED BY <1>3, <1>4, <1>5, <1>6, <1>8 DEF SeedInv

\* The manifest has been read.
LEMMA SeedManifest == ASSUME SeedInv, Seed!ManifestRead PROVE SeedInv'
<1>1. UNCHANGED <<v1, v2, v3, v4>> /\ v5 = "manifest" /\ Seed!Looked BY DEF Seed!ManifestRead
<1>2. \A r \in {1, 2} : SeedWhole(r) => v6["manifest"].body = Seed!Packaged(r)
  BY <1>1, SeedLooked DEF Seed!Looking
<1>3. CASE Seed!parseJson(v6["manifest"].body)
  <2>1. PICK record : record = [v7 EXCEPT !.manifest = Seed!parseSeedManifest(v6["manifest"].body)] OBVIOUS
  <2>2. Seed!Keep(record, "directories") BY <1>3, <2>1 DEF Seed!ManifestRead
  <2>3. PICK m, res, t : v7 = [manifest |-> m, resources |-> res, texts |-> t] BY DEF SeedInv, SeedForms
  <2>4. record = [manifest |-> Seed!parseSeedManifest(v6["manifest"].body), resources |-> res, texts |-> t]
    BY <2>1, <2>3
  <2>5. /\ record = [manifest |-> record.manifest, resources |-> record.resources, texts |-> record.texts]
        /\ record.manifest = Seed!parseSeedManifest(v6["manifest"].body)
    BY <2>4
  <2> QED BY <1>1, <1>2, <2>2, <2>5, SeedKeeps
<1>4. CASE ~Seed!parseJson(v6["manifest"].body)
  <2>1. \A r \in {1, 2} : ~SeedWhole(r)
    BY <1>2, <1>4 DEF Seed!parseJson, Seed!exactObject, Seed!Packaged
  <2>2. Seed!Refuse("bundled_seed.invalid") BY <1>4 DEF Seed!ManifestRead
  <2>3. v4 = 0 => SeedAbsent BY <2>1 DEF SeedInv, SeedUntouched
  <2> QED BY <1>1, <2>2, <2>3, SeedRefuses, SeedAssumption
<1> QED BY <1>3, <1>4

\* The resources have been hashed.
LEMMA SeedInspected == ASSUME SeedInv, Seed!Inspected PROVE SeedInv'
<1> DEFINE actual == [n \in Seed!expectedResourcePaths |-> Seed!Resource(n, v6[n].body)]
<1>1. UNCHANGED <<v1, v2, v3, v4>> /\ v5 = "inspect" /\ Seed!Looked BY DEF Seed!Inspected
<1>2. ASSUME NEW r \in {1, 2}, SeedWhole(r)
      PROVE  /\ v7.manifest = Seed!parseSeedManifest(Seed!Packaged(r))
             /\ actual = Seed!parseResourceRecord(r)
  <2>1. \A n \in Seed!expectedResourcePaths : v6[n].body = Seed!Packaged(r)
    BY <1>1, <1>2, SeedLooked DEF Seed!Looking
  <2> QED BY <1>1, <1>2, <2>1 DEF SeedWhole, SeedParsed, Seed!parseResourceRecord
<1>3. \A r \in {1, 2} : SeedWhole(r) => v7.manifest.resources = actual
  <2>1. \A r \in {1, 2} : /\ Seed!parseSeedManifest(Seed!Packaged(r)).resources = Seed!parseResourceRecord(r)
    BY DEF Seed!parseSeedManifest, Seed!Packaged
  <2> QED BY <1>2, <2>1
<1>4. CASE v7.manifest.resources = actual
  <2>1. PICK record : record = [v7 EXCEPT !.resources = actual] OBVIOUS
  <2>2. Seed!Keep(record, "texts") BY <1>4, <2>1 DEF Seed!Inspected, Seed!assertExactResourceList
  <2>3. PICK m, res, t : v7 = [manifest |-> m, resources |-> res, texts |-> t] BY DEF SeedInv, SeedForms
  <2>4. record = [manifest |-> m, resources |-> actual, texts |-> t] BY <2>1, <2>3
  <2>5. /\ record = [manifest |-> record.manifest, resources |-> record.resources, texts |-> record.texts]
        /\ record.manifest = v7.manifest /\ record.resources = actual
    BY <2>3, <2>4
  <2>6. \E b : v7.manifest = Seed!parseSeedManifest(b) BY <1>1 DEF SeedInv, SeedKept, SeedParsed
  <2> QED BY <1>1, <1>2, <1>4, <2>2, <2>5, <2>6, SeedKeeps
<1>5. CASE v7.manifest.resources # actual
  <2>1. Seed!Refuse("bundled_seed.integrity_failed")
    BY <1>5 DEF Seed!Inspected, Seed!assertExactResourceList
  <2>2. v4 = 0 => SeedAbsent BY <1>3, <1>5 DEF SeedInv, SeedUntouched
  <2> QED BY <1>1, <2>1, <2>2, SeedRefuses, SeedAssumption
<1> QED BY <1>4, <1>5

\* The texts have been read again: the answer.
LEMMA SeedLoads == ASSUME SeedInv, Seed!loadVerifiedBundledSeed PROVE SeedInv'
<1> DEFINE txt == [n \in Seed!texts |-> v6[n].body]
<1> DEFINE Parsed == /\ Seed!parsePluginPackageManifest(txt["package"])
                     /\ Seed!parsePluginGenerationManifest(txt["generation"], v7.manifest.revision)
<1> DEFINE Bound == Seed!assertManifestResourceBindings(v7.manifest, v7.resources, txt)
<1>1. UNCHANGED <<v1, v2, v3, v4>> /\ v5 = "texts" /\ Seed!Looked BY DEF Seed!loadVerifiedBundledSeed
<1>2. PICK b : v7.manifest = Seed!parseSeedManifest(b) BY <1>1 DEF SeedInv, SeedKept, SeedParsed
<1>3. v7.resources = v7.manifest.resources BY <1>1 DEF SeedInv, SeedKept
<1>4. ASSUME NEW r \in {1, 2}, SeedWhole(r) PROVE Parsed /\ Bound
  <2>1. \A n \in Seed!texts : v6[n].body = Seed!Packaged(r)
    BY <1>1, <1>4, SeedLooked DEF Seed!Looking
  <2>2. txt["package"] = Seed!Packaged(r) /\ txt["generation"] = Seed!Packaged(r)
    BY <2>1 DEF Seed!texts
  <2>3. v7.manifest = Seed!parseSeedManifest(Seed!Packaged(r)) BY <1>1, <1>4 DEF SeedWhole, SeedParsed
  <2>4. Seed!Packaged(r).release = r /\ Seed!Packaged(r).form = "packaged" BY DEF Seed!Packaged
  <2>5. /\ v7.manifest.revision = r /\ v7.manifest.resources = Seed!parseResourceRecord(r)
        /\ v7.manifest.labels = [n \in Seed!expectedResourcePaths |-> Seed!sha256(n, Seed!Packaged(r))]
        /\ v7.manifest.generationId = r
        /\ v7.manifest.identity =
              Seed!pluginGenerationIdentity(r, Seed!sha256("package", Seed!Packaged(r)))
    BY <2>3, <2>4 DEF Seed!parseSeedManifest
  <2>6. \A n \in Seed!expectedResourcePaths : v7.resources[n].sha256 = Seed!sha256(n, Seed!Packaged(r))
    BY <1>3, <2>5 DEF Seed!parseResourceRecord, Seed!Resource
  <2>7. Parsed
    BY <2>2, <2>4, <2>5 DEF Seed!parsePluginPackageManifest, Seed!parsePluginGenerationManifest,
       Seed!parseJson, Seed!exactObject
  <2>8. Bound
    BY <2>1, <2>2, <2>4, <2>5, <2>6
       DEF Seed!assertManifestResourceBindings, Seed!texts, Seed!expectedResourcePaths
  <2> QED BY <2>7, <2>8
<1>5. CASE ~Parsed /\ Seed!Refuse("bundled_seed.invalid")
  <2>1. v4 = 0 => SeedAbsent BY <1>4, <1>5 DEF SeedInv, SeedUntouched
  <2> QED BY <1>1, <1>5, <2>1, SeedRefuses, SeedAssumption
<1>6. CASE ~Bound /\ Seed!Refuse("bundled_seed.integrity_failed")
  <2>1. v4 = 0 => SeedAbsent BY <1>4, <1>6 DEF SeedInv, SeedUntouched
  <2> QED BY <1>1, <1>6, <2>1, SeedRefuses, SeedAssumption
<1>7. CASE /\ Parsed /\ Bound /\ v7' = [v7 EXCEPT !.texts = txt] /\ v8' = "verified" /\ v5' = "done"
           /\ v6' = [n \in Seed!Names |-> Seed!NoLook]
  <2>1. PICK m, res, t : v7 = [manifest |-> m, resources |-> res, texts |-> t] BY DEF SeedInv, SeedForms
  <2>2. v7' = [manifest |-> m, resources |-> res, texts |-> txt] BY <1>7, <2>1
  <2>3. v7'.manifest = v7.manifest /\ v7'.resources = v7.resources /\ v7'.texts = txt BY <2>1, <2>2
  <2>4. Seed!TypeOK' BY <1>1, <1>7, SeedAssumption DEF SeedInv, Seed!TypeOK, Seed!NoLook
  <2>5. SeedForms'
    <3>1. v7' = [manifest |-> v7'.manifest, resources |-> v7'.resources, texts |-> v7'.texts] BY <2>2
    <3> QED BY <1>1, <1>7, <3>1 DEF SeedInv, SeedForms, Seed!NoLook
  <2>6. SeedKept' BY <1>7 DEF SeedKept, SeedParsed
  <2>7. SeedBound'
    <3>1. v7.manifest.revision = b.release /\ v7.manifest.resources = Seed!parseResourceRecord(b.release)
      BY <1>2 DEF Seed!parseSeedManifest
    <3>2. \A n \in Seed!expectedResourcePaths :
            v7.resources[n] = Seed!Resource(n, Seed!Packaged(v7.manifest.revision))
      BY <1>3, <3>1 DEF Seed!parseResourceRecord
    <3>3. \A n \in Seed!texts : Seed!sha256(n, txt[n]) = v7.resources[n].sha256
      BY <1>7 DEF Seed!assertManifestResourceBindings
    <3>4. txt["generation"].release = v7.manifest.revision
      BY <1>7 DEF Seed!parsePluginGenerationManifest
    <3> QED BY <2>3, <3>2, <3>3, <3>4 DEF SeedBound
  <2>8. SeedUntouched'
    <3>1. \A r \in {1, 2} : SeedWhole(r) => SeedWhole(r)'
      BY <1>1, <1>7 DEF SeedWhole, SeedParsed, Seed!NoLook
    <3> QED BY <1>1, <3>1 DEF SeedInv, SeedUntouched, SeedAbsent
  <2> QED BY <2>4, <2>5, <2>6, <2>7, <2>8 DEF SeedInv
<1> QED BY <1>5, <1>6, <1>7 DEF Seed!loadVerifiedBundledSeed

\* Somebody changes the files: nothing is untouched any more.
LEMMA SeedChanges ==
  ASSUME SeedInv, (\E n \in Seed!Names : Seed!Replaced(n)) \/ \E d \in Seed!Dirs : Seed!Rearranged(d)
  PROVE  SeedInv'
<1>1. /\ v4' = v4 + 1 /\ v4 < MaxChanges /\ UNCHANGED <<v5, v6, v7, v8>> /\ v4 \in Nat
  <2>1. Seed!Changing /\ Seed!Untouched BY DEF Seed!Replaced, Seed!Rearranged
  <2>2. v4 \in Nat BY SeedAssumption DEF SeedInv, Seed!TypeOK
  <2> QED BY <2>1, <2>2 DEF Seed!Changing, Seed!Untouched
<1>2. v4' \in 0..MaxChanges /\ v4' # 0 BY <1>1, SeedAssumption
<1>3. DOMAIN v3 = Seed!Names /\ \A m \in Seed!Names : v3[m] = None \/ v3[m] \in Seed!Files(m)
  BY DEF SeedInv, SeedForms, Seed!TypeOK
<1>4. ASSUME v1' \in [Seed!Dirs -> {"directory", "link", "absent"}], v2' \subseteq Seed!Dirs,
             DOMAIN v3' = Seed!Names, \A m \in Seed!Names : v3'[m] = None \/ v3'[m] \in Seed!Files(m)
      PROVE  SeedInv'
  <2>1. Seed!TypeOK' BY <1>1, <1>2, <1>4 DEF SeedInv, Seed!TypeOK
  <2>2. SeedForms' BY <1>1, <1>4 DEF SeedInv, SeedForms
  <2>3. SeedKept' /\ SeedBound' BY <1>1 DEF SeedInv, SeedKept, SeedBound
  <2>4. SeedUntouched' BY <1>2 DEF SeedUntouched
  <2> QED BY <2>1, <2>2, <2>3, <2>4 DEF SeedInv
<1>5. ASSUME NEW n \in Seed!Names, Seed!Replaced(n) PROVE SeedInv'
  <2>1. UNCHANGED <<v1, v2>> BY <1>5 DEF Seed!Replaced
  <2>2. \/ \E b \in Seed!Bodies(n) : v3' = [v3 EXCEPT ![n] = [body |-> b, link |-> FALSE, stamp |-> v4']]
        \/ v3[n] # None /\ v3' = [v3 EXCEPT ![n].link = TRUE, ![n].stamp = v4']
        \/ v3' = [v3 EXCEPT ![n] = None]
    BY <1>5 DEF Seed!Replaced
  <2>3. \E f : v3' = [v3 EXCEPT ![n] = f] /\ (f = None \/ f \in Seed!Files(n))
    <3>1. ASSUME NEW b \in Seed!Bodies(n), v3' = [v3 EXCEPT ![n] = [body |-> b, link |-> FALSE, stamp |-> v4']]
          PROVE  \E f : v3' = [v3 EXCEPT ![n] = f] /\ (f = None \/ f \in Seed!Files(n))
      <4>1. PICK f : f = [body |-> b, link |-> FALSE, stamp |-> v4'] OBVIOUS
      <4>2. f \in Seed!Files(n) BY <1>2, <4>1 DEF Seed!Files
      <4> QED BY <3>1, <4>1, <4>2
    <3>2. CASE v3[n] # None /\ v3' = [v3 EXCEPT ![n].link = TRUE, ![n].stamp = v4']
      <4>1. v3[n] \in Seed!Files(n) BY <1>3, <3>2
      <4>2. PICK b \in Seed!Bodies(n), l \in BOOLEAN, s \in 0..MaxChanges :
              v3[n] = [body |-> b, link |-> l, stamp |-> s]
        BY <4>1 DEF Seed!Files
      <4>3. PICK f : f = [body |-> b, link |-> TRUE, stamp |-> v4'] OBVIOUS
      <4>4. v3' = [v3 EXCEPT ![n] = f]
        <5>1. PICK old : old = v3[n] OBVIOUS
        <5>2. old = [body |-> b, link |-> l, stamp |-> s] BY <4>2, <5>1
        <5>3. [old EXCEPT !.link = TRUE, !.stamp = v4'] = [body |-> b, link |-> TRUE, stamp |-> v4']
          <6>1. PICK t, x : t = TRUE /\ x = v4' OBVIOUS
          <6>2. [old EXCEPT !.link = t, !.stamp = x] = [body |-> b, link |-> t, stamp |-> x]
            <7>1. [old EXCEPT !.link = t] = [body |-> b, link |-> t, stamp |-> s] BY <5>2
            <7>2. [old EXCEPT !.link = t, !.stamp = x] = [[old EXCEPT !.link = t] EXCEPT !.stamp = x]
              BY <5>2
            <7>3. [[body |-> b, link |-> t, stamp |-> s] EXCEPT !.stamp = x] =
                    [body |-> b, link |-> t, stamp |-> x]
              OBVIOUS
            <7> QED BY <7>1, <7>2, <7>3
          <6> QED BY <6>1, <6>2
        <5>4. f = [old EXCEPT !.link = TRUE, !.stamp = v4'] BY <4>3, <5>3
        <5>5. v3' = [v3 EXCEPT ![n] = [old EXCEPT !.link = TRUE, !.stamp = v4']] BY <1>3, <3>2, <5>1
        <5> QED BY <5>4, <5>5
      <4>5. f \in Seed!Files(n) BY <1>2, <4>3 DEF Seed!Files
      <4> QED BY <4>4, <4>5
    <3>3. CASE v3' = [v3 EXCEPT ![n] = None] BY <3>3
    <3> QED BY <2>2, <3>1, <3>2, <3>3
  <2>4. DOMAIN v3' = Seed!Names /\ \A m \in Seed!Names : v3'[m] = None \/ v3'[m] \in Seed!Files(m)
    <3>1. PICK f : v3' = [v3 EXCEPT ![n] = f] /\ (f = None \/ f \in Seed!Files(n)) BY <2>3
    <3>2. DOMAIN v3' = Seed!Names BY <1>3, <3>1
    <3>3. \A m \in Seed!Names : v3'[m] = IF m = n THEN f ELSE v3[m] BY <1>3, <3>1
    <3> QED BY <1>3, <3>1, <3>2, <3>3
  <2> QED BY <1>4, <2>1, <2>4 DEF SeedInv, Seed!TypeOK
<1>6. ASSUME NEW d \in Seed!Dirs, Seed!Rearranged(d) PROVE SeedInv'
  <2>1. v1 \in [Seed!Dirs -> {"directory", "link", "absent"}] /\ v2 \subseteq Seed!Dirs
    BY DEF SeedInv, Seed!TypeOK
  <2>2. v1' \in [Seed!Dirs -> {"directory", "link", "absent"}] /\ v2' \subseteq Seed!Dirs
    BY <1>6, <2>1 DEF Seed!Rearranged
  <2>3. \/ v3' = v3
        \/ v3' = [n \in Seed!Names |-> IF d \in {Seed!Home(n), "root"} THEN None ELSE v3[n]]
    BY <1>6 DEF Seed!Rearranged
  <2>4. DOMAIN v3' = Seed!Names /\ \A m \in Seed!Names : v3'[m] = None \/ v3'[m] \in Seed!Files(m)
    BY <1>3, <2>3
  <2> QED BY <1>4, <2>2, <2>4
<1> QED BY <1>5, <1>6

\* Every step keeps the invariant.
LEMMA SeedSteps == ASSUME SeedInv, Seed!Next PROVE SeedInv'
BY SeedDirectories, SeedManifest, SeedInspected, SeedLoads, SeedFiles, SeedChanges DEF Seed!Next

-----------------------------------------------------------------------------
(* What runs, and what a restart would run. *)

\* The invariants of the components that run something.
RunsInv ==
  /\ part = "harness" => HarnessInv
  /\ part = "versions" => VersionsInv
  /\ part = "plugins" => PluginsInv
  /\ part = "roots" => RootsInv
  /\ part = "installations" => InstalledInv
  /\ part = "seed" => SeedInv

\* They hold at the start.
LEMMA RunsStarts == ASSUME Init PROVE RunsInv
BY HarnessStarts, VersionsStarts, PluginsStarts, RootsStarts, InstalledStarts, SeedStarts
   DEF RunsInv, Init, UpdateInit, WindowInit, LifecycleInit, HelperInit, ZoomInit,
       WorkbenchInit, HarnessRunInit, HarnessTreeInit, PluginsInit, RootsInit,
       InstalledInit, SeedInit, UsageInit, RemoteInit, TelemetryInit,
       RepositoryInit, MigrationsInit

\* A step of the run keeps them.
LEMMA RunsSteps == ASSUME RunsInv, Next PROVE RunsInv'
<1>1. CASE HarnessRunStep
  <2>1. part = "harness" /\ part' = part /\ HarnessRun!Next /\ HarnessInv
    BY <1>1 DEF HarnessRunStep, RunsInv
  <2> QED BY <2>1, HarnessSteps DEF RunsInv
<1>2. CASE HarnessTreeStep
  <2>1. part = "versions" /\ part' = part /\ HarnessTree!Next /\ VersionsInv
    BY <1>2 DEF HarnessTreeStep, RunsInv
  <2> QED BY <2>1, VersionsSteps DEF RunsInv
<1>3. CASE PluginsStep
  <2>1. part = "plugins" /\ part' = part /\ Plugins!Next /\ PluginsInv
    BY <1>3 DEF PluginsStep, RunsInv
  <2> QED BY <2>1, PluginsSteps DEF RunsInv
<1>4. CASE RootsStep
  <2>1. part = "roots" /\ part' = part /\ Roots!Next /\ RootsInv
    BY <1>4 DEF RootsStep, RunsInv
  <2> QED BY <2>1, RootsSteps DEF RunsInv
<1>5. CASE InstalledStep
  <2>1. part = "installations" /\ part' = part /\ Installed!Next /\ InstalledInv
    BY <1>5 DEF InstalledStep, RunsInv
  <2> QED BY <2>1, InstalledSteps DEF RunsInv
<1>6. CASE SeedStep
  <2>1. part = "seed" /\ part' = part /\ Seed!Next /\ SeedInv
    BY <1>6 DEF SeedStep, RunsInv
  <2> QED BY <2>1, SeedSteps DEF RunsInv
<1>7. CASE ~(HarnessRunStep \/ HarnessTreeStep \/ PluginsStep \/ RootsStep \/ InstalledStep \/ SeedStep)
  <2>1. part' \notin {"harness", "versions", "plugins", "roots", "installations", "seed"}
    BY <1>7 DEF Next, UpdateStep, WindowStep, LifecycleStep, HelperStep, ZoomStep, WorkbenchStep,
       UsageStep, RemoteStep, TelemetryStep, RepositoryStep, MigrationsStep
  <2> QED BY <2>1 DEF RunsInv
<1> QED BY <1>1, <1>2, <1>3, <1>4, <1>5, <1>6, <1>7

\* A step that changes nothing keeps them.
LEMMA RunsStutters == ASSUME RunsInv, UNCHANGED vars PROVE RunsInv'
<1>1. UNCHANGED <<part, v1, v2, v3, v4, v5, v6, v7, v8, v9, v10, v11, v12>> BY DEF vars
<1>2. HarnessInv => HarnessInv' BY <1>1 DEF HarnessInv, HarnessRun!TypeOK
<1>3. VersionsInv => VersionsInv'
  BY <1>1 DEF VersionsInv, HarnessTree!TypeOK, HarnessTree!PointerIsReady,
     HarnessTree!readHarnessReadiness
<1>4. PluginsInv => PluginsInv' BY <1>1 DEF PluginsInv, Plugins!TypeOK, Plugins!ProfileIsBacked
<1>5. RootsInv => RootsInv'
  <2>1. RootsTypes => RootsTypes' BY <1>1 DEF RootsTypes
  <2>2. CallStage => CallStage' BY <1>1 DEF CallStage, StageOf
  <2>3. RegistryKept => RegistryKept' BY <1>1 DEF RegistryKept, Roots!RootsAreConsistent
  <2> QED BY <2>1, <2>2, <2>3 DEF RootsInv
<1>6. InstalledInv => InstalledInv'
  BY <1>1 DEF InstalledInv, Installed!TypeOK, Installed!RunsWhatIsRecorded, InstalledStages
<1>7. SeedInv => SeedInv'
  <2>1. Seed!TypeOK => Seed!TypeOK' BY <1>1 DEF Seed!TypeOK
  <2>2. SeedForms => SeedForms' BY <1>1 DEF SeedForms
  <2>3. (SeedKept => SeedKept') /\ (SeedBound => SeedBound') BY <1>1 DEF SeedKept, SeedBound
  <2>4. SeedUntouched => SeedUntouched' BY <1>1 DEF SeedUntouched, SeedWhole, SeedAbsent
  <2> QED BY <2>1, <2>2, <2>3, <2>4 DEF SeedInv
<1> QED BY <1>1, <1>2, <1>3, <1>4, <1>5, <1>6, <1>7 DEF RunsInv

\* What runs, and what a restart would run, is what was recorded and checked, for every
\* number of calls, commits, plugins, directories, installations and changes to the files: a
\* Harness reported stopped never comes back and a live one is followed
\* (launcher-runtime-feed.ts, launcher-harness-service.ts); the version pointer names a built
\* version (launcher-version-store.ts); a plugin of the profile has its directory
\* (managed-plugin-sources.ts); the registered roots agree with the locator
\* (managed/service.ts); a started installation is the recorded one (installation-service.ts);
\* a seed answered as verified is one whole release (bundled-seed.ts).
THEOREM RunsWhatItRecordsHolds == Spec => []RunsWhatItRecords
<1>1. Init => RunsInv BY RunsStarts
<1>2. RunsInv /\ [Next]_vars => RunsInv' BY RunsSteps, RunsStutters
<1>3. RunsInv => RunsWhatItRecords
  <2>1. VersionsInv => HarnessTree!PointerIsReady BY DEF VersionsInv
  <2>2. PluginsInv => Plugins!ProfileIsBacked BY DEF PluginsInv
  <2>3. InstalledInv => Installed!RunsWhatIsRecorded BY DEF InstalledInv
  <2> QED BY <2>1, <2>2, <2>3, HarnessImplies, RootsImplies, SeedImplies DEF RunsInv, RunsWhatItRecords
<1> QED BY <1>1, <1>2, <1>3, PTL DEF Spec
=============================================================================
