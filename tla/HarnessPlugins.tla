--------------------------- MODULE HarnessPlugins ---------------------------
(***************************************************************************)
(* The plugins of DSH's native profile and the sources the launcher keeps  *)
(* for them: electron/main/managed/managed-plugin-sources.ts,              *)
(* plugin-archive.ts, profile-plugins.ts and the plugin operations of      *)
(* launcher-harness-service.ts.  The profile is DSH's, changed only by its *)
(* own command; directories and sources.json are the launcher's.  One      *)
(* operation runs at a time; every step may fail and the process may die.  *)
(***************************************************************************)
CONSTANTS PluginNames, PluginDirs, None

VARIABLES
  profile,  \* the profile's dependencies: a managed directory, "other" or None
  disk,     \* the managed directories that exist
  sources,  \* sources.json: the directory recorded for a name
  git,      \* the directories that are Git clones
  doc,      \* sources.json can be read: "whole" or "torn"
  op        \* the operation: its kind, where it is, its plugin, its directory

vars == <<profile, disk, sources, git, doc, op>>

NoOp == [kind |-> "none", at |-> "none", name |-> None, dir |-> None, fresh |-> FALSE]
Idle == op = NoOp
At(kind, at) == op.kind = kind /\ op.at = at
Goto(at) == op' = [op EXCEPT !.at = at]

\* #read: a document that is not valid refuses every operation
read == doc = "whole"

\* A random name, never used before
unused(d) == d \notin disk /\ \A n \in PluginNames : sources[n] # d

\* installPlugin: the views before, then a directory of its own.  adoptPlugin
\* does the same for a plugin the profile has from elsewhere.
install(n, d) ==
  /\ Idle /\ read /\ unused(d)
  /\ op' = [kind |-> "install", at |-> "materialize", name |-> n, dir |-> d,
            fresh |-> profile[n] = None]
  /\ UNCHANGED <<profile, disk, sources, git, doc>>

managedGitSource(n) == sources[n] # None /\ sources[n] \in git

adopt(n, d) ==
  /\ Idle /\ read /\ unused(d)
  /\ profile[n] # None /\ ~managedGitSource(n)
  /\ op' = [kind |-> "adopt", at |-> "materialize", name |-> n, dir |-> d, fresh |-> TRUE]
  /\ UNCHANGED <<profile, disk, sources, git, doc>>

\* A clone and an extraction that fail are removed, a copy that fails stays.
materialize(source, ok) ==
  /\ op.at = "materialize" /\ (op.kind = "adopt" => source = "git")
  /\ git' = IF source = "git" THEN git \cup {op.dir} ELSE git \ {op.dir}
  /\ disk' = IF ok \/ source = "local" THEN disk \cup {op.dir} ELSE disk
  /\ IF ok THEN Goto("add") ELSE op' = NoOp
  /\ UNCHANGED <<profile, sources, doc>>

\* DSH's command puts the directory into the profile; refused, it is discarded.
addCommand(ok) ==
  /\ op.at = "add"
  /\ IF ok THEN profile' = [profile EXCEPT ![op.name] = op.dir] /\ Goto("record")
     ELSE Goto("discard") /\ UNCHANGED profile
  /\ UNCHANGED <<disk, sources, git, doc>>

discard ==
  /\ op.at = "discard" /\ disk' = disk \ {op.dir} /\ op' = NoOp
  /\ UNCHANGED <<profile, sources, git, doc>>

\* The directory is discarded whatever failed.
recordDiscards ==
  /\ op.at = "record"
  /\ IF op.fresh /\ read /\ sources[op.name] = None
     THEN sources' = [sources EXCEPT ![op.name] = op.dir] /\ op' = NoOp
     ELSE UNCHANGED sources /\ Goto("discard")
  /\ UNCHANGED <<profile, disk, git, doc>>

\* Exactly one new plugin is recorded once; what fails here leaves the directory,
\* which the profile may refer to.
record ==
  /\ op.at = "record" /\ op' = NoOp
  /\ sources' = IF op.fresh /\ read /\ sources[op.name] = None
                THEN [sources EXCEPT ![op.name] = op.dir] ELSE sources
  /\ UNCHANGED <<profile, disk, git, doc>>

\* uninstallPlugin: the command first, then the directory, then the record
uninstall(n) ==
  /\ Idle /\ read /\ profile[n] # None
  /\ op' = [NoOp EXCEPT !.kind = "remove", !.at = "command", !.name = n]
  /\ UNCHANGED <<profile, disk, sources, git, doc>>

removeCommand(ok) ==
  /\ At("remove", "command")
  /\ IF ok THEN profile' = [profile EXCEPT ![op.name] = None] /\ Goto("directory")
     ELSE op' = NoOp /\ UNCHANGED profile
  /\ UNCHANGED <<disk, sources, git, doc>>

removeDirectory ==
  /\ At("remove", "directory")
  /\ IF sources[op.name] = None \/ sources[op.name] \notin disk
     THEN op' = NoOp /\ UNCHANGED disk
     ELSE disk' = disk \ {sources[op.name]} /\ Goto("write")
  /\ UNCHANGED <<profile, sources, git, doc>>

removeRecord ==
  /\ At("remove", "write") /\ op' = NoOp
  /\ sources' = [sources EXCEPT ![op.name] = None]
  /\ UNCHANGED <<profile, disk, git, doc>>

\* updatePlugin: the clone is moved, its revision recorded, then the command
update(n) ==
  /\ Idle /\ read /\ profile[n] # None /\ managedGitSource(n)
  /\ op' = [NoOp EXCEPT !.kind = "update", !.at = "write", !.name = n]
  /\ UNCHANGED <<profile, disk, sources, git, doc>>

\* refreshPlugins rewrites the document with the fetched status.
refreshGitSourceStatus ==
  /\ Idle /\ read /\ \A n \in PluginNames : managedGitSource(n) => sources[n] \in disk
  /\ op' = [NoOp EXCEPT !.kind = "refresh", !.at = "write"]
  /\ UNCHANGED <<profile, disk, sources, git, doc>>

Rewritten ==
  /\ op.kind \in {"update", "refresh"} /\ op' = NoOp
  /\ UNCHANGED <<profile, disk, sources, git, doc>>

\* A rewrite of the profile by DSH itself, outside the launcher
ProfileChanges(n) ==
  /\ Idle /\ profile' \in {[profile EXCEPT ![n] = None], [profile EXCEPT ![n] = "other"]}
  /\ UNCHANGED <<disk, sources, git, doc, op>>

\* The process dies.  The document is written in place, so a write in progress
\* leaves it whole or torn.
Crash ==
  /\ ~Idle /\ op' = NoOp
  /\ doc' \in IF op.at \in {"record", "write"} THEN {doc, "torn"} ELSE {doc}
  /\ UNCHANGED <<profile, disk, sources, git>>

Init ==
  /\ profile \in [PluginNames -> {"other", None}] /\ disk = {} /\ sources = [n \in PluginNames |-> None]
  /\ git = {} /\ doc = "whole" /\ op = NoOp

Next ==
  \/ discard \/ record \/ removeDirectory \/ removeRecord \/ refreshGitSourceStatus
  \/ Rewritten \/ Crash
  \/ \E n \in PluginNames : uninstall(n) \/ update(n) \/ ProfileChanges(n)
  \/ \E n \in PluginNames, d \in PluginDirs : install(n, d) \/ adopt(n, d)
  \/ \E ok \in BOOLEAN :
       \/ addCommand(ok) \/ removeCommand(ok)
       \/ \E source \in {"git", "local", "archive"} : materialize(source, ok)

Spec == Init /\ [][Next]_vars

TypeOK ==
  /\ profile \in [PluginNames -> PluginDirs \cup {"other", None}] /\ disk \subseteq PluginDirs
  /\ sources \in [PluginNames -> PluginDirs \cup {None}] /\ git \subseteq PluginDirs
  /\ doc \in {"whole", "torn"} /\ op.name \in PluginNames \cup {None}

(* The profile never refers to a managed directory that is gone, whichever   *)
(* step fails and whenever the process dies, and no directory has two names. *)
ProfileIsBacked ==
  /\ \A n \in PluginNames : profile[n] \in PluginDirs => profile[n] \in disk
  /\ \A m, n \in PluginNames : sources[m] = sources[n] /\ sources[m] # None => m = n
=============================================================================
