---------------------------- MODULE ManagedRoots ----------------------------
(***************************************************************************)
(* The directories the launcher manages and the workspaces inside them:    *)
(* electron/main/managed/service.ts with bootstrap-locator.ts, registry.ts,*)
(* capabilities.ts, filesystem.ts, validation.ts, workspace-directories.ts *)
(* and workspace-profile-artifacts.ts.  Three files are written one after  *)
(* the other: a locator in the application's directory, then the registry  *)
(* and the installation catalog inside the root the locator names.  A save *)
(* may fail before or after it took effect, and the process may die.       *)
(***************************************************************************)
EXTENDS Naturals, Sequences, FiniteSets

CONSTANTS
  Paths,    \* canonical directories, as sequences of segments
  HomeDir,     \* DSH's own home directory
  Default,  \* the default roots: a directory for each kind
  Caps,     \* capability identifiers
  None

VARIABLES
  locator,  \* the settings root the locator file names, or None
  registry, \* for a settings root: the registered roots and workspaces, or None
  catalog,  \* the settings roots that hold an installation catalog
  entries,  \* the directories with something in them
  made,     \* the workspaces whose directories exist
  caps,     \* a directory selection: its purpose ("none", "spent") and path
  busy,     \* #mutationActive
  calls,    \* the calls under way: what each does, where it is, what for
  lost,     \* the answer of a registry commit that took effect was lost
  answer    \* the last answer of getState

vars == <<locator, registry, catalog, entries, made, caps, busy, calls, lost, answer>>

Kinds == {"settings", "harness"}
CallSlots == {1, 2}
NoCall == [kind |-> "none", at |-> "none", roots |-> None, use |-> {}, work |-> None]
Files == <<locator, registry, catalog, entries, made, lost>>

isSameOrAncestor(parent, child) ==
  Len(parent) <= Len(child) /\ SubSeq(child, 1, Len(parent)) = parent

pathsOverlap(left, right) == isSameOrAncestor(left, right) \/ isSameOrAncestor(right, left)

assertOutsideNativeDshHome(p) == ~pathsOverlap(p, HomeDir)

assertManagedRootLayout(roots) ==
  /\ \A k \in Kinds : assertOutsideNativeDshHome(roots[k])
  /\ \A k, l \in Kinds : k # l => ~pathsOverlap(roots[k], roots[l])

\* A working directory stays outside every root and outside DSH's home.
assertWorkspaceBinding(work, roots) ==
  /\ assertOutsideNativeDshHome(work)
  /\ \A k \in Kinds : ~pathsOverlap(roots[k], work)

assertWorkspacesDoNotOverlap(works) ==
  \A v, w \in works : v # w => ~pathsOverlap(v.path, w.path)

\* What the core commits and reads, and the shell parses again
validateManagedRootRegistry(r) ==
  /\ assertManagedRootLayout(r.roots)
  /\ \A w \in r.works : assertWorkspaceBinding(w.path, r.roots)
  /\ assertWorkspacesDoNotOverlap(r.works)

\* A locator read back names a directory the launcher may own.
validateManagedBootstrapLocator(p) == assertOutsideNativeDshHome(p)

(***************************************************************************)
(* Capabilities of selected directories                                    *)
(***************************************************************************)
Unissued == [purpose |-> "none", path |-> <<>>]
Spent == [purpose |-> "spent", path |-> <<>>]
Held(cap, purpose) == caps[cap].purpose = purpose

selectDirectory(cap, purpose, p) ==
  /\ caps[cap] = Unissued /\ caps' = [caps EXCEPT ![cap] = [purpose |-> purpose, path |-> p]]
  /\ UNCHANGED <<locator, registry, catalog, entries, made, busy, calls, lost, answer>>

\* consume inspects again: one that expired since refuses the operation, and the
\* ones before it are spent.
Expire(cap) ==
  /\ caps[cap] \notin {Unissued, Spent} /\ caps' = [caps EXCEPT ![cap] = Spent]
  /\ UNCHANGED <<locator, registry, catalog, entries, made, busy, calls, lost, answer>>

(***************************************************************************)
(* Calls: one mutation at a time                                           *)
(***************************************************************************)
Goto(c, at) == calls' = [calls EXCEPT ![c].at = at]
Ends(c) == calls' = [calls EXCEPT ![c] = NoCall] /\ busy' = FALSE
runExclusive(c, call) == ~busy /\ busy' = TRUE /\ calls' = [calls EXCEPT ![c] = call]

missing_bootstrap_locator == locator = None
missing_registry == ~missing_bootstrap_locator /\ registry[locator] = None
Ready == /\ ~missing_bootstrap_locator /\ ~missing_registry
         /\ validateManagedBootstrapLocator(locator)
         /\ validateManagedRootRegistry(registry[locator])
         /\ locator \in catalog /\ registry[locator].roots.settings = locator

Defaults == [NoCall EXCEPT !.kind = "register", !.at = "assertInitialSetup", !.roots = Default]

\* getState: a registry that is missing under a locator is registered on the spot.
getState(c) ==
  /\ calls[c] = NoCall
  /\ \/ ~missing_registry /\ UNCHANGED <<calls, busy>>
        /\ answer' = IF missing_bootstrap_locator THEN "setup-required"
                     ELSE IF Ready THEN "ready" ELSE "recovery-required"
     \/ missing_registry /\ busy /\ answer' = "in_progress" /\ UNCHANGED <<calls, busy>>
     \/ missing_registry /\ runExclusive(c, [Defaults EXCEPT !.kind = "state"])
        /\ UNCHANGED answer
  /\ UNCHANGED <<locator, registry, catalog, entries, made, caps, lost>>

initializeDefaultRoots(c) ==
  /\ calls[c] = NoCall /\ missing_bootstrap_locator /\ runExclusive(c, Defaults)
  /\ UNCHANGED <<Files, caps, answer>>

\* registerRoots: a selection for each kind
registerRoots(c, use) ==
  /\ calls[c] = NoCall
  /\ runExclusive(c, [NoCall EXCEPT !.kind = "register", !.at = "assertInitialSetup", !.use = use])
  /\ UNCHANGED <<Files, caps, answer>>

assertInitialSetupSkipped(c) ==
  /\ calls[c].at = "assertInitialSetup"
  /\ Goto(c, IF calls[c].use = {} THEN "layout" ELSE "inspect") /\ UNCHANGED <<busy, answer>>
  /\ UNCHANGED <<Files, caps>>

assertInitialSetup(c) ==
  /\ calls[c].at = "assertInitialSetup"
  /\ IF missing_bootstrap_locator
     THEN /\ Goto(c, IF calls[c].use = {} THEN "layout" ELSE "inspect")
          /\ UNCHANGED <<busy, answer>>
     ELSE /\ Ends(c)
          /\ answer' = IF calls[c].kind = "state" THEN "setup_already_complete" ELSE answer
  /\ UNCHANGED <<Files, caps>>

Chosen(use, k) == CHOOSE cap \in use : caps[cap].purpose = k

\* Every selection is inspected, and its directory read again, before any is spent.
inspectRoots(c) ==
  /\ calls[c].at = "inspect"
  /\ IF \A k \in Kinds : \E cap \in calls[c].use : Held(cap, k)
     THEN LET roots == [k \in Kinds |-> caps[Chosen(calls[c].use, k)].path] IN
          calls' = [calls EXCEPT ![c] = [@ EXCEPT !.at = "layout", !.roots = roots]] /\ UNCHANGED busy
     ELSE Ends(c)
  /\ UNCHANGED <<Files, caps, answer>>

\* The roots do not overlap and chosen ones are empty; the registry's directory is
\* made inside the settings root.
ensureRegistryDirectory(c) ==
  /\ calls[c].at = "layout"
  /\ LET roots == calls[c].roots IN
     IF assertManagedRootLayout(roots)
        /\ (calls[c].use # {} => \A k \in Kinds : roots[k] \notin entries)
     THEN entries' = entries \cup {roots.settings} /\ Goto(c, "consume") /\ UNCHANGED busy
     ELSE Ends(c) /\ UNCHANGED entries
  /\ UNCHANGED <<locator, registry, catalog, made, caps, lost, answer>>

consumeRoots(c) ==
  /\ calls[c].at = "consume"
  /\ LET held == {cap \in calls[c].use : caps[cap] # Spent} IN
     /\ caps' = [cap \in Caps |-> IF cap \in held THEN Spent ELSE caps[cap]]
     /\ IF held = calls[c].use THEN Goto(c, "locator") /\ UNCHANGED busy ELSE Ends(c)
  /\ UNCHANGED <<Files, answer>>

\* The locator's file is written aside, renamed and read back: an error is reported
\* before or after the rename.
saveLocator(c, ok, done) ==
  /\ calls[c].at = "locator" /\ (ok => done)
  /\ done => validateManagedBootstrapLocator(calls[c].roots.settings)
  /\ locator' = IF done THEN calls[c].roots.settings ELSE locator
  /\ IF ok THEN Goto(c, "registry") /\ UNCHANGED busy ELSE Ends(c)
  /\ UNCHANGED <<registry, catalog, entries, made, caps, lost, answer>>

\* The core commits the registry; its answer may be lost.
saveRegistry(c, ok, done) ==
  /\ calls[c].at = "registry" /\ (ok => done)
  /\ registry' = IF done
                 THEN [registry EXCEPT ![calls[c].roots.settings] = [roots |-> calls[c].roots, works |-> {}]]
                 ELSE registry
  /\ IF ok THEN Goto(c, "catalog") /\ UNCHANGED busy ELSE Ends(c)
  /\ UNCHANGED <<locator, catalog, entries, made, caps, lost, answer>>

saveCatalog(c, ok, done) ==
  /\ calls[c].at = "catalog" /\ (ok => done) /\ Ends(c)
  /\ catalog' = IF done THEN catalog \cup {calls[c].roots.settings} ELSE catalog
  /\ UNCHANGED <<locator, registry, entries, made, caps, lost, answer>>

(***************************************************************************)
(* Workspaces                                                              *)
(***************************************************************************)
createWorkspace(c, cap) ==
  /\ calls[c] = NoCall /\ Ready
  /\ Held(cap, "workspace") /\ assertWorkspaceBinding(caps[cap].path, registry[locator].roots)
  /\ runExclusive(c, [NoCall EXCEPT !.kind = "workspace", !.at = "directories", !.use = {cap},
                                    !.work = [id |-> cap, path |-> caps[cap].path]])
  /\ caps' = [caps EXCEPT ![cap] = Spent]
  /\ UNCHANGED <<Files, answer>>

\* Each root gets a directory of the workspace; what was made is removed when a
\* later one fails.
createManagedWorkspaceDirectories(c, ok) ==
  /\ calls[c].at = "directories"
  /\ IF ok THEN made' = made \cup {calls[c].work.id} /\ Goto(c, "artifacts") /\ UNCHANGED busy
     ELSE Ends(c) /\ UNCHANGED made
  /\ UNCHANGED <<locator, registry, catalog, entries, caps, lost, answer>>

\* The first files of the workspace: a failure takes the directories back.
createDesktopWorkspaceProfileArtifacts(c, ok) ==
  /\ calls[c].at = "artifacts" /\ Goto(c, IF ok THEN "save" ELSE "remove")
  /\ UNCHANGED <<Files, caps, busy, answer>>

\* The core refuses a workspace that overlaps another.
commitWorkspace(c, ok, done) ==
  /\ calls[c].at = "save" /\ (ok => done)
  /\ LET next == [registry[locator] EXCEPT !.works = @ \cup {calls[c].work}] IN
     /\ done => validateManagedRootRegistry(next)
     /\ registry' = IF done THEN [registry EXCEPT ![locator] = next] ELSE registry
  /\ lost' = (lost \/ (done /\ ~ok))
  /\ IF ok THEN Ends(c) ELSE Goto(c, "remove") /\ UNCHANGED busy
  /\ UNCHANGED <<locator, catalog, entries, made, caps, answer>>

\* A save that reported an error is undone: the directories go, the record stays if
\* the core had committed it.
removeManagedWorkspaceDirectories(c) ==
  /\ calls[c].at = "remove" /\ Ends(c)
  /\ made' = made \ {calls[c].work.id}
  /\ UNCHANGED <<locator, registry, catalog, entries, caps, lost, answer>>

\* The process dies: the files stay, the capabilities were in memory.
Crash ==
  /\ busy /\ busy' = FALSE /\ calls' = [c \in CallSlots |-> NoCall]
  /\ caps' = [cap \in Caps |-> IF caps[cap] = Unissued THEN Unissued ELSE Spent]
  /\ answer' = "none"
  /\ UNCHANGED Files

Init ==
  /\ locator = None /\ registry = [p \in Paths |-> None] /\ catalog = {} /\ entries = {}
  /\ made = {} /\ caps = [cap \in Caps |-> Unissued] /\ busy = FALSE
  /\ calls = [c \in CallSlots |-> NoCall] /\ lost = FALSE /\ answer = "none"

Next ==
  \/ Crash
  \/ \E cap \in Caps : Expire(cap)
  \/ \E cap \in Caps, purpose \in Kinds \cup {"workspace"}, p \in Paths : selectDirectory(cap, purpose, p)
  \/ \E c \in CallSlots :
       \/ getState(c) \/ initializeDefaultRoots(c) \/ assertInitialSetup(c) \/ inspectRoots(c)
       \/ ensureRegistryDirectory(c) \/ consumeRoots(c) \/ removeManagedWorkspaceDirectories(c)
       \/ \E use \in SUBSET Caps : Cardinality(use) = Cardinality(Kinds) /\ registerRoots(c, use)
       \/ \E cap \in Caps : createWorkspace(c, cap)
       \/ \E ok \in BOOLEAN :
            createManagedWorkspaceDirectories(c, ok) \/ createDesktopWorkspaceProfileArtifacts(c, ok)
       \/ \E ok, done \in BOOLEAN :
            saveLocator(c, ok, done) \/ saveRegistry(c, ok, done) \/ saveCatalog(c, ok, done)
            \/ commitWorkspace(c, ok, done)

Spec == Init /\ [][Next]_vars

TypeOK ==
  /\ locator \in Paths \cup {None} /\ DOMAIN registry = Paths /\ catalog \subseteq Paths
  /\ entries \subseteq Paths /\ made \subseteq Caps /\ busy \in BOOLEAN
  /\ busy = (\E c \in CallSlots : calls[c] # NoCall)

(* Whatever fails and whenever the process dies, a registry lies only where  *)
(* the locator points, and a registered workspace overlaps no root and no    *)
(* other workspace and has its directories unless the core's answer was lost *)
(* (managed/service.ts, validation.ts).                                      *)
RootsAreConsistent ==
  \A p \in Paths : registry[p] # None =>
    /\ locator = p /\ registry[p].roots.settings = p
    /\ \A w \in registry[p].works :
         /\ \A q \in {registry[p].roots[k] : k \in Kinds} \cup {v.path : v \in registry[p].works \ {w}} :
              ~pathsOverlap(q, w.path)
         /\ lost \/ w.id \in made

(* getState arranges the defaults when the located root has no registry yet  *)
(* (the comment at service.ts:141), so it never answers that setup is over.  *)
FirstRunIsArranged == answer # "setup_already_complete"
=============================================================================
