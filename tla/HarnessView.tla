----------------------------- MODULE HarnessView -----------------------------
(***************************************************************************)
(* What the window knows of the Launcher-owned DSH checkout:               *)
(* useLauncherHarness.ts with versionViewState.ts and the panels that read *)
(* them.  The state is one per window, every panel that mounts reads it    *)
(* again, a timer reads it silently, and main pushes console entries that  *)
(* overtake the answers.  A step is what runs between two awaits.          *)
(***************************************************************************)
EXTENDS Naturals, FiniteSets, FiniteSetsExt

CONSTANTS
  Packages,    \* plugin packages, numbered
  Source,      \* the repository each package comes from
  FEED_LIMIT,  \* CONSOLE_FEED_LIMIT
  MaxSeq,      \* bounds the console entries main writes
  MaxOps,      \* bounds the operations
  MaxCalls,    \* bounds the calls in flight
  None

VARIABLES
  main,      \* what Electron main holds: launch, the installed packages
  head,      \* the sequence of main's newest console entry
  pushed,    \* entries pushed and not yet received
  calls,     \* the calls in flight
  view,      \* the state last put up; None before the first answer
  feed,      \* the console feed, as its sequences
  told,      \* entries received since the feed was last cleared
  error, loading, active,
  selected,  \* selectedPluginNames
  batch,     \* the uninstall loop under way: what is left, what it set out to do
  tried,     \* what the loop has asked main for
  ops        \* operations begun

vars == <<main, head, pushed, calls, view, feed, told, error, loading,
          active, selected, batch, tried, ops>>

Operations ==
  {"start", "stop", "switch", "install", "uninstall"}
Failed == "refused"
Unread == "unreadable"

InFlight(kinds) == {n \in 1..MaxCalls : calls[n] # None /\ calls[n].kind \in kinds}
Free == {n \in 1..MaxCalls : calls[n] = None}

newest(s) == {e \in s : Cardinality({x \in s : x > e}) < FEED_LIMIT}

\* A snapshot that arrives late replaces the feed
mergeReplaces(current, incoming) == newest(incoming)

\* Union by sequence, keeping the newest slice
mergeConsoleEntries(current, incoming) == newest(current \cup incoming)

\* Main keeps as many entries as the feed does.
Snapshot == [launch |-> main.launch, plugins |-> main.plugins, console |-> newest(1..head)]

(* ------------------------------ the surfaces ------------------------------ *)

ready == view # None

canStart == ready /\ view.launch # "running" /\ ~loading

\* The primary action of the launch page and of the console is start or stop.
toggleLaunch == ready /\ ~loading

\* The buttons of the core tab give way to a running DSH, the checkbox of a version
\* only to what is busy: main has the last word.
CoreTab == ready /\ ~loading

\* Every control of the plugins tab gives way to what is busy.
PluginsTab == ready /\ ~loading

\* A repository's packages are one extension, offered as one row.
installedExtensionGroups ==
  IF ~ready THEN {} ELSE {{p \in view.plugins : Source[p] = s} : s \in {Source[p] : p \in view.plugins}}

isExtensionGroupSelected(g) == g \subseteq selected

selectedPluginCount == Cardinality({g \in installedExtensionGroups : isExtensionGroupSelected(g)})

\* The catalog tab offers the repositories nothing is installed from.
isCatalogEntryInstalled(s) == ready /\ \E p \in view.plugins : Source[p] = s
CatalogTab(s) == ready /\ ~loading /\ ~isCatalogEntryInstalled(s)

\* The status bar names the operation under way.
statusbarOperationLabel == active

(* ------------------------------- the console ------------------------------ *)

Written ==
  /\ head < MaxSeq
  /\ head' = head + 1
  /\ pushed' = pushed \cup {head + 1}
  /\ UNCHANGED <<main, calls, view, feed, told, error, loading, active,
                 selected, batch, tried, ops>>

onConsoleAppend ==
  /\ pushed # {}
  /\ pushed' = {}
  /\ feed' = mergeConsoleEntries(feed, pushed)
  /\ told' = told \cup pushed
  /\ UNCHANGED <<main, head, calls, view, error, loading, active,
                 selected, batch, tried, ops>>

clearOutput ==
  /\ feed # {}
  /\ feed' = {}
  /\ told' = {}
  /\ UNCHANGED <<main, head, pushed, calls, view, error, loading, active,
                 selected, batch, tried, ops>>

(* -------------------------------- the reads ------------------------------- *)

Call(kind, op, on) == [kind |-> kind, op |-> op, on |-> on, answer |-> None, code |-> None]

\* The panel of a route mounts.  Its read does not ask whether an operation runs.
refresh ==
  /\ Free # {}
  /\ loading' = TRUE
  /\ calls' = [calls EXCEPT ![Min(Free)] = Call("refresh", None, None)]
  /\ UNCHANGED <<main, head, pushed, view, feed, told, error, active,
                 selected, batch, tried, ops>>

\* The timer, or the window coming back into view.
refreshSilently ==
  /\ ~loading /\ InFlight({"silent"}) = {} /\ Free # {}
  /\ calls' = [calls EXCEPT ![Min(Free)] = Call("silent", None, None)]
  /\ UNCHANGED <<main, head, pushed, view, feed, told, error, loading, active,
                 selected, batch, tried, ops>>

\* Main answers a read: a snapshot of that moment, delivered later.
ReadAnswered(n) ==
  /\ n \in InFlight({"refresh", "silent", "reread"})
  /\ calls[n].answer = None /\ calls[n].code = None
  /\ \/ calls' = [calls EXCEPT ![n].answer = Snapshot]
     \/ calls' = [calls EXCEPT ![n].code = Unread]
  /\ UNCHANGED <<main, head, pushed, view, feed, told, error, loading, active,
                 selected, batch, tried, ops>>

TakeSnapshot(s) ==
  /\ view' = [launch |-> s.launch, plugins |-> s.plugins]
  /\ feed' = mergeConsoleEntries(feed, s.console)
  /\ told' = told \cup s.console

readState(n) ==
  /\ n \in InFlight({"refresh", "silent"})
  /\ \/ /\ calls[n].answer # None
        /\ TakeSnapshot(calls[n].answer)
        /\ error' = None
     \/ /\ calls[n].code # None
        /\ error' = calls[n].code
        /\ UNCHANGED <<view, feed, told>>
  /\ loading' = IF calls[n].kind = "refresh" THEN FALSE ELSE loading
  /\ calls' = [calls EXCEPT ![n] = None]
  /\ UNCHANGED <<main, head, pushed, active, selected, batch, tried, ops>>

(* ----------------------------- the operations ----------------------------- *)

Begin(op, on) ==
  /\ ops < MaxOps /\ Free # {}
  /\ ops' = ops + 1
  /\ loading' = TRUE
  /\ active' = op
  /\ calls' = [calls EXCEPT ![Min(Free)] = Call("op", op, on)]

start ==
  /\ toggleLaunch /\ canStart
  /\ Begin("start", None)
  /\ UNCHANGED <<main, head, pushed, view, feed, told, error, selected, batch, tried>>

\* Stop looks at the launch, not at whether something is busy; its button does.
stop ==
  /\ toggleLaunch /\ view.launch = "running"
  /\ Begin("stop", None)
  /\ UNCHANGED <<main, head, pushed, view, feed, told, error, selected, batch, tried>>

\* Switching a version, a branch, an update or a fetch
switchVersion ==
  /\ CoreTab
  /\ Begin("switch", None)
  /\ UNCHANGED <<main, head, pushed, view, feed, told, error, selected, batch, tried>>

installPlugin(s) ==
  /\ CatalogTab(s)
  /\ Begin("install", s)
  /\ UNCHANGED <<main, head, pushed, view, feed, told, error, selected, batch, tried>>

toggleExtensionGroupSelection(g) ==
  /\ g \in installedExtensionGroups /\ PluginsTab
  /\ selected' = IF isExtensionGroupSelected(g) THEN selected \ g ELSE selected \cup g
  /\ UNCHANGED <<main, head, pushed, calls, view, feed, told, error, loading,
                 active, batch, tried, ops>>

toggleAllPlugins ==
  LET all == UNION installedExtensionGroups IN
  /\ installedExtensionGroups # {} /\ PluginsTab
  /\ selected' = IF \A g \in installedExtensionGroups : isExtensionGroupSelected(g)
                 THEN selected \ all ELSE selected \cup all
  /\ UNCHANGED <<main, head, pushed, calls, view, feed, told, error, loading,
                 active, batch, tried, ops>>

\* The loop asks for one package after the other, in the order of the selection.
uninstallSelected ==
  /\ selectedPluginCount > 0 /\ PluginsTab /\ batch = None
  /\ Begin("uninstall", Min(selected))
  /\ batch' = [rest |-> selected \ {Min(selected)}, all |-> selected]
  /\ tried' = {Min(selected)}
  /\ UNCHANGED <<main, head, pushed, view, feed, told, error, selected>>

\* Main carries an operation out, or refuses it and writes why to the console.
OperationAnswered(n) ==
  /\ n \in InFlight({"op"}) /\ calls[n].answer = None /\ calls[n].code = None
  /\ \/ LET op == calls[n].op
            next == CASE op = "start" -> [main EXCEPT !.launch = "running"]
                      [] op = "stop" -> [main EXCEPT !.launch = "stopped"]
                      [] op = "install" ->
                           [main EXCEPT !.plugins = @ \cup {p \in Packages : Source[p] = calls[n].on}]
                      [] op = "uninstall" -> [main EXCEPT !.plugins = @ \ {calls[n].on}]
                      [] op = "switch" -> main
        IN /\ op = "switch" => main.launch = "stopped"
           /\ main' = next
           /\ calls' = [calls EXCEPT ![n].answer =
                [launch |-> next.launch, plugins |-> next.plugins, console |-> newest(1..head)]]
     \/ /\ calls' = [calls EXCEPT ![n].code = Failed]
        /\ UNCHANGED main
  /\ UNCHANGED <<head, pushed, view, feed, told, error, loading, active,
                 selected, batch, tried, ops>>

\* A refused operation reads the state again before it stops being busy.
OperationRefused(n) ==
  /\ n \in InFlight({"op"}) /\ calls[n].code # None
  /\ error' = calls[n].code
  /\ calls' = [calls EXCEPT ![n] = [@ EXCEPT !.kind = "reread", !.code = None]]
  /\ UNCHANGED <<main, head, pushed, view, feed, told, loading, active, selected,
                 batch, tried, ops>>

\* What follows an operation of the loop, in the same turn: the next one is asked for,
\* unless something is busy; the last one clears the selection.
NextOfBatch(n, busy) ==
  IF batch = None \/ calls[n].op # "uninstall"
  THEN /\ calls' = [calls EXCEPT ![n] = None]
       /\ loading' = busy /\ active' = None
       /\ UNCHANGED <<batch, tried, selected>>
  ELSE IF batch.rest = {} \/ busy
  THEN /\ calls' = [calls EXCEPT ![n] = None]
       /\ loading' = busy /\ active' = None
       /\ batch' = None
       /\ selected' = {}
       /\ UNCHANGED tried
  ELSE LET p == Min(batch.rest) IN
       /\ calls' = [calls EXCEPT ![n] = Call("op", "uninstall", p)]
       /\ loading' = TRUE /\ active' = "uninstall"
       /\ batch' = [batch EXCEPT !.rest = @ \ {p}]
       /\ tried' = tried \cup {p}
       /\ UNCHANGED selected

\* The flag is left to the caller that set it
settleBusy(n) == NextOfBatch(n, InFlight({"op", "reread"}) \ {n} # {} \/ batch # None)

settle(n) == NextOfBatch(n, FALSE)

applyOperation(n) ==
  /\ \/ /\ n \in InFlight({"op"}) /\ calls[n].answer # None
        /\ TakeSnapshot(calls[n].answer)
        /\ error' = None
     \/ /\ n \in InFlight({"reread"}) /\ calls[n].answer # None
        /\ TakeSnapshot(calls[n].answer)
        /\ error' = Failed
     \/ /\ n \in InFlight({"reread"}) /\ calls[n].code # None
        /\ error' = Failed
        /\ UNCHANGED <<view, feed, told>>
  /\ settle(n)
  /\ UNCHANGED <<main, head, pushed, ops>>

Init ==
  /\ main \in [launch : {"stopped"}, plugins : {Packages}]
  /\ head = 0 /\ pushed = {}
  /\ calls = [n \in 1..MaxCalls |-> None]
  /\ view = None /\ feed = {} /\ told = {} /\ error = None
  /\ loading = FALSE /\ active = None
  /\ selected = {} /\ batch = None /\ tried = {} /\ ops = 0

Next ==
  \/ Written \/ onConsoleAppend \/ clearOutput
  \/ refresh \/ refreshSilently
  \/ \E n \in 1..MaxCalls :
       \/ ReadAnswered(n) \/ readState(n)
       \/ OperationAnswered(n) \/ OperationRefused(n) \/ applyOperation(n)
  \/ start \/ stop \/ switchVersion
  \/ \E s \in {Source[p] : p \in Packages} : installPlugin(s)
  \/ \E g \in SUBSET Packages : toggleExtensionGroupSelection(g)
  \/ toggleAllPlugins \/ uninstallSelected

Spec == Init /\ [][Next]_vars

(* ------------------------------- properties ------------------------------- *)

TypeOK ==
  /\ main \in [launch : {"stopped", "running"}, plugins : SUBSET Packages]
  /\ head \in 0..MaxSeq /\ pushed \subseteq 1..head /\ feed \subseteq 1..head
  /\ loading \in BOOLEAN /\ active \in Operations \cup {None}
  /\ selected \subseteq Packages /\ tried \subseteq Packages /\ ops \in 0..MaxOps

\* The feed is the newest slice of everything the window was told of since it was last
\* cleared, in whatever order snapshots and pushed entries arrived
\* (useLauncherHarness.ts:34-40, 68-85).
FeedLosesNothing == feed = newest(told)

\* The window is busy, and names an operation, only while a call that will end it is in
\* flight (useLauncherHarness.ts:136-143, 320-347).
BusyIsInFlight ==
  /\ loading => InFlight({"refresh", "op", "reread"}) # {}
  /\ active # None => InFlight({"op", "reread"}) # {}

BatchStep ==
  batch # None /\ batch' = None => batch.all \subseteq tried

\* The loop over the selected packages asks for each of them before it clears the
\* selection, although each step of it gives way when the window is busy
\* (versionViewState.ts:238-243).
BatchTriesAll == [][BatchStep]_vars
==============================================================================
