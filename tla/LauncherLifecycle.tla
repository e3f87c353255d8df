------------------------- MODULE LauncherLifecycle -------------------------
(***************************************************************************)
(* The launcher's process from its start to its exit: electron/main.ts,    *)
(* launcher-shutdown.ts, launcher-tray.ts and the core's process           *)
(* (core/supervisor.ts).  A quit may come from the menu, the tray, the     *)
(* last window or a signal, twice, while windows hide and a core dies.     *)
(***************************************************************************)
EXTENDS FiniteSets

VARIABLES
  darwin,    \* the platform keeps an application without windows
  boot,      \* "core", "services", "up"
  core,      \* the core's process: "none", "spawned", "attached", "gone"
  window,    \* "none", "shown", "hidden"
  tray,      \* the tray icon exists
  behavior,  \* currentBehavior: "quit" or "minimize-to-tray"
  force,     \* forceQuitting
  busy,      \* a managed operation is active
  phase,     \* the quit sequence: "idle", "connections", "core", "runtime", "complete"
  live,      \* owners whose shutdown has not settled
  failed,    \* an owner's shutdown was refused
  exit       \* "no", "clean", "failed"

vars == <<darwin, boot, core, window, tray, behavior, force, busy, phase, live, failed, exit>>

Connections == {"peerManagement", "remoteConnectionService", "remotePeerBroker"}
Owners == Connections \cup {"coreSupervisor", "launcherHarnessService"}

\* CoreSupervisor.start: an autostarted core is attached to, otherwise one is
\* spawned and its handshake awaited; a refused one is stopped again.  The
\* launcher starts without a core too.
startCore(kind) ==
  /\ boot = "core" /\ boot' = "services" /\ core' = kind
  /\ UNCHANGED <<darwin, window, tray, behavior, force, busy, phase, live, failed, exit>>

\* createTray for a new window: a tray that cannot be made is done without
createTray(made) == tray' = (tray \/ made)

\* registerLauncherServices has returned; from here quits are intercepted.
start(made) ==
  /\ boot = "services" /\ boot' = "up"
  /\ window' = "shown" /\ createTray(made)
  /\ UNCHANGED <<darwin, core, behavior, force, busy, phase, live, failed, exit>>

\* An error on the way up ends the process.
startFails ==
  /\ boot = "services" /\ exit' = "failed"
  /\ UNCHANGED <<darwin, boot, core, window, tray, behavior, force, busy, phase, live, failed>>

isTrayActive == tray /\ behavior = "minimize-to-tray"

\* The close handler keeps the window.
intercepts == ~force /\ (busy \/ isTrayActive)

\* The interception is not released.
runIntercepted ==
  IF phase = "idle" THEN phase' = "connections" /\ UNCHANGED force
  ELSE UNCHANGED <<force, phase>>

\* The quit sequence starts once, releasing the close interception first.
run ==
  IF phase = "idle" THEN phase' = "connections" /\ force' = TRUE
  ELSE UNCHANGED <<force, phase>>

\* app.quit once the sequence is complete: every window is closed, unless its
\* close handler keeps it, which cancels the quit.
Quit(w) ==
  IF w # "none" /\ intercepts
  THEN window' = (IF tray THEN "hidden" ELSE w) /\ UNCHANGED exit
  ELSE window' = "none" /\ exit' = "clean"

\* before-quit
beforeQuit(w) ==
  IF phase = "complete" THEN Quit(w) /\ UNCHANGED <<force, phase>>
  ELSE run /\ window' = w /\ UNCHANGED exit

\* Cmd+Q, the menu, the Dock, an installer taking over; or a signal
QuitRequested ==
  /\ boot = "up" /\ beforeQuit(window)
  /\ UNCHANGED <<darwin, boot, core, tray, behavior, busy, live, failed>>

Signalled ==
  /\ boot = "up" /\ run
  /\ UNCHANGED <<darwin, boot, core, window, tray, behavior, busy, live, failed, exit>>

\* The tray's menu
quitApp ==
  /\ boot = "up" /\ tray /\ force' = TRUE
  /\ IF phase = "complete" THEN window' = "none" /\ exit' = "clean" /\ UNCHANGED phase
     ELSE /\ phase' = IF phase = "idle" THEN "connections" ELSE phase
          /\ UNCHANGED <<window, exit>>
  /\ UNCHANGED <<darwin, boot, core, tray, behavior, busy, live, failed>>

\* The user closes the window; with the last one the application quits unless
\* the tray or the platform keeps it.
CloseWindow ==
  /\ boot = "up" /\ window = "shown"
  /\ IF intercepts
     THEN window' = (IF tray THEN "hidden" ELSE "shown") /\ UNCHANGED <<force, phase, exit>>
     ELSE IF isTrayActive \/ darwin
     THEN window' = "none" /\ UNCHANGED <<force, phase, exit>>
     ELSE beforeQuit("none")
  /\ UNCHANGED <<darwin, boot, core, tray, behavior, busy, live, failed>>

\* The tray's click and the second instance bring back the window there is;
\* activate makes one when there is none.
showWindow ==
  /\ boot = "up" /\ window = "hidden" /\ window' = "shown"
  /\ UNCHANGED <<darwin, boot, core, tray, behavior, force, busy, phase, live, failed, exit>>

activate(made) ==
  /\ boot = "up" /\ darwin /\ window = "none" /\ window' = "shown" /\ createTray(made)
  /\ UNCHANGED <<darwin, boot, core, behavior, force, busy, phase, live, failed, exit>>

setCloseBehavior(b) ==
  /\ boot = "up" /\ behavior' = b
  /\ UNCHANGED <<darwin, boot, core, window, tray, force, busy, phase, live, failed, exit>>

\* Managed operations begin and end.
hasActiveOperation ==
  /\ boot = "up" /\ busy' = ~busy
  /\ UNCHANGED <<darwin, boot, core, window, tray, behavior, force, phase, live, failed, exit>>

\* The spawned core's process ends by itself; the supervisor closes with it.
CoreExits ==
  /\ core = "spawned" /\ core' = "gone"
  /\ UNCHANGED <<darwin, boot, window, tray, behavior, force, busy, phase, live, failed, exit>>

Settle(o, ok) ==
  /\ o \in live /\ live' = live \ {o} /\ failed' = (failed \/ ~ok)

\* One of the connections' owners has shut down; the last lets the core's turn
\* come.
ConnectionSettled(o, ok) ==
  /\ phase = "connections" /\ o \in Connections /\ Settle(o, ok)
  /\ phase' = IF live' \cap Connections = {} THEN "core" ELSE phase
  /\ UNCHANGED <<darwin, boot, core, window, tray, behavior, force, busy, exit>>

\* CoreSupervisor.close: an attached core is handed back before the channel
\* closes (one that is gone, or was registered again, counts as handed back); a
\* spawned one is stopped, by force in the end.
coreSettled(ok) ==
  /\ phase = "core" /\ Settle("coreSupervisor", ok)
  /\ core = "none" => ok
  /\ core' = IF ok /\ core # "none" THEN "gone" ELSE core
  /\ phase' = "runtime"
  /\ UNCHANGED <<darwin, boot, window, tray, behavior, force, busy, exit>>

\* The tray goes only now; a failure ends the process all the same.
runtimeSettled(ok) ==
  /\ phase = "runtime" /\ Settle("launcherHarnessService", ok)
  /\ tray' = FALSE
  /\ IF failed' THEN exit' = "failed" /\ UNCHANGED <<phase, window>>
     ELSE /\ phase' = "complete"
          /\ IF window # "none" /\ ~force /\ busy
             THEN UNCHANGED <<window, exit>>
             ELSE window' = "none" /\ exit' = "clean"
  /\ UNCHANGED <<darwin, boot, core, behavior, force, busy>>

Init ==
  /\ darwin \in BOOLEAN /\ boot = "core" /\ core = "none"
  /\ window = "none" /\ tray = FALSE /\ behavior \in {"quit", "minimize-to-tray"}
  /\ force = FALSE /\ busy = FALSE
  /\ phase = "idle" /\ live = Owners /\ failed = FALSE /\ exit = "no"

Shutdown ==
  /\ exit = "no"
  /\ \E ok \in BOOLEAN :
       \/ \E o \in Connections : ConnectionSettled(o, ok)
       \/ coreSettled(ok) \/ runtimeSettled(ok)

Next ==
  \/ Shutdown
  \/ /\ exit = "no"
     /\ \/ startFails \/ QuitRequested \/ Signalled \/ quitApp \/ CloseWindow
        \/ showWindow \/ hasActiveOperation \/ CoreExits
        \/ \E kind \in {"none", "spawned", "attached"} : startCore(kind)
        \/ \E made \in BOOLEAN : start(made) \/ activate(made)
        \/ \E b \in {"quit", "minimize-to-tray"} : setCloseBehavior(b)

\* Every owner's shutdown is bounded by a timer of its own.
Spec == Init /\ [][Next]_vars /\ WF_vars(Shutdown)

TypeOK ==
  /\ darwin \in BOOLEAN /\ boot \in {"core", "services", "up"}
  /\ core \in {"none", "spawned", "attached", "gone"} /\ window \in {"none", "shown", "hidden"}
  /\ tray \in BOOLEAN /\ behavior \in {"quit", "minimize-to-tray"}
  /\ force \in BOOLEAN /\ busy \in BOOLEAN
  /\ phase \in {"idle", "connections", "core", "runtime", "complete"}
  /\ live \subseteq Owners /\ failed \in BOOLEAN /\ exit \in {"no", "clean", "failed"}

(* The launcher never becomes a process the user can neither see nor quit:   *)
(* once it is up, and unless a quit is under way, its window is on the       *)
(* screen, or hidden with a tray to bring it back, or there is none on a     *)
(* platform whose Dock makes one again (main.ts activate).  A clean exit has *)
(* stopped or handed back the core and settled every owner, the DSH runtime  *)
(* last.                                                                     *)
NeverStranded ==
  /\ boot = "up" /\ exit = "no" /\ phase = "idle" =>
       \/ window = "shown"
       \/ window = "hidden" /\ tray
       \/ window = "none" /\ darwin
  /\ window = "hidden" /\ exit = "no" => tray
  /\ exit = "clean" => live = {} /\ core \in {"none", "gone"}
  /\ "launcherHarnessService" \notin live => live = {}

(* A quit that started ends the process, whatever windows are open and       *)
(* whichever owner fails (createLauncherQuitSequence).                       *)
QuitCompletes == phase # "idle" ~> exit # "no"
=============================================================================
