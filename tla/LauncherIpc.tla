----------------------------- MODULE LauncherIpc -----------------------------
(***************************************************************************)
(* The boundary between the launcher's page and the main process:          *)
(* preload.ts builds the requests of the shared contracts, ipc.ts and the  *)
(* *-ipc.ts modules admit them, security.ts says which page may send them, *)
(* and every failure of a service is translated to a code of the contract. *)
(* A request is the set of its fields, and whether each value has the type *)
(* and the form that the handler asks for.                                 *)
(***************************************************************************)
EXTENDS Naturals, FiniteSets, TLC

CONSTANT None

VARIABLES
  window,   \* "open", or "destroyed"
  pages,    \* what each frame shows
  guest,    \* the guest page of the run page: its address and partition
  request,  \* the request being handled: refused, at its service, or answered
  token     \* a directory chosen in the native picker: "held", or "spent"

vars == <<window, pages, guest, request, token>>

(* ----------------------- the contract and the handlers -------------------- *)

Toolchain == {"workspaceId", "toolchainId"}
Installation == {"workspaceId", "installationId"}

\* What the preload sends, by channel
managed ==
  [managedGetState |-> {}, managedSelectDirectory |-> {"purpose"},
   managedRegisterRoots |-> {"selections"},
   managedCreateWorkspace |-> {"displayName", "workingDirectoryCapabilityId"}]
managedInstallations ==
  [installationsGetState |-> {}, selectExecutable |-> {"purpose"},
   registerToolchain |-> {"gitCapabilityId", "nodeCapabilityId", "pnpmCapabilityId"},
   installBundledSeed |-> Toolchain, cloneHarness |-> Toolchain \cup {"remoteUrl", "revision"},
   switchRevision |-> Installation \cup {"revision"},
   startHarness |-> Installation, stopHarness |-> Installation]
launcherHarness ==
  [harnessGetState |-> {}, harnessStart |-> {}, harnessStop |-> {}, refreshVersions |-> {},
   update |-> {}, switchVersion |-> {"commit"}, switchBranch |-> {"branch"},
   installPlugin |-> {"source"}, installPluginArchive |-> {}, refreshPlugins |-> {},
   updatePlugin |-> {"name"}, adoptPlugin |-> {"name"}, uninstallPlugin |-> {"name"},
   setPort |-> {"port"}, revealLog |-> {}, exportLog |-> {}]
remoteConnections ==
  LET fields == {"displayName", "host", "port", "user", "sshKeyPath"} IN
  [remoteGetState |-> {}, remoteCreate |-> fields,
   remoteUpdate |-> fields \cup {"connectionId", "expectedConfigRevision"},
   remoteTest |-> {"connectionId"}, remoteConnect |-> {"connectionId"},
   remoteDisconnect |-> {"connectionId"}, remoteRemove |-> {"connectionId"}]
runtimeBrowser == [getPreferences |-> {}, setZoom |-> {"zoomPercent"}, getHostRenderingInfo |-> {}]
launcherUpdates == [updatesGetState |-> {}, updatesCheck |-> {}, downloadInstaller |-> {}]
pluginCatalog == [catalogGetState |-> {}, catalogRefresh |-> {}]
\* These carry a bare value, or nothing.
plainValues ==
  [getCloseBehavior |-> {}, setCloseBehavior |-> {"closeBehavior"}, autostartGetState |-> {},
   autostartSetEnabled |-> {"enabled"}, externalLinkOpen |-> {"linkId"}, getInfo |-> {},
   tokenUsageGetState |-> {"request"}]

\* The requests of the peer management contract
P2PManagementInputs ==
  LET service == {"serviceId"}
      network == {"serviceId", "networkId"}
      pair == {"serviceId", "pairId"}
      revision == {"serviceId", "revision"}
      config == {"displayName", "httpsOrigin", "wssUrl", "stunAddress", "revision"}
  IN [enable |-> {}, catalog |-> {}, resetCatalog |-> {}, addService |-> config,
      login |-> service \cup {"username", "password"}, register |-> service \cup {"email", "password"},
      currentUser |-> service, logout |-> service, networks |-> service,
      createNetwork |-> service \cup {"name"}, renameNetwork |-> network \cup {"name"},
      updateNetworkLimit |-> network \cup {"maxDevices"}, deleteNetwork |-> network,
      registration |-> service, registerDevice |-> network \cup {"name"},
      joinNetwork |-> network \cup {"name"}, leaveNetwork |-> network \cup {"deviceId"},
      accountSelection |-> service \cup {"userId"},
      rememberAccountSelection |-> network \cup {"userId"},
      submitEnrollment |-> revision, recoverEnrollment |-> revision,
      pairs |-> service, networkChoices |-> service,
      selectNetwork |-> pair \cup {"networkId", "userId", "expectedRevision"},
      pairIdentity |-> pair, createInvite |-> network, acceptInvite |-> network \cup {"code"},
      approvePair |-> pair \cup {"fingerprint"}, rejectPair |-> pair, revokePair |-> pair,
      connections |-> {}, removeService |-> service, updateServiceConfig |-> service \cup config,
      remoteRoots |-> pair, remoteDirectory |-> pair \cup {"rootId", "ref", "offset", "limit"},
      connect |-> pair, disconnect |-> pair, entry |-> pair \cup {"generation"},
      localDevice |-> {}, serviceSessions |-> {}, directory |-> service,
      refreshDirectory |-> service, cancel |-> {"targetRequestId"}]

Envelope == {"version", "requestId"}

\* The fields of the admission table, by the values they share
peerFields(op) ==
  LET has(fs) == op \in fs IN
    (IF has({"enable", "catalog", "resetCatalog", "addService", "connections", "localDevice",
             "serviceSessions", "cancel"}) THEN {} ELSE {"serviceId"})
    \cup (IF has({"renameNetwork", "updateNetworkLimit", "deleteNetwork", "registerDevice",
                  "joinNetwork", "leaveNetwork", "rememberAccountSelection", "selectNetwork",
                  "createInvite", "acceptInvite"}) THEN {"networkId"} ELSE {})
    \cup (IF has({"selectNetwork", "pairIdentity", "approvePair", "rejectPair", "revokePair",
                  "remoteRoots", "remoteDirectory", "connect", "disconnect", "entry"})
          THEN {"pairId"} ELSE {})
    \cup (IF has({"createNetwork", "renameNetwork", "registerDevice", "joinNetwork"})
          THEN {"name"} ELSE {})
    \cup (IF has({"addService", "submitEnrollment", "recoverEnrollment", "updateServiceConfig"})
          THEN {"revision"} ELSE {})
    \cup (IF has({"addService", "updateServiceConfig"})
          THEN {"displayName", "httpsOrigin", "wssUrl", "stunAddress"} ELSE {})
    \cup (IF has({"login", "register"}) THEN {"password"} ELSE {})
    \cup (IF has({"accountSelection", "rememberAccountSelection", "selectNetwork"})
          THEN {"userId"} ELSE {})
    \cup (CASE op = "login" -> {"username"}
            [] op = "register" -> {"email"}
            [] op = "updateNetworkLimit" -> {"maxDevices"}
            [] op = "leaveNetwork" -> {"deviceId"}
            [] op = "selectNetwork" -> {"expectedRevision"}
            [] op = "acceptInvite" -> {"code"}
            [] op = "approvePair" -> {"fingerprint"}
            [] op = "remoteDirectory" -> {"rootId", "ref", "offset", "limit"}
            [] op = "entry" -> {"generation"}
            [] op = "cancel" -> {"targetRequestId"}
            [] OTHER -> {})

\* What the handlers of ipc.ts and of the *-ipc.ts modules ask for
managedFields(ch) ==
  CASE ch = "managedSelectDirectory" -> {"purpose"}
    [] ch = "managedRegisterRoots" -> {"selections"}
    [] ch = "managedCreateWorkspace" -> {"displayName", "workingDirectoryCapabilityId"}
    [] OTHER -> {}
installationFields(ch) ==
  CASE ch = "selectExecutable" -> {"purpose"}
    [] ch = "registerToolchain" -> {"gitCapabilityId", "nodeCapabilityId", "pnpmCapabilityId"}
    [] ch = "installBundledSeed" -> Toolchain
    [] ch = "cloneHarness" -> Toolchain \cup {"remoteUrl", "revision"}
    [] ch = "switchRevision" -> Installation \cup {"revision"}
    [] ch \in {"startHarness", "stopHarness"} -> Installation
    [] OTHER -> {}
harnessFields(ch) ==
  CASE ch = "switchVersion" -> {"commit"}
    [] ch = "switchBranch" -> {"branch"}
    [] ch = "installPlugin" -> {"source"}
    [] ch \in {"updatePlugin", "adoptPlugin", "uninstallPlugin"} -> {"name"}
    [] ch = "setPort" -> {"port"}
    [] OTHER -> {}

\* Without the key path that was added to the contract later
remoteFieldsWithoutKey(ch) ==
  (IF ch \in {"remoteCreate", "remoteUpdate"} THEN {"displayName", "host", "port", "user"} ELSE {})
  \cup (IF ch \in {"remoteTest", "remoteUpdate", "remoteConnect", "remoteDisconnect", "remoteRemove"}
        THEN {"connectionId"} ELSE {})
  \cup (IF ch = "remoteUpdate" THEN {"expectedConfigRevision"} ELSE {})

remoteFields(ch) ==
  (IF ch \in {"remoteCreate", "remoteUpdate"}
   THEN {"displayName", "host", "port", "user", "sshKeyPath"} ELSE {})
  \cup (IF ch \in {"remoteTest", "remoteUpdate", "remoteConnect", "remoteDisconnect", "remoteRemove"}
        THEN {"connectionId"} ELSE {})
  \cup (IF ch = "remoteUpdate" THEN {"expectedConfigRevision"} ELSE {})

Group(ch) ==
  CASE ch \in DOMAIN managed -> "managed"
    [] ch \in DOMAIN managedInstallations -> "installations"
    [] ch \in DOMAIN launcherHarness -> "harness"
    [] ch \in DOMAIN remoteConnections -> "remote"
    [] ch \in DOMAIN runtimeBrowser -> "browser"
    [] ch \in DOMAIN launcherUpdates -> "updates"
    [] ch \in DOMAIN pluginCatalog -> "catalog"
    [] ch \in DOMAIN plainValues -> "plain"
    [] ch \in DOMAIN P2PManagementInputs -> "peers"

\* The channels the preload exposes, and the fields its call of each sends
Channels ==
  UNION {DOMAIN managed, DOMAIN managedInstallations, DOMAIN launcherHarness,
         DOMAIN remoteConnections, DOMAIN runtimeBrowser, DOMAIN launcherUpdates,
         DOMAIN pluginCatalog, DOMAIN plainValues, DOMAIN P2PManagementInputs}

Sent(ch) ==
  LET group == Group(ch) IN
  CASE group = "managed" -> managed[ch]
    [] group = "installations" -> managedInstallations[ch]
    [] group = "harness" -> launcherHarness[ch]
    [] group = "remote" -> remoteConnections[ch]
    [] group = "browser" -> runtimeBrowser[ch]
    [] group = "updates" -> launcherUpdates[ch]
    [] group = "catalog" -> pluginCatalog[ch]
    [] group = "plain" -> plainValues[ch]
    [] group = "peers" -> P2PManagementInputs[ch] \cup Envelope

Admitted(ch) ==
  LET group == Group(ch) IN
  CASE group = "managed" -> managedFields(ch)
    [] group = "installations" -> installationFields(ch)
    [] group = "harness" -> harnessFields(ch)
    [] group = "remote" -> remoteFields(ch)
    [] group = "browser" -> IF ch = "setZoom" THEN {"zoomPercent"} ELSE {}
    [] group \in {"updates", "catalog"} -> {}
    [] group = "plain" -> plainValues[ch]
    [] group = "peers" -> peerFields(ch) \cup Envelope

\* No other field, and none missing
exactRecord(fields, expected) == fields = expected

\* The handlers of the tray and of the start at boot do not look at further arguments.
IgnoresExtra ==
  {"getCloseBehavior", "setCloseBehavior", "autostartGetState", "autostartSetEnabled"}
WellFormed(r) ==
  /\ r.typed
  /\ exactRecord(IF r.ch \in IgnoresExtra THEN r.fields \ {"extra"} ELSE r.fields, Admitted(r.ch))

(* ------------------------------ the causes -------------------------------- *)

RuntimeCauses ==
  {"owner_unavailable", "input_invalid", "busy_running", "port_in_use", "operation_in_progress",
   "worktree_invalid", "plugin_operation_failed", "plugin_incompatible", "spawn_failed"}

\* What each group's service is known to throw
Throws(ch) ==
  LET group == Group(ch) IN
  CASE group = "managed" -> {"root", "other"}
    [] group = "installations" ->
         {"owner_unavailable", "operation_in_progress", "busy_running", "root", "git",
          "toolchain", "seed", "other"}
    [] group = "harness" -> RuntimeCauses \cup {"root", "other"}
    [] group = "remote" -> {"remote", "other"}
    [] group = "updates" -> IF ch = "downloadInstaller" THEN {"update", "other"} ELSE {}
    [] group = "peers" -> {"peer", "other"}
    [] OTHER -> {"root", "other"}

\* One code for every cause
launchCodesCollapsed(cause) == "harness_launch_failed"

\* Every cause but a launch that failed keeps a code of its own.
LAUNCHER_HARNESS_ERROR_CODES(cause) ==
  IF cause \in {"spawn_failed", "other"} THEN "harness_launch_failed" ELSE cause

managedResult(cause) == IF cause = "root" THEN "root" ELSE "rejected"
installationResult(cause) ==
  CASE cause = "owner_unavailable" -> LAUNCHER_HARNESS_ERROR_CODES(cause)
    [] cause \in {"root", "git", "toolchain", "seed"} -> cause
    [] cause \in RuntimeCauses \ {"owner_unavailable"} ->
         IF cause = "operation_in_progress" THEN cause ELSE "harness_launch_failed"
    [] OTHER -> "rejected"
launcherHarnessResult(cause) ==
  IF cause \in RuntimeCauses THEN LAUNCHER_HARNESS_ERROR_CODES(cause) ELSE "harness_launch_failed"
remoteResult(cause) == IF cause = "remote" THEN cause ELSE "tunnel_failed"
peerFailure(cause) == IF cause = "peer" THEN cause ELSE "internal_error"
runtimeBrowserFailure(cause) == IF cause = "root" THEN cause ELSE "persistence_failed"

Code(ch, cause) ==
  LET group == Group(ch) IN
  CASE group = "managed" -> managedResult(cause)
    [] group = "installations" -> installationResult(cause)
    [] group = "harness" -> launcherHarnessResult(cause)
    [] group = "remote" -> remoteResult(cause)
    [] group = "peers" -> peerFailure(cause)
    [] group = "browser" -> runtimeBrowserFailure(cause)
    [] group = "updates" -> IF cause = "update" THEN cause ELSE "rejected"
    [] group \in {"catalog", "plain"} -> "failed"

\* How a handler refuses a request it cannot parse: the parser throws inside the same
\* wrapper as the service does, except where the handler checks first.
ParseCode(ch) ==
  LET group == Group(ch) IN
  CASE group = "peers" -> "peer"
    [] group = "remote" -> "remote"
    [] group \in {"managed", "installations", "harness", "browser"} ->
         IF Admitted(ch) = {} THEN "root" ELSE Code(ch, "root")
    [] OTHER -> "failed"

(* ------------------------------- the pages -------------------------------- *)

Frames == {"top", "inner"}
Places == {"launcher", "loopback", "localhost", "elsewhere"}

isAllowedRendererUrl(place) == place = "launcher"

\* Any frame of the window
isTrustedWindow(f) == window = "open" /\ isAllowedRendererUrl(pages[f])

isTrustedRenderer(f) ==
  /\ window = "open"
  /\ f = "top"
  /\ isAllowedRendererUrl(pages[f])

\* A navigation of the page is followed only inside the launcher; a document embedded
\* in it may show anything.
willNavigate(f, place) ==
  /\ window = "open" /\ pages[f] # place
  /\ f = "top" => isAllowedRendererUrl(place)
  /\ pages' = [pages EXCEPT ![f] = place]
  /\ UNCHANGED <<window, guest, request, token>>

\* A guest is attached to the local partition or to one derived from a pair, and only
\* to a loopback address; it stays on loopback.
isAllowedGuestPartition(p) == p \in {"local", "peer"}
isLoopbackRuntimeUrl(place) == place \in {"loopback", "localhost"}

installWebviewPolicy(place, partition) ==
  /\ window = "open" /\ guest = None
  /\ isLoopbackRuntimeUrl(place) /\ isAllowedGuestPartition(partition)
  /\ guest' = [place |-> place, partition |-> partition]
  /\ UNCHANGED <<window, pages, request, token>>

guestNavigate(place) ==
  /\ guest # None /\ guest.place # place
  /\ isLoopbackRuntimeUrl(place)
  /\ guest' = [guest EXCEPT !.place = place]
  /\ UNCHANGED <<window, pages, request, token>>

guestClosed ==
  /\ guest # None
  /\ guest' = None
  /\ UNCHANGED <<window, pages, request, token>>

closeWindow ==
  /\ window = "open"
  /\ window' = "destroyed" /\ guest' = None
  /\ UNCHANGED <<pages, request, token>>

(* ------------------------------ the requests ------------------------------ *)

Becomes(r, phase, cause, code) ==
  request' = r @@ [phase |-> phase, cause |-> cause, code |-> code]

Refused(r, cause, code) == Becomes(r, "answered", cause, code) /\ UNCHANGED token

\* A plugin's local directory is a token of the native picker: it is spent before the
\* service is asked, and after the rest of the request was found to be in order.
admit(r) ==
  LET local == r.ch = "installPlugin" /\ r.local IN
  IF local /\ token = "spent" THEN Refused(r, "token", Code(r.ch, "root"))
  ELSE /\ Becomes(r, "working", "none", "none")
       /\ token' = IF local THEN "spent" ELSE token

\* The token is taken before the request is looked at
handleSpendsFirst(r) ==
  IF r.ch = "installPlugin" /\ r.local /\ ~r.typed
  THEN token' = "spent" /\ Becomes(r, "answered", "parse", ParseCode(r.ch))
  ELSE IF ~isTrustedRenderer(r.from) THEN Refused(r, "sender", "invalid_sender")
  ELSE IF ~WellFormed(r) THEN Refused(r, "parse", ParseCode(r.ch))
  ELSE admit(r)

handle(r) ==
  IF ~isTrustedRenderer(r.from) THEN Refused(r, "sender", "invalid_sender")
  ELSE IF ~WellFormed(r) THEN Refused(r, "parse", ParseCode(r.ch))
  ELSE admit(r)

\* The page calls through the preload; an embedded document is heard and refused.
invoke ==
  /\ window = "open" /\ request = None
  /\ \E f \in Frames, ch \in Channels, typed, local \in BOOLEAN, extra \in {{}, {"extra"}} :
       /\ local => ch = "installPlugin"
       /\ handle([from |-> f, ch |-> ch, typed |-> typed, local |-> local,
                  fields |-> Sent(ch) \cup extra])
  /\ UNCHANGED <<window, pages, guest>>

\* A directory is chosen in the native picker.
pickDirectory ==
  /\ window = "open" /\ token = "spent"
  /\ token' = "held"
  /\ UNCHANGED <<window, pages, guest, request>>

\* The service finishes; the window may have gone in the meantime.
serviceDone ==
  /\ request # None /\ request.phase = "working"
  /\ \E cause \in Throws(request.ch) \cup {"none"} :
       request' = [request EXCEPT !.phase = "answered", !.cause = cause,
                     !.code = IF cause = "none" THEN "ok" ELSE Code(request.ch, cause)]
  /\ UNCHANGED <<window, pages, guest, token>>

\* The answer is delivered, or its page is gone.
delivered ==
  /\ request # None /\ request.phase = "answered"
  /\ request' = None
  /\ UNCHANGED <<window, pages, guest, token>>

Init ==
  /\ window = "open" /\ pages = [f \in Frames |-> "launcher"] /\ guest = None
  /\ request = None /\ token = "held"

Next ==
  \/ invoke
  \/ \E f \in Frames, p \in Places : willNavigate(f, p)
  \/ \E p \in Places, q \in {"local", "peer", "foreign"} : installWebviewPolicy(p, q)
  \/ \E p \in Places : guestNavigate(p)
  \/ guestClosed \/ closeWindow \/ pickDirectory \/ serviceDone \/ delivered

Spec == Init /\ [][Next]_vars

(* ------------------------------- properties ------------------------------- *)

TypeOK ==
  /\ window \in {"open", "destroyed"} /\ pages \in [Frames -> Places]
  /\ token \in {"held", "spent"}

\* What the page sends through the preload, with values of the contract's types, reaches
\* its service: the preload, the contract and the admission tables agree on every field
\* of every channel (preload.ts:55-277, p2p-management.ts:360-473,
\* management-admission.ts:11-62, ipc.ts:604-880).
ContractIsAdmitted ==
  request # None /\ request.cause = "parse"
    => ~request.typed \/ "extra" \in request.fields

\* A service works only for a request of the top-level launcher page whose fields are
\* exactly the handler's and well formed, and a guest page stays on loopback in a partition
\* of its own (security.ts:17-27, 65-111, ipc.ts:858-874).
OnlyThePageIsServed ==
  /\ request # None /\ request.phase = "working" =>
       /\ request.from = "top" /\ request.typed
       /\ request.fields \ {"extra"} = Sent(request.ch)
       /\ "extra" \in request.fields => request.ch \in IgnoresExtra
  /\ pages["top"] = "launcher"
  /\ guest # None => guest.place \in {"loopback", "localhost"} /\ guest.partition \in {"local", "peer"}

\* A refusal with a remedy of its own does not read as a launch that failed
\* (ipc.ts:557-580, ipc-error-codes.ts:42-82).
RemedyIsKept ==
  request # None /\ request.cause \in RuntimeCauses \ {"spawn_failed"} /\ Group(request.ch) = "harness"
    => request.code # "harness_launch_failed"

TokenStep ==
  token = "held" /\ token' = "spent" => request'.phase = "working" /\ request'.local

\* The directory token is spent only by a request that reached the service.
TokenIsSpentOnce == [][TokenStep]_vars

\* "An invalid selection" keeps its own code as well (ipc-error-codes.ts:48-51).
SelectionIsKept ==
  request # None /\ Group(request.ch) = "harness" /\ request.cause = "parse"
    => request.code # "harness_launch_failed"
==============================================================================
