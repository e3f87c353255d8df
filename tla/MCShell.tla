------------------------------ MODULE MCShell -------------------------------
(***************************************************************************)
(* The pages of the window and the channel they call the desktop process   *)
(* by, which share no state with one another, checked in one run.  A       *)
(* behaviour is about one component, which its first state chooses and     *)
(* whose variables v1, v2, ... then hold.                                  *)
(***************************************************************************)
EXTENDS Integers, Sequences, FiniteSets

CONSTANTS
  MaxPairs, MaxRev, MaxGen, MaxMoved, None, Packages, Source, FEED_LIMIT, MaxCalls,
  Users, Nets, MaxNews, Null, RootKinds, ExecutableKinds, MaxSpaces,
  MaxInstalled, Pairs, Keys, MaxKeys, MinPort, MaxPort, Options, Disabled,
  MaxEdits

VARIABLES
  part,  \* the component this behaviour is about
  v1, v2, v3, v4, v5, v6, v7, v8, v9, v10, v11, v12, v13, v14  \* its variables

vars == <<part, v1, v2, v3, v4, v5, v6, v7, v8, v9, v10, v11, v12, v13, v14>>

Tabs == INSTANCE PeerTabs WITH
  computers <- v1, views <- v2, opened <- v3, active <- v4, entries <- v5,
  admitted <- v6, nav <- v7, fetches <- v8, refused <- v9, loops <- v10,
  busy <- v11
Feed == INSTANCE HarnessView WITH
  MaxSeq <- 2, MaxOps <- 1, main <- v1, head <- v2, pushed <- v3, calls <- v4,
  view <- v5, feed <- v6, told <- v7, error <- v8, loading <- v9,
  active <- v10, selected <- v11, batch <- v12, tried <- v13, ops <- v14
Operations == INSTANCE HarnessView WITH
  MaxSeq <- 0, MaxOps <- 2, main <- v1, head <- v2, pushed <- v3, calls <- v4,
  view <- v5, feed <- v6, told <- v7, error <- v8, loading <- v9,
  active <- v10, selected <- v11, batch <- v12, tried <- v13, ops <- v14
Ipc == INSTANCE LauncherIpc WITH
  window <- v1, pages <- v2, guest <- v3, request <- v4, token <- v5
Accounts == INSTANCE PeerAccounts WITH
  page <- v1, session <- v2, server <- v3, news <- v4, owed <- v5
Managed == INSTANCE ManagedView WITH
  roots <- v1, inst <- v2, main <- v3, spent <- v4, unsure <- v5
Invited == INSTANCE PeerPairing WITH
  Mine <- {}, page <- v1, op <- v2, srv <- v3, local <- v4, left <- v5
Inviting == INSTANCE PeerPairing WITH
  Mine <- Pairs, page <- v1, op <- v2, srv <- v3, local <- v4, left <- v5
Join == INSTANCE PeerJoin WITH
  MaxRev <- 1, page <- v1, op <- v2, list <- v3, session <- v4, stored <- v5,
  held <- v6, bound <- v7, known <- v8, last <- v9
Settings == INSTANCE SettingsView WITH
  card <- v1, port <- v2, auto <- v3, tray <- v4, look <- v5, edits <- v6

\* The variables after the first k, which a component of k variables leaves alone.
Idle13 == v14 = 0
Rest13 == <<v14>>
Idle12 == v13 = 0 /\ Idle13
Rest12 == <<v13, Rest13>>
Idle11 == v12 = 0 /\ Idle12
Rest11 == <<v12, Rest12>>
Idle10 == v11 = 0 /\ Idle11
Rest10 == <<v11, Rest11>>
Idle9 == v10 = 0 /\ Idle10
Rest9 == <<v10, Rest10>>
Idle8 == v9 = 0 /\ Idle9
Rest8 == <<v9, Rest9>>
Idle7 == v8 = 0 /\ Idle8
Rest7 == <<v8, Rest8>>
Idle6 == v7 = 0 /\ Idle7
Rest6 == <<v7, Rest7>>
Idle5 == v6 = 0 /\ Idle6
Rest5 == <<v6, Rest6>>

TabsInit == part = "tabs" /\ Tabs!Init /\ Idle11
TabsStep == part = "tabs" /\ Tabs!Next /\ UNCHANGED <<part, Rest11>>
FeedInit == part = "feed" /\ Feed!Init
FeedStep == part = "feed" /\ Feed!Next /\ UNCHANGED part
OperationsInit == part = "operations" /\ Operations!Init
OperationsStep == part = "operations" /\ Operations!Next /\ UNCHANGED part
IpcInit == part = "ipc" /\ Ipc!Init /\ Idle5
IpcStep == part = "ipc" /\ Ipc!Next /\ UNCHANGED <<part, Rest5>>
AccountsInit == part = "accounts" /\ Accounts!Init /\ Idle5
AccountsStep == part = "accounts" /\ Accounts!Next /\ UNCHANGED <<part, Rest5>>
ManagedInit == part = "managed" /\ Managed!Init /\ Idle5
ManagedStep == part = "managed" /\ Managed!Next /\ UNCHANGED <<part, Rest5>>
InvitedInit == part = "invited" /\ Invited!Init /\ Idle5
InvitedStep == part = "invited" /\ Invited!Next /\ UNCHANGED <<part, Rest5>>
InvitingInit == part = "inviting" /\ Inviting!Init /\ Idle5
InvitingStep == part = "inviting" /\ Inviting!Next /\ UNCHANGED <<part, Rest5>>
JoinInit == part = "join" /\ Join!Init /\ Idle9
JoinStep == part = "join" /\ Join!Next /\ UNCHANGED <<part, Rest9>>
SettingsInit == part = "settings" /\ Settings!Init /\ Idle6
SettingsStep == part = "settings" /\ Settings!Next /\ UNCHANGED <<part, Rest6>>

Init ==
  \/ TabsInit \/ FeedInit \/ OperationsInit \/ IpcInit \/ AccountsInit
  \/ ManagedInit \/ InvitedInit \/ InvitingInit \/ JoinInit \/ SettingsInit
Next ==
  \/ TabsStep \/ FeedStep \/ OperationsStep \/ IpcStep \/ AccountsStep
  \/ ManagedStep \/ InvitedStep \/ InvitingStep \/ JoinStep \/ SettingsStep
Spec == Init /\ [][Next]_vars

\* The two packages of HarnessView come from one repository.
source == <<1, 1>>

TypeOK ==
  /\ part = "tabs" => Tabs!TypeOK
  /\ part = "feed" => Feed!TypeOK
  /\ part = "operations" => Operations!TypeOK
  /\ part = "ipc" => Ipc!TypeOK
  /\ part = "accounts" => Accounts!TypeOK
  /\ part = "managed" => Managed!TypeOK
  /\ part = "invited" => Invited!TypeOK
  /\ part = "inviting" => Inviting!TypeOK
  /\ part = "join" => Join!TypeOK
  /\ part = "settings" => Settings!TypeOK

(* What a page shows is what the desktop process holds, through late         *)
(* answers, refusals and announcements: a mounted page is of the attempt     *)
(* its tab stands for, and a ready computer is served, or will be, unless    *)
(* main had no address for this attempt or the page turned its own question  *)
(* away because another operation of the service was under way               *)
(* (runtimeBrowserState.ts, p2pManagement.ts); the console loses nothing     *)
(* main told, and a button is busy only while its call is in flight          *)
(* (useLauncherHarness.ts); main serves the page alone, what the contract    *)
(* admits, and keeps the remedy of an error (ipc.ts); the network list is    *)
(* the coordinator's and an announcement is read (p2pAccounts.ts); no spent  *)
(* selection is offered (useManagedWorkspaces.ts); a join that took effect   *)
(* is not forgotten (p2pEnrollment.ts); the port, the close behaviour, the   *)
(* start at boot and the theme shown are the ones in force, but for a port   *)
(* the core refused, a read that was answered before a change and shown      *)
(* after it, and what the tray's menu or the command line changed since      *)
(* (SettingsPanel.vue, ManagedWorkspacesPanel.vue).                          *)
ShowsWhatIsHeld ==
  /\ part = "tabs" => Tabs!PageIsCurrent /\ Tabs!ReadyIsServed
  /\ part = "feed" => Feed!FeedLosesNothing /\ Feed!BusyIsInFlight
  /\ part = "operations" => Operations!FeedLosesNothing /\ Operations!BusyIsInFlight
  /\ part = "ipc" => Ipc!ContractIsAdmitted /\ Ipc!OnlyThePageIsServed /\ Ipc!RemedyIsKept
  /\ part = "accounts" => Accounts!ListIsTrue /\ Accounts!AnnouncedIsRead
  /\ part = "managed" => Managed!OfferedIsHeld
  /\ part = "join" => Join!NothingIsForgotten
  /\ part = "settings" => Settings!SettingsAreTrue

(* No step drops what is owed: the page of a suspended computer stays until  *)
(* its tab is closed, the pair changes or the connection leaves the attempt  *)
(* or the suspension, unless a pass begun before the pair last changed still *)
(* has to visit it (runtimeBrowserState.ts); a batch of plugin updates tries *)
(* every package (useLauncherHarness.ts); a capability token is spent once   *)
(* (ipc.ts); a pairing write that took effect ends as done or unconfirmed,   *)
(* unless it was answered and the read after it was refused with a code that *)
(* stands for no effect (p2pPairing.ts).                                     *)
StepsAreAccounted ==
  /\ [][part = "tabs" => Tabs!RetainedStep]_vars
  /\ [][part = "feed" => Feed!BatchStep]_vars
  /\ [][part = "operations" => Operations!BatchStep]_vars
  /\ [][part = "ipc" => Ipc!TokenStep]_vars
  /\ [][part = "invited" => Invited!AccountedStep]_vars
  /\ [][part = "inviting" => Inviting!AccountedStep]_vars
=============================================================================
