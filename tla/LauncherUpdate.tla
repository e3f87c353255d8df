--------------------------- MODULE LauncherUpdate ---------------------------
(***************************************************************************)
(* The launcher's own update: electron/main/launcher-update-service.ts     *)
(* behind launcher-update-ipc.ts.  A check asks for the latest release; an *)
(* offered installer is downloaded beside the check that may replace the   *)
(* offer, handed to the system, and the launcher quits.                    *)
(***************************************************************************)
EXTENDS Integers, Sequences

CONSTANTS
  Current,    \* the version that runs, a triple
  Releases,   \* versions a release may carry
  MaxGen      \* checks

VARIABLES
  st,     \* the state shown: [kind, v, dl]
  gen,    \* updateGeneration
  url,    \* cachedInstallerUrl: the version it is for, or NoRelease
  chk,    \* pendingCheck
  pend,   \* pendingDownload
  files,  \* the versions whose installer lies in the downloads folder
  quit    \* quitApplication was called: the version opened, or NoRelease

vars == <<st, gen, url, chk, pend, files, quit>>

NoRelease == <<>>
NoDownload == [pc |-> "none"]
Shown(kind) == [kind |-> kind, v |-> NoRelease, dl |-> "idle"]

\* The first part that differs decides.
compareLauncherVersions(l, r) ==
  IF l = r THEN 0
  ELSE LET i == CHOOSE k \in 1..3 : l[k] # r[k] /\ \A j \in 1..(k-1) : l[j] = r[j]
       IN IF l[i] > r[i] THEN 1 ELSE -1

\* What GitHub may answer: a release by tag, and the assets it lists by the
\* version their name and address are for
Answers ==
  [tag : Releases, stable : BOOLEAN, page : BOOLEAN, assets : {<<>>} \cup
     {<<v>> : v \in Releases} \cup {<<v, v>> : v \in Releases}]

\* A stable release whose page is that of its tag
parseLatestRelease(a) == a.stable /\ a.page

\* Exactly one asset carries the expected name and the address of the tag.
selectInstallerAsset(a) == Len(SelectSeq(a.assets, LAMBDA n : n = a.tag)) = 1

\* check: a running one is shared
check ==
  /\ ~chk /\ gen < MaxGen
  /\ gen' = gen + 1 /\ url' = NoRelease /\ st' = Shown("checking") /\ chk' = TRUE
  /\ UNCHANGED <<pend, files, quit>>

\* performCheck answered
performCheck(a) ==
  /\ chk /\ chk' = FALSE
  /\ IF ~(parseLatestRelease(a) /\ selectInstallerAsset(a))
     THEN st' = Shown("failed") /\ url' = NoRelease
     ELSE IF compareLauncherVersions(Current, a.tag) >= 0
     THEN st' = Shown("up-to-date") /\ UNCHANGED url
     ELSE st' = [kind |-> "update-available", v |-> a.tag, dl |-> "idle"] /\ url' = a.tag
  /\ UNCHANGED <<gen, pend, files, quit>>

\* The request itself fails: network, status, body or platform.
fetchLatestRelease ==
  /\ chk /\ chk' = FALSE
  /\ st' = Shown("failed") /\ url' = NoRelease
  /\ UNCHANGED <<gen, pend, files, quit>>

\* The generation is not compared.
isOfferedVersion(p) == st.kind = "update-available" /\ st.v = p.v

isCurrentUpdate(p) == gen = p.gen /\ st.kind = "update-available" /\ st.v = p.v

ShowDownload(p, dl) ==
  st' = IF isCurrentUpdate(p) THEN [st EXCEPT !.dl = dl] ELSE st

\* openDownloadedInstaller up to its await; a managed operation in progress
\* (busy) keeps the installer for a later handoff
openDownloadedInstaller(p, busy) ==
  IF isCurrentUpdate(p) /\ ~busy
  THEN pend' = [p EXCEPT !.pc = "open"] /\ UNCHANGED st
  ELSE pend' = NoDownload /\ ShowDownload(p, "handoff-failed")

\* downloadInstaller with no download pending (a pending one is shared)
downloadInstaller(busy) ==
  /\ st.kind = "update-available" /\ url # NoRelease /\ pend = NoDownload
  /\ st.dl # "downloaded"
  /\ LET p == [pc |-> "fetch", gen |-> gen, v |-> st.v]
     IN IF st.dl = "handoff-failed" THEN openDownloadedInstaller(p, busy)
        ELSE ~busy /\ url = st.v /\ pend' = p /\ st' = [st EXCEPT !.dl = "downloading"]
  /\ UNCHANGED <<gen, url, chk, files, quit>>

\* defaultDownloadInstaller reports progress
Progress ==
  /\ pend.pc = "fetch" /\ ShowDownload(pend, "downloading")
  /\ UNCHANGED <<gen, url, chk, pend, files, quit>>

\* The installer is whole in the downloads folder; it never replaces one.  The
\* rest of performDownload follows.
DownloadEnds(busy) ==
  /\ pend.pc = "fetch" /\ pend.v \notin files
  /\ files' = files \cup {pend.v}
  /\ IF isCurrentUpdate(pend) THEN openDownloadedInstaller(pend, busy)
     ELSE pend' = NoDownload /\ UNCHANGED st
  /\ UNCHANGED <<gen, url, chk, quit>>

\* A failed transfer, or an installer that is there already
DownloadFails ==
  /\ pend.pc = "fetch" /\ pend' = NoDownload /\ ShowDownload(pend, "failed")
  /\ UNCHANGED <<gen, url, chk, files, quit>>

\* openInstaller resolved: the launcher quits whatever is shown by then.
InstallerOpened(ok) ==
  /\ pend.pc = "open" /\ pend' = NoDownload
  /\ ShowDownload(pend, IF ok THEN "downloaded" ELSE "handoff-failed")
  /\ quit' = IF ok THEN pend.v ELSE quit
  /\ UNCHANGED <<gen, url, chk, files>>

Init ==
  /\ st = Shown("idle") /\ gen = 0 /\ url = NoRelease /\ chk = FALSE
  /\ pend = NoDownload /\ files = {} /\ quit = NoRelease

Next ==
  /\ quit = NoRelease
  /\ \/ check \/ fetchLatestRelease \/ Progress \/ DownloadFails
     \/ \E a \in Answers : performCheck(a)
     \/ \E b \in BOOLEAN :
          downloadInstaller(b) \/ DownloadEnds(b) \/ InstallerOpened(b)

Spec == Init /\ [][Next]_vars

TypeOK ==
  /\ st \in [kind : {"idle", "checking", "failed", "up-to-date", "update-available"},
             v : Releases \cup {NoRelease},
             dl : {"idle", "downloading", "failed", "handoff-failed", "downloaded"}]
  /\ gen \in 0..MaxGen /\ url \in Releases \cup {NoRelease} /\ chk \in BOOLEAN
  /\ pend \in {NoDownload} \cup [pc : {"fetch", "open"}, gen : 1..MaxGen, v : Releases]
  /\ files \subseteq Releases /\ quit \in Releases \cup {NoRelease}

\* Newest first, by the digits
Newer(l, r) ==
  \/ l[1] > r[1]
  \/ l[1] = r[1] /\ l[2] > r[2]
  \/ l[1] = r[1] /\ l[2] = r[2] /\ l[3] > r[3]

(* What is shown of an update is true: the offer is newer than the running   *)
(* launcher and is what the cached address installs; a download shown as     *)
(* running is under way for this very offer; only a whole installer is       *)
(* handed over, and only then does the launcher quit.                        *)
UpdateIsTrue ==
  /\ st.kind = "update-available" =>
       /\ Newer(st.v, Current) /\ url = st.v
       /\ st.dl = "downloading" => pend # NoDownload /\ pend.gen = gen /\ pend.v = st.v
       /\ st.dl \in {"handoff-failed", "downloaded"} => st.v \in files
  /\ pend # NoDownload /\ pend.pc = "open" => pend.v \in files
  /\ quit # NoRelease => quit \in files /\ Newer(quit, Current)
=============================================================================
