--------------------------- MODULE LauncherProofs ---------------------------
(***************************************************************************)
(* What the launcher shows is true and what it answers is its own, for every *)
(* set of releases, areas, zoom levels, guests, hosts and records: proofs  *)
(* about the parts of MCLauncher that follow another program or keep several *)
(* calls open at once. Each part has its inductive invariant, preserved by *)
(* its own actions alone: a step of the launcher is a step of one part.    *)
(***************************************************************************)
EXTENDS MCLauncher, SequenceTheorems, FiniteSetTheorems, TLAPS

\* The download under way is of a newer release; one that is handed over is whole.
UpdateInv ==
  /\ Update!TypeOK
  /\ v4 \/ v1.kind # "idle" => v2 >= 1
  /\ v5 # Update!NoDownload => Update!Newer(v5.v, Current)
  /\ Update!UpdateIsTrue

\* The order of versions is that of their parts.
LEMMA NewerByParts ==
  ASSUME NEW r \in Releases, ~(Update!compareLauncherVersions(Current, r) >= 0)
  PROVE  Update!Newer(r, Current)
<1> DEFINE D(k) == Current[k] # r[k] /\ \A j \in 1..(k-1) : Current[j] = r[j]
           i == CHOOSE k \in 1..3 : D(k)
<1>1. r \in Nat \X Nat \X Nat /\ Current \in Nat \X Nat \X Nat BY UpdateAssumption
<1>2. Current # r BY DEF Update!compareLauncherVersions
<1>3. \E k \in 1..3 : D(k)
  <2>1. Current[1] # r[1] \/ Current[2] # r[2] \/ Current[3] # r[3] BY <1>1, <1>2
  <2>2. CASE Current[1] # r[1]
    <3>1. D(1) BY <2>2
    <3> QED BY <3>1
  <2>3. CASE Current[1] = r[1] /\ Current[2] # r[2]
    <3>1. D(2) BY <2>3
    <3> QED BY <3>1
  <2>4. CASE Current[1] = r[1] /\ Current[2] = r[2]
    <3>1. D(3) BY <2>4, <2>1
    <3> QED BY <3>1
  <2> QED BY <2>2, <2>3, <2>4
<1>4. i \in 1..3 /\ D(i) BY <1>3
<1>5. ~(Current[i] > r[i]) BY <1>2 DEF Update!compareLauncherVersions
<1>6. CASE i = 1 BY <1>6, <1>4, <1>5, <1>1 DEF Update!Newer
<1>7. CASE i = 2 BY <1>7, <1>4, <1>5, <1>1 DEF Update!Newer
<1>8. CASE i = 3 BY <1>8, <1>4, <1>5, <1>1 DEF Update!Newer
<1> QED BY <1>4, <1>6, <1>7, <1>8

\* It holds at the start.
LEMMA UpdateStarts == ASSUME Update!Init PROVE UpdateInv
<1>1. /\ v1 = [kind |-> "idle", v |-> Update!NoRelease, dl |-> "idle"] /\ v2 = 0
      /\ v3 = Update!NoRelease /\ v4 = FALSE /\ v5 = Update!NoDownload /\ v6 = {}
      /\ v7 = Update!NoRelease
  BY DEF Update!Init, Update!Shown
<1>2. Update!TypeOK
  <2>1. v2 \in 0..MaxGen BY <1>1, UpdateAssumption
  <2>2. v1 \in [kind : {"idle", "checking", "failed", "up-to-date", "update-available"},
                v : Releases \cup {Update!NoRelease},
                dl : {"idle", "downloading", "failed", "handoff-failed", "downloaded"}]
    BY <1>1
  <2> QED BY <1>1, <2>1, <2>2, Zenon DEF Update!TypeOK
<1>3. Update!UpdateIsTrue BY <1>1 DEF Update!UpdateIsTrue
<1> QED BY <1>1, <1>2, <1>3 DEF UpdateInv

\* Every step keeps it.
LEMMA UpdateSteps == ASSUME UpdateInv, Update!Next PROVE UpdateInv'
<1> USE UpdateAssumption DEF UpdateInv, Update!TypeOK, Update!UpdateIsTrue, Update!NoDownload,
   Update!Shown
<1>1. CASE Update!check BY <1>1 DEF Update!check
<1>2. CASE Update!fetchLatestRelease BY <1>2 DEF Update!fetchLatestRelease
<1>3. CASE Update!Progress BY <1>3 DEF Update!Progress, Update!ShowDownload, Update!isCurrentUpdate
<1>4. CASE Update!DownloadFails BY <1>4 DEF Update!DownloadFails, Update!ShowDownload, Update!isCurrentUpdate
<1>5. ASSUME NEW a \in Update!Answers, Update!performCheck(a) PROVE UpdateInv'
  <2>1. a.tag \in Releases BY DEF Update!Answers
  <2>2. CASE v1' = Update!Shown("failed") /\ v3' = Update!NoRelease
    BY <1>5, <2>2 DEF Update!performCheck
  <2>3. CASE v1' = Update!Shown("up-to-date") /\ v3' = v3
    BY <1>5, <2>3 DEF Update!performCheck
  <2>4. CASE /\ ~(Update!compareLauncherVersions(Current, a.tag) >= 0)
             /\ v1' = [kind |-> "update-available", v |-> a.tag, dl |-> "idle"] /\ v3' = a.tag
    <3>1. Update!Newer(a.tag, Current) BY <2>1, <2>4, NewerByParts
    <3> QED BY <1>5, <2>1, <2>4, <3>1 DEF Update!performCheck
  <2> QED BY <1>5, <2>2, <2>3, <2>4 DEF Update!performCheck
<1>6. ASSUME NEW b \in BOOLEAN, Update!downloadInstaller(b) PROVE UpdateInv'
  <2> DEFINE p == [pc |-> "fetch", gen |-> v2, v |-> v1.v]
  <2>1. /\ v1.kind = "update-available" /\ v5 = Update!NoDownload /\ v3 = v1.v
        /\ v3 # Update!NoRelease /\ v1.v \in Releases /\ v2 \in 1..MaxGen
        /\ UNCHANGED <<v2, v3, v4, v6, v7>>
    BY <1>6 DEF Update!downloadInstaller
  <2>2. CASE v1.dl = "handoff-failed" /\ ~b
    <3>1. v5' = [p EXCEPT !.pc = "open"] /\ v1' = v1
      BY <1>6, <2>1, <2>2 DEF Update!downloadInstaller, Update!openDownloadedInstaller, Update!isCurrentUpdate
    <3> QED BY <2>1, <2>2, <3>1
  <2>3. CASE v1.dl = "handoff-failed" /\ b
    <3>1. v5' = v5 /\ v1' = v1
      BY <1>6, <2>1, <2>3 DEF Update!downloadInstaller, Update!openDownloadedInstaller,
        Update!isCurrentUpdate, Update!ShowDownload
    <3> QED BY <2>1, <3>1
  <2>4. CASE v1.dl # "handoff-failed"
    <3>1. v5' = p /\ v1' = [v1 EXCEPT !.dl = "downloading"]
      BY <1>6, <2>4 DEF Update!downloadInstaller
    <3> QED BY <2>1, <3>1
  <2> QED BY <2>2, <2>3, <2>4
<1>7. ASSUME NEW b \in BOOLEAN, Update!DownloadEnds(b) PROVE UpdateInv'
  BY <1>7 DEF Update!DownloadEnds, Update!openDownloadedInstaller, Update!ShowDownload, Update!isCurrentUpdate
<1>8. ASSUME NEW b \in BOOLEAN, Update!InstallerOpened(b) PROVE UpdateInv'
  BY <1>8 DEF Update!InstallerOpened, Update!ShowDownload, Update!isCurrentUpdate
<1> QED BY <1>1, <1>2, <1>3, <1>4, <1>5, <1>6, <1>7, <1>8 DEF Update!Next

\* The places large enough to show a strip.
Wide == {r \in [x : Int, y : Int, w : Nat, h : Nat] :
           r.w >= MIN_VISIBLE_WIDTH /\ r.h >= MIN_VISIBLE_HEIGHT}

\* A strip of the window lies on the display.
StripOn(r, a) ==
  /\ Window!overlap(r, a).w >= MIN_VISIBLE_WIDTH
  /\ Window!overlap(r, a).h >= MIN_VISIBLE_HEIGHT

\* The window lies on the display as a whole.
Within(r, a) ==
  r.x >= a.x /\ r.x + r.w <= a.x + a.w /\ r.y >= a.y /\ r.y + r.h <= a.y + a.h

\* A window that was looked at and left has a strip on a display, and one that
\* was moved lies on one; the place stays while it is minimized.
WindowInv ==
  /\ v1 \in Window!Layouts /\ v2 \in Wide /\ v5 \in Wide
  /\ v3 \in {"closed", "loading", "shown", "minimized", "fullscreen"}
  /\ v4 \in {"own", "kept", "brought"}
  /\ v4 # "own" => v1 # <<>>
  /\ v4 = "kept" => Window!isReachable(v2, v1)
  /\ v4 = "brought" => \E i \in DOMAIN v1 : Within(v2, v1[i])

\* A display or a place the user may choose is wide enough.
LEMMA WideEnough == Areas \cup Spots \subseteq Wide BY WindowAssumption DEF Wide

\* What a strip on a display means in numbers.
LEMMA StripInNumbers ==
  ASSUME NEW r \in Wide, NEW a \in Wide
  PROVE  StripOn(r, a) <=>
           /\ r.x + r.w >= a.x + MIN_VISIBLE_WIDTH /\ a.x + a.w >= r.x + MIN_VISIBLE_WIDTH
           /\ r.y + r.h >= a.y + MIN_VISIBLE_HEIGHT /\ a.y + a.h >= r.y + MIN_VISIBLE_HEIGHT
BY WindowAssumption DEF Wide, StripOn, Window!overlap, Window!lesser, Window!greater

\* The cells of a strip on a display are cells of both.
LEMMA StripHasCells ==
  ASSUME NEW r \in Wide, NEW a \in Wide, StripOn(r, a)
  PROVE  Window!HasStrip(r, a)
<1> USE WindowAssumption
<1>1. /\ r.x \in Int /\ r.y \in Int /\ r.w \in Nat /\ r.h \in Nat
      /\ a.x \in Int /\ a.y \in Int /\ a.w \in Nat /\ a.h \in Nat
      /\ r.w >= MIN_VISIBLE_WIDTH /\ r.h >= MIN_VISIBLE_HEIGHT
      /\ a.w >= MIN_VISIBLE_WIDTH /\ a.h >= MIN_VISIBLE_HEIGHT
      /\ MIN_VISIBLE_WIDTH \in Nat \ {0} /\ MIN_VISIBLE_HEIGHT \in Nat \ {0}
  BY DEF Wide
<1>2. /\ r.x + r.w >= a.x + MIN_VISIBLE_WIDTH /\ a.x + a.w >= r.x + MIN_VISIBLE_WIDTH
      /\ r.y + r.h >= a.y + MIN_VISIBLE_HEIGHT /\ a.y + a.h >= r.y + MIN_VISIBLE_HEIGHT
  BY StripInNumbers
<1>3. PICK cx \in Int : cx >= r.x /\ cx >= a.x /\ cx + MIN_VISIBLE_WIDTH <= r.x + r.w
                        /\ cx + MIN_VISIBLE_WIDTH <= a.x + a.w
  <2>1. CASE r.x >= a.x BY <1>1, <1>2, <2>1
  <2>2. CASE a.x >= r.x BY <1>1, <1>2, <2>2
  <2> QED BY <1>1, <2>1, <2>2
<1>4. PICK cy \in Int : cy >= r.y /\ cy >= a.y /\ cy + MIN_VISIBLE_HEIGHT <= r.y + r.h
                        /\ cy + MIN_VISIBLE_HEIGHT <= a.y + a.h
  <2>1. CASE r.y >= a.y BY <1>1, <1>2, <2>1
  <2>2. CASE a.y >= r.y BY <1>1, <1>2, <2>2
  <2> QED BY <1>1, <2>1, <2>2
<1> DEFINE s == [x |-> cx, y |-> cy, w |-> MIN_VISIBLE_WIDTH, h |-> MIN_VISIBLE_HEIGHT]
<1>5. ASSUME NEW b \in {r, a} PROVE Window!Cells(s) \subseteq Window!Cells(b)
  <2>1. \A x \in cx..(cx + MIN_VISIBLE_WIDTH - 1) : x \in b.x..(b.x + b.w - 1) BY <1>1, <1>3
  <2>2. \A y \in cy..(cy + MIN_VISIBLE_HEIGHT - 1) : y \in b.y..(b.y + b.h - 1) BY <1>1, <1>4
  <2> QED BY <2>1, <2>2 DEF Window!Cells
<1>6. <<cx, cy>> \in Window!Cells(s) BY <1>1, <1>3, <1>4 DEF Window!Cells
<1>7. <<cx, cy>>[1] = cx /\ <<cx, cy>>[2] = cy OBVIOUS
<1> QED BY <1>5, <1>6, <1>7 DEF Window!HasStrip

\* A layout is a list of at most two displays.
LEMMA LayoutForm ==
  ASSUME NEW ds \in Window!Layouts, ds # <<>>
  PROVE  /\ DOMAIN ds \in {{1}, {1, 2}}
         /\ \A i \in DOMAIN ds : ds[i] \in Wide
<1>1. CASE \E a \in Areas : ds = <<a>> BY <1>1, WideEnough
<1>2. CASE \E a, b \in Areas : ds = <<a, b>> BY <1>2, WideEnough
<1> QED BY <1>1, <1>2 DEF Window!Layouts

\* The host of a window is one of the displays.
LEMMA HostIsDisplay ==
  ASSUME NEW r \in Wide, NEW ds \in Window!Layouts, ds # <<>>
  PROVE  \E i \in DOMAIN ds : Window!bestHost(r, ds) = ds[i]
<1> DEFINE score(i) == Window!overlap(r, ds[i]).w * Window!overlap(r, ds[i]).h
           best(i) == \A j \in DOMAIN ds : score(i) >= score(j) /\ (score(i) = score(j) => i <= j)
<1>1. ASSUME NEW i \in DOMAIN ds PROVE score(i) \in Int
  <2>1. ds[i] \in Wide BY LayoutForm
  <2>2. Window!overlap(r, ds[i]).w \in Int /\ Window!overlap(r, ds[i]).h \in Int
    BY <2>1 DEF Wide, Window!overlap, Window!greater, Window!lesser
  <2> QED BY <2>2
<1>2. \E i \in DOMAIN ds : best(i)
  <2> HIDE DEF score
  <2>1. CASE DOMAIN ds = {1}
    <3>1. best(1) BY <1>1, <2>1
    <3> QED BY <2>1, <3>1
  <2>2. CASE DOMAIN ds = {1, 2}
    <3>1. score(1) \in Int /\ score(2) \in Int BY <1>1, <2>2
    <3>2. CASE score(1) >= score(2)
      <4>1. best(1) BY <3>1, <3>2, <2>2
      <4> QED BY <2>2, <4>1
    <3>3. CASE score(2) > score(1)
      <4>1. best(2) BY <3>1, <3>3, <2>2
      <4> QED BY <2>2, <4>1
    <3> QED BY <3>1, <3>2, <3>3
  <2> QED BY <2>1, <2>2, LayoutForm
<1>3. Window!bestHost(r, ds) = ds[CHOOSE i \in DOMAIN ds : best(i)] BY DEF Window!bestHost
<1> HIDE DEF best
<1> QED BY <1>2, <1>3

\* A window that is placed in a layout stays where it is because it can be
\* reached, or lies on a display.
LEMMA PlacedIsReachable ==
  ASSUME NEW r \in Wide, NEW ds \in Window!Layouts
  PROVE  /\ Window!placeInLayout(r, ds) \in Wide
         /\ ds # <<>> /\ ~Window!isReachable(r, ds) =>
              \E i \in DOMAIN ds : Within(Window!placeInLayout(r, ds), ds[i])
         /\ ds = <<>> \/ Window!isReachable(r, ds) => Window!placeInLayout(r, ds) = r
<1>1. CASE ds = <<>> \/ Window!isReachable(r, ds) BY <1>1 DEF Window!placeInLayout
<1>2. CASE ds # <<>> /\ ~Window!isReachable(r, ds)
  <2>1. PICK i \in DOMAIN ds : Window!bestHost(r, ds) = ds[i] BY <1>2, HostIsDisplay
  <2>2. PICK a \in Wide : a = ds[i] BY <1>2, LayoutForm
  <2> DEFINE w == Window!lesser(r.w, a.w)
             h == Window!lesser(r.h, a.h)
             p == Window!placeInLayout(r, ds)
  <2>3. /\ r.x \in Int /\ r.y \in Int /\ r.w \in Nat /\ r.h \in Nat
        /\ a.x \in Int /\ a.y \in Int /\ a.w \in Nat /\ a.h \in Nat
        /\ r.w >= MIN_VISIBLE_WIDTH /\ r.h >= MIN_VISIBLE_HEIGHT
        /\ a.w >= MIN_VISIBLE_WIDTH /\ a.h >= MIN_VISIBLE_HEIGHT
        /\ MIN_VISIBLE_WIDTH \in Nat /\ MIN_VISIBLE_HEIGHT \in Nat
    BY WindowAssumption DEF Wide
  <2>4. /\ w \in Nat /\ w <= a.w /\ w >= MIN_VISIBLE_WIDTH
        /\ h \in Nat /\ h <= a.h /\ h >= MIN_VISIBLE_HEIGHT
    BY <2>3 DEF Window!lesser
  <2>5. p = IF w # r.w \/ h # r.h
            THEN [x |-> a.x + (a.w - w + 1) \div 2, y |-> a.y + (a.h - h + 1) \div 2, w |-> w, h |-> h]
            ELSE [x |-> Window!lesser(Window!greater(r.x, a.x), a.x + a.w - w),
                  y |-> Window!lesser(Window!greater(r.y, a.y), a.y + a.h - h), w |-> w, h |-> h]
    BY <1>2, <2>1, <2>2 DEF Window!placeInLayout
  <2>6. \E px, py \in Int : /\ p = [x |-> px, y |-> py, w |-> w, h |-> h]
                            /\ px >= a.x /\ px + w <= a.x + a.w /\ py >= a.y /\ py + h <= a.y + a.h
    <3> HIDE DEF p, w, h
    <3>1. CASE w # r.w \/ h # r.h
      <4>1. /\ (a.w - w + 1) \div 2 \in Nat /\ (a.w - w + 1) \div 2 <= a.w - w
            /\ (a.h - h + 1) \div 2 \in Nat /\ (a.h - h + 1) \div 2 <= a.h - h
        BY <2>3, <2>4
      <4>2. PICK px \in Int : /\ px = a.x + (a.w - w + 1) \div 2
                              /\ px >= a.x /\ px + w <= a.x + a.w
        BY <2>3, <2>4, <4>1
      <4>3. PICK py \in Int : /\ py = a.y + (a.h - h + 1) \div 2
                              /\ py >= a.y /\ py + h <= a.y + a.h
        BY <2>3, <2>4, <4>1
      <4> QED BY <2>5, <3>1, <4>2, <4>3
    <3>2. CASE ~(w # r.w \/ h # r.h)
      <4>1. PICK px \in Int : px = Window!lesser(Window!greater(r.x, a.x), a.x + a.w - w)
                              /\ px >= a.x /\ px + w <= a.x + a.w
        BY <2>3, <2>4 DEF Window!lesser, Window!greater
      <4>2. PICK py \in Int : py = Window!lesser(Window!greater(r.y, a.y), a.y + a.h - h)
                              /\ py >= a.y /\ py + h <= a.y + a.h
        BY <2>3, <2>4 DEF Window!lesser, Window!greater
      <4> QED BY <2>5, <3>2, <4>1, <4>2
    <3> QED BY <3>1, <3>2
  <2>7. p \in Wide BY <2>4, <2>6 DEF Wide
  <2>8. Within(p, a)
    <3> HIDE DEF p, w, h
    <3> QED BY <2>6 DEF Within
  <2> QED BY <1>2, <2>2, <2>7, <2>8
<1> QED BY <1>1, <1>2

\* The cells of a window on a display are cells of it.
LEMMA WithinHasCells ==
  ASSUME NEW r \in Wide, NEW a \in Wide, Within(r, a)
  PROVE  Window!Cells(r) \subseteq Window!Cells(a)
<1>1. \A x \in r.x..(r.x + r.w - 1) : x \in a.x..(a.x + a.w - 1) BY DEF Wide, Within
<1>2. \A y \in r.y..(r.y + r.h - 1) : y \in a.y..(a.y + a.h - 1) BY DEF Wide, Within
<1> QED BY <1>1, <1>2 DEF Window!Cells

\* The property follows.
LEMMA WindowImplies == ASSUME WindowInv PROVE Window!WindowIsReachable
<1> SUFFICES ASSUME v1 # <<>>
             PROVE  /\ v4 = "kept" => \E i \in DOMAIN v1 : Window!HasStrip(v2, v1[i])
                    /\ v4 = "brought" =>
                         \E i \in DOMAIN v1 : Window!Cells(v2) \subseteq Window!Cells(v1[i])
  BY DEF Window!WindowIsReachable
<1>0. v2 \in Wide /\ \A i \in DOMAIN v1 : v1[i] \in Wide BY LayoutForm DEF WindowInv
<1>1. ASSUME v4 = "kept" PROVE \E i \in DOMAIN v1 : Window!HasStrip(v2, v1[i])
  <2>1. PICK i \in DOMAIN v1 : StripOn(v2, v1[i])
    BY <1>1 DEF WindowInv, Window!isReachable, StripOn
  <2> QED BY <1>0, <2>1, StripHasCells
<1>2. ASSUME v4 = "brought"
      PROVE  \E i \in DOMAIN v1 : Window!Cells(v2) \subseteq Window!Cells(v1[i])
  <2>1. PICK i \in DOMAIN v1 : Within(v2, v1[i]) BY <1>2 DEF WindowInv
  <2> QED BY <1>0, <2>1, WithinHasCells
<1> QED BY <1>1, <1>2

\* It holds at the start.
LEMMA WindowStarts == ASSUME Window!Init PROVE WindowInv
<1>1. v1 \in Window!Layouts BY DEF Window!Init, Window!Layouts
<1>2. v2 \in Wide /\ v5 \in Wide BY WideEnough DEF Window!Init
<1>3. v3 = "closed" /\ v4 = "own" BY DEF Window!Init
<1> QED BY <1>1, <1>2, <1>3 DEF WindowInv

\* Looking at the window leaves it reachable or brings it onto a display.
LEMMA LookPlaces ==
  ASSUME WindowInv, NEW ds \in Window!Layouts, Window!Look(ds), v1' = ds,
         v3' \in {"loading", "shown"}, v5' \in {v5, v2'}
  PROVE  WindowInv'
<1>1. v2 \in Wide /\ v2' = Window!placeInLayout(v2, ds) BY DEF WindowInv, Window!Look
<1>2. v2' \in Wide /\ v5' \in Wide BY <1>1, PlacedIsReachable DEF WindowInv
<1>3. CASE ds = <<>> BY <1>2, <1>3 DEF WindowInv, Window!Look
<1>4. CASE ds # <<>> /\ v2' = v2
  <2>1. v4' = "kept" BY <1>4 DEF Window!Look
  <2>2. Window!isReachable(v2, ds)
    <3>1. SUFFICES ASSUME ~Window!isReachable(v2, ds) PROVE FALSE OBVIOUS
    <3>2. PICK i \in DOMAIN ds : Within(v2, ds[i]) BY <1>1, <1>4, <3>1, PlacedIsReachable
    <3>3. PICK a \in Wide : a = ds[i] BY <1>4, LayoutForm
    <3>4. StripOn(v2, a) BY <1>1, <3>2, <3>3, StripInNumbers, WindowAssumption DEF Within, Wide
    <3> QED BY <3>1, <3>3, <3>4 DEF StripOn, Window!isReachable
  <2> QED BY <1>2, <1>4, <2>1, <2>2 DEF WindowInv
<1>5. CASE ds # <<>> /\ v2' # v2
  <2>1. v4' = "brought" BY <1>5 DEF Window!Look
  <2>2. \E i \in DOMAIN ds : Within(v2', ds[i]) BY <1>1, <1>5, PlacedIsReachable
  <2> QED BY <1>2, <1>5, <2>1, <2>2 DEF WindowInv
<1> QED BY <1>3, <1>4, <1>5

\* Every step keeps it.
LEMMA WindowSteps == ASSUME WindowInv, Window!Next PROVE WindowInv'
<1>1. CASE Window!ensureOnScreen BY <1>1, LookPlaces DEF Window!ensureOnScreen, WindowInv
<1>2. CASE Window!Minimize BY <1>2 DEF Window!Minimize, WindowInv
<1>3. CASE Window!revealWindow BY <1>3 DEF Window!revealWindow, WindowInv
<1>4. CASE Window!Close BY <1>4 DEF Window!Close, WindowInv
<1>5. ASSUME NEW r \in Spots, Window!createWindow(r) PROVE WindowInv'
  <2>1. r \in Wide BY WideEnough
  <2> QED BY <1>5, <2>1, PlacedIsReachable DEF Window!createWindow, WindowInv
<1>6. ASSUME NEW r \in Spots, Window!Drag(r) \/ Window!LeaveFullScreen(r) PROVE WindowInv'
  <2>1. r \in Wide BY WideEnough
  <2> QED BY <1>6, <2>1 DEF Window!Drag, Window!LeaveFullScreen, Window!Moved, WindowInv
<1>7. CASE Window!EnterFullScreen
  <2>1. PICK i \in DOMAIN v1 : Window!Moved(v1[i]) BY <1>7 DEF Window!EnterFullScreen
  <2>2. v1 # <<>> BY <2>1
  <2>3. v1[i] \in Wide BY <2>1, <2>2, LayoutForm DEF WindowInv
  <2> QED BY <1>7, <2>1, <2>3 DEF Window!EnterFullScreen, Window!Moved, WindowInv
<1>8. ASSUME NEW ds \in Window!Layouts, Window!DisplaysChange(ds) PROVE WindowInv'
  <2>1. CASE v3 \in {"loading", "shown"}
    BY <1>8, <2>1, LookPlaces DEF Window!DisplaysChange
  <2>2. CASE v3 \notin {"loading", "shown"}
    BY <1>8, <2>2 DEF Window!DisplaysChange, WindowInv
  <2> QED BY <2>1, <2>2
<1> QED BY <1>1, <1>2, <1>3, <1>4, <1>5, <1>6, <1>7, <1>8 DEF Window!Next

\* The phase of the quit sequence tells whose shutdown has settled, and from its
\* start on no close handler keeps a window.
LifecycleInv ==
  /\ Lifecycle!TypeOK
  /\ v9 # "idle" => v2 = "up" /\ v7
  /\ v9 = "idle" => v10 = Lifecycle!Owners /\ ~v7
  /\ v9 = "connections" => {"coreSupervisor", "launcherHarnessService"} \subseteq v10
  /\ v9 = "core" => v10 = {"coreSupervisor", "launcherHarnessService"}
  /\ v9 = "runtime" /\ v12 = "no" => v10 = {"launcherHarnessService"}
  /\ v9 = "runtime" /\ ~v11 => v3 \in {"none", "gone"}
  /\ v9 = "complete" => v10 = {} /\ v3 \in {"none", "gone"}
  /\ v12 = "clean" => v9 = "complete"
  /\ Lifecycle!NeverStranded

\* It holds at the start.
LEMMA LifecycleStarts == ASSUME Lifecycle!Init PROVE LifecycleInv
BY DEF LifecycleInv, Lifecycle!Init, Lifecycle!TypeOK, Lifecycle!NeverStranded,
  Lifecycle!Owners, Lifecycle!Connections

\* Every step keeps it.
LEMMA LifecycleSteps == ASSUME LifecycleInv, Lifecycle!Next PROVE LifecycleInv'
<1> USE DEF LifecycleInv, Lifecycle!TypeOK, Lifecycle!NeverStranded
<1>0. /\ v12 = "no"
      /\ {"coreSupervisor", "launcherHarnessService"} \subseteq Lifecycle!Owners
      /\ Lifecycle!Connections \subseteq Lifecycle!Owners
      /\ "coreSupervisor" \notin Lifecycle!Connections
      /\ "launcherHarnessService" \notin Lifecycle!Connections
  BY DEF Lifecycle!Next, Lifecycle!Shutdown, Lifecycle!Owners, Lifecycle!Connections
<1>01. \A o \in Lifecycle!Owners : o \in Lifecycle!Connections \cup {"coreSupervisor", "launcherHarnessService"}
  BY DEF Lifecycle!Owners
<1>1. ASSUME NEW ok \in BOOLEAN, NEW o \in Lifecycle!Connections, Lifecycle!ConnectionSettled(o, ok)
      PROVE  LifecycleInv'
  BY <1>0, <1>01, <1>1 DEF Lifecycle!ConnectionSettled, Lifecycle!Settle
<1>2. ASSUME NEW ok \in BOOLEAN, Lifecycle!coreSettled(ok) PROVE LifecycleInv'
  BY <1>0, <1>2 DEF Lifecycle!coreSettled, Lifecycle!Settle
<1>3. ASSUME NEW ok \in BOOLEAN, Lifecycle!runtimeSettled(ok) PROVE LifecycleInv'
  BY <1>0, <1>3 DEF Lifecycle!runtimeSettled, Lifecycle!Settle
<1>4. CASE Lifecycle!startFails BY <1>0, <1>4 DEF Lifecycle!startFails
<1>5. CASE Lifecycle!QuitRequested
  <2>1. CASE v9 = "idle"
    BY <1>0, <1>5, <2>1 DEF Lifecycle!QuitRequested, Lifecycle!beforeQuit, Lifecycle!run
  <2>2. CASE v9 = "complete"
    BY <1>0, <1>5, <2>2 DEF Lifecycle!QuitRequested, Lifecycle!beforeQuit, Lifecycle!Quit,
       Lifecycle!intercepts
  <2>3. CASE v9 \notin {"idle", "complete"}
    <3>1. UNCHANGED <<v1, v2, v3, v4, v5, v6, v7, v8, v9, v10, v11, v12>>
      BY <1>5, <2>3 DEF Lifecycle!QuitRequested, Lifecycle!beforeQuit, Lifecycle!run
    <3> QED BY <3>1
  <2> QED BY <2>1, <2>2, <2>3
<1>6. CASE Lifecycle!Signalled
  <2>1. CASE v9 = "idle" BY <1>0, <1>6, <2>1 DEF Lifecycle!Signalled, Lifecycle!run
  <2>2. CASE v9 # "idle"
    <3>1. UNCHANGED <<v1, v2, v3, v4, v5, v6, v7, v8, v9, v10, v11, v12>>
      BY <1>6, <2>2 DEF Lifecycle!Signalled, Lifecycle!run
    <3> QED BY <3>1
  <2> QED BY <2>1, <2>2
<1>7. CASE Lifecycle!quitApp BY <1>0, <1>7 DEF Lifecycle!quitApp
<1>8. CASE Lifecycle!CloseWindow
  <2>1. CASE Lifecycle!intercepts \/ Lifecycle!isTrayActive \/ v1
    BY <1>0, <1>8, <2>1 DEF Lifecycle!CloseWindow, Lifecycle!intercepts, Lifecycle!isTrayActive
  <2>2. CASE ~(Lifecycle!intercepts \/ Lifecycle!isTrayActive \/ v1)
    <3>1. Lifecycle!beforeQuit("none") /\ v2 = "up"
          /\ UNCHANGED <<v1, v2, v3, v5, v6, v8, v10, v11>>
      BY <1>8, <2>2 DEF Lifecycle!CloseWindow
    <3>2. CASE v9 = "idle"
      BY <1>0, <3>1, <3>2 DEF Lifecycle!beforeQuit, Lifecycle!run
    <3>3. CASE v9 # "idle"
      BY <1>0, <3>1, <3>3 DEF Lifecycle!beforeQuit, Lifecycle!Quit, Lifecycle!run,
         Lifecycle!intercepts
    <3> QED BY <3>2, <3>3
  <2> QED BY <2>1, <2>2
<1>9. CASE Lifecycle!showWindow \/ Lifecycle!hasActiveOperation \/ Lifecycle!CoreExits
  <2>1. CASE Lifecycle!showWindow BY <1>0, <2>1 DEF Lifecycle!showWindow
  <2>2. CASE Lifecycle!hasActiveOperation BY <1>0, <2>2 DEF Lifecycle!hasActiveOperation
  <2>3. CASE Lifecycle!CoreExits BY <1>0, <2>3 DEF Lifecycle!CoreExits
  <2> QED BY <1>9, <2>1, <2>2, <2>3
<1>10. ASSUME NEW kind \in {"none", "spawned", "attached"}, Lifecycle!startCore(kind)
       PROVE  LifecycleInv'
  BY <1>0, <1>10 DEF Lifecycle!startCore
<1>11. ASSUME NEW made \in BOOLEAN, Lifecycle!start(made) \/ Lifecycle!activate(made)
       PROVE  LifecycleInv'
  BY <1>0, <1>11 DEF Lifecycle!start, Lifecycle!activate, Lifecycle!createTray
<1>12. ASSUME NEW b \in {"quit", "minimize-to-tray"}, Lifecycle!setCloseBehavior(b)
       PROVE  LifecycleInv'
  BY <1>0, <1>12 DEF Lifecycle!setCloseBehavior
<1> QED BY <1>1, <1>2, <1>3, <1>4, <1>5, <1>6, <1>7, <1>8, <1>9, <1>10, <1>11, <1>12
        DEF Lifecycle!Next, Lifecycle!Shutdown

\* Only a connection in use is open, an attached core has no channel, and what is
\* closed was ready.
HelperInv ==
  /\ Helper!TypeOK
  /\ v4 = "open" => v1 \in {"version", "attach", "ready"}
  /\ v2 = "none" => ~v3
  /\ v5 # "no" => v1 = "ready"
  /\ v5 = "handoff" => v2 = "none"
  /\ v1 \in {"verify", "registered", "channel", "endpoint", "attach"} => v2 = "none"
  /\ Helper!NoHalfCore /\ Helper!NewestServes

\* It holds at the start.
LEMMA HelperStarts == ASSUME Helper!Init PROVE HelperInv
<1>1. /\ v1 = "verify" /\ v2 = "none" /\ ~v3 /\ v3 \in BOOLEAN /\ v4 = "none" /\ v5 = "no"
      /\ v6 = 0 /\ v7 = 0 /\ v8 = {}
  BY DEF Helper!Init
<1>2. 0 \in 0..MaxServes BY HelperAssumption
<1> QED BY <1>1, <1>2 DEF HelperInv, Helper!TypeOK, Helper!NoHalfCore, Helper!NewestServes

\* Every step keeps it.
LEMMA HelperSteps == ASSUME HelperInv, Helper!Next PROVE HelperInv'
<1> USE HelperAssumption DEF HelperInv, Helper!TypeOK, Helper!NoHalfCore, Helper!NewestServes
<1>1. CASE Helper!undoStart BY <1>1 DEF Helper!undoStart
<1>2. CASE Helper!Disconnect \/ Helper!ChildExits
  <2>1. CASE Helper!Disconnect BY <2>1 DEF Helper!Disconnect
  <2>2. CASE Helper!ChildExits BY <2>2 DEF Helper!ChildExits
  <2> QED BY <1>2, <2>1, <2>2
<1>3. CASE Helper!close BY <1>3 DEF Helper!close
<1>4. CASE Helper!serve BY <1>4 DEF Helper!serve
<1>5. ASSUME NEW ok \in BOOLEAN,
             \/ Helper!verifyCoreExecutable(ok) \/ Helper!spawn(ok) \/ Helper!readPeerLine(ok)
      PROVE  HelperInv'
  <2>1. CASE Helper!verifyCoreExecutable(ok) BY <2>1 DEF Helper!verifyCoreExecutable
  <2>2. CASE Helper!spawn(ok) BY <2>2 DEF Helper!spawn
  <2>3. CASE Helper!readPeerLine(ok) BY <2>3 DEF Helper!readPeerLine
  <2> QED BY <1>5, <2>1, <2>2, <2>3
<1>6. ASSUME NEW ok \in BOOLEAN, Helper!authenticatePeer(ok) \/ Helper!assertCoreVersion(ok)
      PROVE  HelperInv'
  <2>1. CASE Helper!authenticatePeer(ok) BY <2>1 DEF Helper!authenticatePeer
  <2>2. CASE Helper!assertCoreVersion(ok) BY <2>2 DEF Helper!assertCoreVersion
  <2> QED BY <1>6, <2>1, <2>2
<1>7. ASSUME NEW ok \in BOOLEAN, Helper!handoff(ok) \/ Helper!stopChild(ok) PROVE HelperInv'
  BY <1>7 DEF Helper!handoff, Helper!stopChild
<1>8. ASSUME NEW a \in {"installed", "none", "refused"}, Helper!registeredHeadlessCore(a)
      PROVE  HelperInv'
  BY <1>8 DEF Helper!registeredHeadlessCore
<1>9. ASSUME NEW h \in 1..MaxServes, Helper!unserve(h) PROVE HelperInv'
  BY <1>9 DEF Helper!unserve
<1> QED BY <1>1, <1>2, <1>3, <1>4, <1>5, <1>6, <1>7, <1>8, <1>9 DEF Helper!Next

\* A queue without its first element.
LEMMA WithoutFirst ==
  ASSUME NEW S, NEW q \in Seq(S), q # <<>>
  PROVE  /\ Len(q) \in Nat /\ Len(q) >= 1 /\ q[1] \in S /\ \A k \in 1..Len(q) : q[k] \in S
         /\ SubSeq(q, 1, 0) \o SubSeq(q, 2, Len(q)) \in Seq(S)
         /\ Len(SubSeq(q, 1, 0) \o SubSeq(q, 2, Len(q))) = Len(q) - 1
         /\ \A k \in 1..Len(q) - 1 : (SubSeq(q, 1, 0) \o SubSeq(q, 2, Len(q)))[k] = q[k + 1]
<1>1. Len(q) \in Nat /\ Len(q) >= 1 /\ \A k \in 1..Len(q) : q[k] \in S OBVIOUS
<1>2. SubSeq(q, 1, 0) = <<>> BY <1>1
<1>3. /\ SubSeq(q, 2, Len(q)) \in Seq(S) /\ Len(SubSeq(q, 2, Len(q))) = Len(q) - 1
      /\ \A k \in 1..Len(q) - 1 : SubSeq(q, 2, Len(q))[k] = q[k + 1]
  <2>1. /\ SubSeq(q, 2, Len(q)) \in Seq(S)
        /\ Len(SubSeq(q, 2, Len(q))) = IF 2 <= Len(q) THEN Len(q) - 2 + 1 ELSE 0
        /\ \A k \in 1..(Len(q) - 2 + 1) : SubSeq(q, 2, Len(q))[k] = q[2 + k - 1]
    BY <1>1, SubSeqProperties
  <2>2. \A k \in 1..Len(q) - 1 : SubSeq(q, 2, Len(q))[k] = q[k + 1]
    <3> TAKE k \in 1..Len(q) - 1
    <3>1. k \in 1..(Len(q) - 2 + 1) /\ 2 + k - 1 = k + 1 BY <1>1
    <3> QED BY <2>1, <3>1
  <2>3. Len(SubSeq(q, 2, Len(q))) = Len(q) - 1
    <3>1. CASE 2 <= Len(q) BY <1>1, <2>1, <3>1
    <3>2. CASE Len(q) = 1 BY <2>1, <3>2
    <3> QED BY <1>1, <3>1, <3>2
  <2> QED BY <2>1, <2>2, <2>3
<1>4. SubSeq(q, 1, 0) \o SubSeq(q, 2, Len(q)) = SubSeq(q, 2, Len(q)) BY <1>2, <1>3
<1> QED BY <1>1, <1>3, <1>4

\* A queue whose first element is replaced.
LEMMA FirstReplaced ==
  ASSUME NEW S, NEW q \in Seq(S), q # <<>>, NEW x \in S
  PROVE  /\ [q EXCEPT ![1] = x] \in Seq(S) /\ Len([q EXCEPT ![1] = x]) = Len(q)
         /\ 1 \in 1..Len(q) /\ Len(q) \in Nat /\ [q EXCEPT ![1] = x][1] = x
         /\ \A k \in 1..Len(q) : k # 1 => [q EXCEPT ![1] = x][k] = q[k]
OBVIOUS

\* The levels the queued commands lead through, from what the file says.
ZoomPath(t) ==
  /\ t \in [0..Len(v2) -> 1..Levels]
  /\ t[0] = Zoom!loadOrCreateRecord /\ t[Len(v2)] = v6
  /\ \A i \in 1..Len(v2) : t[i] = Zoom!nextRuntimeBrowserZoom(t[i - 1], v2[i].cmd)

\* While no page's first read was overtaken, the queued commands lead from the file to
\* what was asked for, only the oldest has read the file, and a page shown shows it.
ZoomTrue ==
  /\ \E t : ZoomPath(t)
  /\ \A i \in 1..Len(v2) : v2[i].pc = "save" => i = 1 /\ v1 # 0 /\ v2[i].seen = v1
  /\ \A g \in Guests : v3[g] = "shown" => v1 # 0 /\ v5[g] = v1
ZoomInv ==
  /\ Zoom!TypeOK
  /\ \A i \in 1..Len(v2) : v2[i].pc = "save" => v2[i].seen # 0
  /\ ~v8 => ZoomTrue

\* The property follows.
LEMMA ZoomImplies == ASSUME ZoomInv PROVE Zoom!ZoomStepsAdd
<1> SUFFICES ASSUME v2 = <<>>, ~v8
             PROVE  /\ v1 \in {v6, 0}
                    /\ \A g \in Guests : v3[g] = "shown" => v5[g] = v1
  BY DEF Zoom!ZoomStepsAdd
<1>1. PICK t : ZoomPath(t) BY DEF ZoomInv, ZoomTrue
<1>2. Len(v2) = 0 OBVIOUS
<1>3. v6 = Zoom!loadOrCreateRecord BY <1>1, <1>2 DEF ZoomPath
<1> QED BY <1>3 DEF ZoomInv, ZoomTrue, Zoom!loadOrCreateRecord

\* It holds at the start.
LEMMA ZoomStarts == ASSUME Zoom!Init PROVE ZoomInv
<1> USE ZoomAssumption
<1>1. /\ v1 \in 0..Levels /\ v2 = <<>> /\ v7 = MaxCommands /\ v3 = [g \in Guests |-> "none"]
      /\ v5 = [g \in Guests |-> 0] /\ v4 = v5 /\ v6 = Zoom!loadOrCreateRecord
      /\ ~v8 /\ v8 \in BOOLEAN
  BY DEF Zoom!Init, Zoom!loadOrCreateRecord
<1>2. v6 \in 1..Levels BY <1>1 DEF Zoom!loadOrCreateRecord
<1>3. Len(v2) = 0 BY <1>1
<1>4. ZoomPath([i \in 0..0 |-> v6]) BY <1>1, <1>2, <1>3 DEF ZoomPath
<1>5. Zoom!TypeOK
  <2>1. v2 \in Seq([cmd : Zoom!Commands, pc : {"load", "save"}, seen : 0..Levels]) BY <1>1
  <2>2. v7 \in 0..MaxCommands /\ v5 \in [Guests -> 0..Levels] /\ v4 \in [Guests -> 0..Levels] BY <1>1
  <2> QED BY <1>1, <1>2, <2>1, <2>2 DEF Zoom!TypeOK
<1>6. ZoomTrue BY <1>1, <1>3, <1>4 DEF ZoomTrue
<1> QED BY <1>3, <1>5, <1>6 DEF ZoomInv

\* A command leads from a level to a level.
LEMMA ZoomLevels ==
  ASSUME NEW l \in 1..Levels, NEW cmd \in Zoom!Commands
  PROVE  Zoom!nextRuntimeBrowserZoom(l, cmd) \in 1..Levels
BY ZoomAssumption DEF Zoom!Commands, Zoom!nextRuntimeBrowserZoom

\* A change of the file that does not change what it says keeps the path.
LEMMA ZoomPathStays ==
  ASSUME NEW t, ZoomPath(t), UNCHANGED <<v2, v6>>,
         Zoom!loadOrCreateRecord' = Zoom!loadOrCreateRecord
  PROVE  ZoomPath(t)'
BY DEF ZoomPath, Zoom!nextRuntimeBrowserZoom

\* A command is queued.
LEMMA ZoomAsked ==
  ASSUME ZoomInv, NEW cmd \in Zoom!Commands, Zoom!mutate(cmd)
  PROVE  ZoomInv'
<1> USE ZoomAssumption
<1> DEFINE E == [cmd : Zoom!Commands, pc : {"load", "save"}, seen : 0..Levels]
           x == [cmd |-> cmd, pc |-> "load", seen |-> 0]
<1>1. v2 \in Seq(E) /\ x \in E /\ v2' = Append(v2, x)
      /\ UNCHANGED <<v1, v3, v4, v5, v8>> /\ v7' = v7 - 1 /\ v7 > 0
      /\ v6' = Zoom!nextRuntimeBrowserZoom(v6, cmd)
  BY DEF ZoomInv, Zoom!TypeOK, Zoom!mutate
<1>2. /\ v2' \in Seq(E) /\ Len(v2') = Len(v2) + 1 /\ Len(v2) \in Nat
      /\ \A i \in 1..Len(v2) : v2'[i] = v2[i]
      /\ v2'[Len(v2) + 1] = x
  BY <1>1
<1>3. v6 \in 1..Levels /\ v6' \in 1..Levels BY <1>1, ZoomLevels DEF ZoomInv, Zoom!TypeOK
<1>4. Zoom!TypeOK'
  <2>1. v7' \in 0..MaxCommands BY <1>1 DEF ZoomInv, Zoom!TypeOK
  <2> QED BY <1>1, <1>2, <1>3, <2>1 DEF ZoomInv, Zoom!TypeOK
<1>5. ASSUME ~v8' PROVE ZoomTrue'
  <2>1. ZoomTrue BY <1>1, <1>5 DEF ZoomInv
  <2>2. PICK t : ZoomPath(t) BY <2>1 DEF ZoomTrue
  <2> DEFINE u == [i \in 0..Len(v2) + 1 |-> IF i = Len(v2) + 1 THEN v6' ELSE t[i]]
  <2>3. t \in [0..Len(v2) -> 1..Levels] /\ t[0] = Zoom!loadOrCreateRecord /\ t[Len(v2)] = v6
        /\ \A i \in 1..Len(v2) : t[i] = Zoom!nextRuntimeBrowserZoom(t[i - 1], v2[i].cmd)
    BY <2>2 DEF ZoomPath
  <2>4. u \in [0..Len(v2') -> 1..Levels] BY <1>2, <1>3, <2>3
  <2>5. u[0] = Zoom!loadOrCreateRecord' /\ u[Len(v2')] = v6'
    BY <1>1, <1>2, <2>3 DEF Zoom!loadOrCreateRecord
  <2>6. ASSUME NEW i \in 1..Len(v2')
        PROVE  u[i] = Zoom!nextRuntimeBrowserZoom(u[i - 1], v2'[i].cmd)
    <3>1. CASE i = Len(v2) + 1
      <4>1. u[i] = v6' /\ u[i - 1] = v6 /\ v2'[i].cmd = cmd BY <3>1, <1>2, <2>3
      <4> QED BY <4>1, <1>1
    <3>2. CASE i # Len(v2) + 1
      <4>1. i \in 1..Len(v2) /\ u[i] = t[i] /\ u[i - 1] = t[i - 1] /\ v2'[i] = v2[i] BY <3>2, <1>2
      <4> QED BY <4>1, <2>3
    <3> QED BY <3>1, <3>2
  <2>a. PICK w : w = u OBVIOUS
  <2> HIDE DEF u
  <2>7. ZoomPath(w)' BY <2>a, <2>4, <2>5, <2>6 DEF ZoomPath, Zoom!nextRuntimeBrowserZoom
  <2>8. \A i \in 1..Len(v2') : v2'[i].pc = "save" => i = 1 /\ v1' # 0 /\ v2'[i].seen = v1'
    BY <1>1, <1>2, <2>1 DEF ZoomTrue
  <2>9. \E p : ZoomPath(p)' BY <2>7
  <2> QED BY <1>1, <2>1, <2>8, <2>9 DEF ZoomTrue
<1>6. \A i \in 1..Len(v2') : v2'[i].pc = "save" => v2'[i].seen # 0 BY <1>2 DEF ZoomInv
<1> QED BY <1>4, <1>5, <1>6 DEF ZoomInv

\* The oldest command reads the file.
LEMMA ZoomLoads ==
  ASSUME ZoomInv, NEW i \in 1..MaxCommands, Zoom!adjustZoomLoads(i)
  PROVE  ZoomInv'
<1> USE ZoomAssumption
<1> DEFINE E == [cmd : Zoom!Commands, pc : {"load", "save"}, seen : 0..Levels]
           l == Zoom!loadOrCreateRecord
<1>1. /\ i = 1 /\ v2 # <<>> /\ v2 \in Seq(E) /\ v2' = [v2 EXCEPT ![1].pc = "save", ![1].seen = l]
      /\ v1' = l /\ UNCHANGED <<v3, v4, v5, v6, v7, v8>> /\ v2[1].pc = "load"
  BY DEF ZoomInv, Zoom!TypeOK, Zoom!adjustZoomLoads, Zoom!runs
<1>2. l \in 1..Levels BY DEF ZoomInv, Zoom!TypeOK, Zoom!loadOrCreateRecord
<1> DEFINE x == [v2[1] EXCEPT !.pc = "save", !.seen = l]
<1>a. v2[1] \in E
  <2> HIDE DEF E
  <2> QED BY <1>1, WithoutFirst
<1>b. x \in E /\ x.cmd = v2[1].cmd /\ x.seen = l
  <2>1. l \in 0..Levels BY <1>2
  <2> HIDE DEF l
  <2> QED BY <1>a, <2>1
<1>c. v2' = [v2 EXCEPT ![1] = x] BY <1>1
<1> HIDE DEF E, x
<1>3. /\ v2' \in Seq(E) /\ Len(v2') = Len(v2) /\ 1 \in 1..Len(v2)
      /\ v2'[1].cmd = v2[1].cmd /\ v2'[1].seen = l
      /\ \A k \in 1..Len(v2) : k # 1 => v2'[k] = v2[k]
      /\ \A k \in 1..Len(v2) : v2'[k].cmd = v2[k].cmd
  <2>1. /\ v2' \in Seq(E) /\ Len(v2') = Len(v2) /\ 1 \in 1..Len(v2) /\ v2'[1] = x
        /\ \A k \in 1..Len(v2) : k # 1 => v2'[k] = v2[k]
    <3>1. v2 \in Seq(E) /\ v2 # <<>> BY <1>1
    <3>2. /\ [v2 EXCEPT ![1] = x] \in Seq(E) /\ Len([v2 EXCEPT ![1] = x]) = Len(v2)
          /\ 1 \in 1..Len(v2) /\ [v2 EXCEPT ![1] = x][1] = x
          /\ \A k \in 1..Len(v2) : k # 1 => [v2 EXCEPT ![1] = x][k] = v2[k]
      BY <3>1, <1>b, FirstReplaced
    <3> QED BY <1>c, <3>2
  <2>2. ASSUME NEW k \in 1..Len(v2) PROVE v2'[k].cmd = v2[k].cmd
    <3>1. CASE k = 1 BY <1>b, <2>1, <3>1
    <3>2. CASE k # 1 BY <2>1, <3>2
    <3> QED BY <3>1, <3>2
  <2> QED BY <1>b, <2>1, <2>2
<1> USE DEF E
<1>4. Zoom!TypeOK' BY <1>1, <1>2, <1>3 DEF ZoomInv, Zoom!TypeOK
<1>5. l' = l BY <1>1, <1>2 DEF Zoom!loadOrCreateRecord
<1>6. ASSUME ~v8' PROVE ZoomTrue'
  <2>1. ZoomTrue BY <1>1, <1>6 DEF ZoomInv
  <2>2. PICK t : ZoomPath(t) BY <2>1 DEF ZoomTrue
  <2>3. ZoomPath(t)' BY <2>2, <1>1, <1>3, <1>5 DEF ZoomPath, Zoom!nextRuntimeBrowserZoom
  <2>4. \A k \in 1..Len(v2') : v2'[k].pc = "save" => k = 1 /\ v1' # 0 /\ v2'[k].seen = v1'
    BY <1>1, <1>2, <1>3, <2>1 DEF ZoomTrue
  <2>5. \A g \in Guests : v3'[g] = "shown" => v1' # 0 /\ v5'[g] = v1'
    BY <1>1, <1>2, <2>1 DEF ZoomTrue, Zoom!loadOrCreateRecord
  <2> QED BY <2>3, <2>4, <2>5 DEF ZoomTrue
<1>7. \A k \in 1..Len(v2') : v2'[k].pc = "save" => v2'[k].seen # 0 BY <1>2, <1>3 DEF ZoomInv
<1> QED BY <1>4, <1>6, <1>7 DEF ZoomInv

\* The oldest command saves its level, and every page is told.
LEMMA ZoomSaves ==
  ASSUME ZoomInv, NEW i \in 1..MaxCommands, Zoom!adjustZoomSaves(i)
  PROVE  ZoomInv'
<1> USE ZoomAssumption
<1> DEFINE E == [cmd : Zoom!Commands, pc : {"load", "save"}, seen : 0..Levels]
           l == Zoom!nextRuntimeBrowserZoom(v2[1].seen, v2[1].cmd)
<1>1. /\ i = 1 /\ v2 # <<>> /\ v2 \in Seq(E) /\ v1' = l /\ v2[1].pc = "save"
      /\ v2' = SubSeq(v2, 1, 0) \o SubSeq(v2, 2, Len(v2))
      /\ v5' = [g \in Guests |-> IF v3[g] # "none" THEN l ELSE v5[g]]
      /\ UNCHANGED <<v3, v4, v6, v7, v8>>
  BY DEF ZoomInv, Zoom!TypeOK, Zoom!adjustZoomSaves, Zoom!runs
<1> HIDE DEF E
<1>2. Len(v2) \in Nat /\ Len(v2) >= 1 /\ v2[1] \in E /\ \A k \in 1..Len(v2) : v2[k] \in E
  BY <1>1, WithoutFirst
<1>3. /\ v2' \in Seq(E) /\ Len(v2') = Len(v2) - 1
      /\ \A k \in 1..Len(v2') : v2'[k] = v2[k + 1]
  BY <1>1, WithoutFirst
<1> USE DEF E
<1>4. l \in 1..Levels
  <2>1. v2[1].seen \in 1..Levels BY <1>1, <1>2 DEF ZoomInv
  <2> QED BY <1>2, <2>1, ZoomLevels
<1>5. Zoom!TypeOK'
  <2>1. v5' \in [Guests -> 0..Levels] BY <1>1, <1>4 DEF ZoomInv, Zoom!TypeOK
  <2> QED BY <1>1, <1>3, <1>4, <2>1 DEF ZoomInv, Zoom!TypeOK
<1>6. ASSUME ~v8' PROVE ZoomTrue'
  <2>1. ZoomTrue BY <1>1, <1>6 DEF ZoomInv
  <2>2. PICK t : ZoomPath(t) BY <2>1 DEF ZoomTrue
  <2>3. t \in [0..Len(v2) -> 1..Levels] /\ t[0] = Zoom!loadOrCreateRecord /\ t[Len(v2)] = v6
        /\ \A k \in 1..Len(v2) : t[k] = Zoom!nextRuntimeBrowserZoom(t[k - 1], v2[k].cmd)
    BY <2>2 DEF ZoomPath
  <2>4. t[1] = l
    <3>1. 1 \in 1..Len(v2) BY <1>2
    <3>2. v1 # 0 /\ v2[1].seen = v1 BY <1>1, <3>1, <2>1 DEF ZoomTrue
    <3>3. t[0] = v2[1].seen BY <2>3, <3>2 DEF Zoom!loadOrCreateRecord
    <3> QED BY <2>3, <3>1, <3>3
  <2> DEFINE u == [k \in 0..Len(v2) - 1 |-> t[k + 1]]
  <2>5. u \in [0..Len(v2') -> 1..Levels] BY <1>2, <1>3, <2>3
  <2>6. u[0] = Zoom!loadOrCreateRecord' /\ u[Len(v2')] = v6'
    BY <1>1, <1>2, <1>3, <1>4, <2>3, <2>4 DEF Zoom!loadOrCreateRecord
  <2>7. ASSUME NEW k \in 1..Len(v2')
        PROVE  u[k] = Zoom!nextRuntimeBrowserZoom(u[k - 1], v2'[k].cmd)
    <3>1. k + 1 \in 1..Len(v2) /\ u[k] = t[k + 1] /\ u[k - 1] = t[k] /\ v2'[k] = v2[k + 1]
          /\ (k + 1) - 1 = k
      <4>1. /\ k + 1 \in 1..Len(v2) /\ k \in 0..Len(v2) - 1 /\ k - 1 \in 0..Len(v2) - 1
            /\ (k - 1) + 1 = k /\ (k + 1) - 1 = k
        BY <1>2, <1>3
      <4>2. v2'[k] = v2[k + 1] BY <1>3
      <4>3. u[k] = t[k + 1] BY <4>1
      <4>4. u[k - 1] = t[(k - 1) + 1] BY <4>1
      <4> QED BY <4>1, <4>2, <4>3, <4>4
    <3>2. t[k + 1] = Zoom!nextRuntimeBrowserZoom(t[(k + 1) - 1], v2[k + 1].cmd) BY <2>3, <3>1
    <3> QED BY <3>1, <3>2
  <2>a. PICK w : w = u OBVIOUS
  <2> HIDE DEF u
  <2>8. ZoomPath(w)' BY <2>a, <2>5, <2>6, <2>7 DEF ZoomPath, Zoom!nextRuntimeBrowserZoom
  <2>9. ASSUME NEW k \in 1..Len(v2') PROVE v2'[k].pc # "save"
    <3>1. k + 1 \in 1..Len(v2) /\ k + 1 # 1 /\ v2'[k] = v2[k + 1] BY <1>2, <1>3
    <3> QED BY <3>1, <2>1 DEF ZoomTrue
  <2>10. \A g \in Guests : v3'[g] = "shown" => v1' # 0 /\ v5'[g] = v1' BY <1>1, <1>4
  <2>11. \E x : ZoomPath(x)' BY <2>8
  <2> QED BY <2>9, <2>10, <2>11 DEF ZoomTrue
<1>7. ASSUME NEW k \in 1..Len(v2'), v2'[k].pc = "save" PROVE v2'[k].seen # 0
  <2>1. k + 1 \in 1..Len(v2) /\ v2'[k] = v2[k + 1] BY <1>2, <1>3
  <2> QED BY <1>7, <2>1 DEF ZoomInv
<1> QED BY <1>5, <1>6, <1>7 DEF ZoomInv

\* The pages come, read, show what they read and go.
LEMMA ZoomPages ==
  ASSUME ZoomInv, NEW g \in Guests,
         Zoom!attach(g) \/ Zoom!attachReads(g) \/ Zoom!attachApplies(g) \/ Zoom!Detach(g)
  PROVE  ZoomInv'
<1> USE ZoomAssumption
<1>1. Zoom!TypeOK BY DEF ZoomInv
<1>2. CASE Zoom!attach(g) \/ Zoom!attachReads(g) \/ Zoom!Detach(g)
  <2>1. /\ UNCHANGED <<v1, v2, v6, v7, v8>> /\ v3' \in [Guests -> {"none", "read", "apply", "shown"}]
        /\ v4' \in [Guests -> 0..Levels] /\ v5' \in [Guests -> 0..Levels]
        /\ \A x \in Guests : v3'[x] = "shown" => v3[x] = "shown" /\ v5'[x] = v5[x]
    <3>1. CASE Zoom!attach(g) BY <1>1, <3>1 DEF Zoom!TypeOK, Zoom!attach
    <3>2. CASE Zoom!attachReads(g) BY <1>1, <3>2 DEF Zoom!TypeOK, Zoom!attachReads
    <3>3. CASE Zoom!Detach(g) BY <1>1, <3>3 DEF Zoom!TypeOK, Zoom!Detach
    <3> QED BY <1>2, <3>1, <3>2, <3>3
  <2>2. Zoom!TypeOK' BY <1>1, <2>1 DEF Zoom!TypeOK
  <2>3. ASSUME ~v8' PROVE ZoomTrue'
    <3>1. ZoomTrue BY <2>1, <2>3 DEF ZoomInv
    <3>2. PICK t : ZoomPath(t) BY <3>1 DEF ZoomTrue
    <3>3. ZoomPath(t)' BY <3>2, <2>1, ZoomPathStays DEF Zoom!loadOrCreateRecord
    <3> QED BY <3>1, <3>3, <2>1 DEF ZoomTrue
  <2> QED BY <2>1, <2>2, <2>3 DEF ZoomInv
<1>3. CASE Zoom!attachApplies(g)
  <2> DEFINE l == IF v4[g] = 0 THEN DefaultLevel ELSE v4[g]
  <2>1. /\ v3' = [v3 EXCEPT ![g] = "shown"] /\ v5' = [v5 EXCEPT ![g] = l]
        /\ v1' = IF v4[g] = 0 THEN l ELSE v1
        /\ UNCHANGED <<v2, v4, v6, v7>> /\ v4[g] \in 0..Levels /\ l \in 1..Levels
    BY <1>1, <1>3 DEF Zoom!attachApplies, Zoom!TypeOK
  <2>2. v8' \in BOOLEAN /\ (~v8' => ~v8 /\ v1 = v4[g]) BY <1>1, <1>3 DEF Zoom!attachApplies, Zoom!TypeOK
  <2>3. Zoom!TypeOK' BY <1>1, <2>1, <2>2 DEF Zoom!TypeOK
  <2>4. ASSUME ~v8' PROVE ZoomTrue'
    <3>1. ZoomTrue /\ v1 = v4[g] BY <2>2, <2>4 DEF ZoomInv
    <3>2. PICK t : ZoomPath(t) BY <3>1 DEF ZoomTrue
    <3>3. v1' = l /\ Zoom!loadOrCreateRecord' = Zoom!loadOrCreateRecord
      BY <2>1, <3>1 DEF Zoom!loadOrCreateRecord
    <3>4. ZoomPath(t)' BY <3>2, <3>3, <2>1, ZoomPathStays
    <3>5. \A k \in 1..Len(v2') : v2'[k].pc = "save" => k = 1 /\ v1' # 0 /\ v2'[k].seen = v1'
      BY <2>1, <3>1 DEF ZoomTrue
    <3>6. \A x \in Guests : v3'[x] = "shown" => v1' # 0 /\ v5'[x] = v1'
      BY <1>1, <2>1, <3>1, <3>3 DEF ZoomTrue, Zoom!TypeOK
    <3> QED BY <3>4, <3>5, <3>6 DEF ZoomTrue
  <2> QED BY <2>1, <2>3, <2>4 DEF ZoomInv
<1> QED BY <1>2, <1>3

\* Every step keeps it.
LEMMA ZoomSteps == ASSUME ZoomInv, Zoom!Next PROVE ZoomInv'
BY ZoomAsked, ZoomLoads, ZoomSaves, ZoomPages DEF Zoom!Next

-----------------------------------------------------------------------------
(* What the process shows the user. *)

\* The invariants of the components that show something.
ShowsInv ==
  /\ part = "update" => UpdateInv
  /\ part = "window" => WindowInv
  /\ part = "lifecycle" => LifecycleInv
  /\ part = "helper" => HelperInv
  /\ part = "zoom" => ZoomInv

\* They hold at the start.
LEMMA ShowsStarts == ASSUME Init PROVE ShowsInv
BY UpdateStarts, WindowStarts, LifecycleStarts, HelperStarts, ZoomStarts
   DEF ShowsInv, Init, UpdateInit, WindowInit, LifecycleInit, HelperInit, ZoomInit,
       WorkbenchInit, HarnessRunInit, HarnessTreeInit, PluginsInit, RootsInit,
       InstalledInit, SeedInit, UsageInit, RemoteInit, TelemetryInit,
       RepositoryInit, MigrationsInit

\* A step of the run keeps them.
LEMMA ShowsSteps == ASSUME ShowsInv, Next PROVE ShowsInv'
<1>1. CASE UpdateStep
  <2>1. part = "update" /\ part' = part /\ Update!Next /\ UpdateInv
    BY <1>1 DEF UpdateStep, ShowsInv
  <2> QED BY <2>1, UpdateSteps DEF ShowsInv
<1>2. CASE WindowStep
  <2>1. part = "window" /\ part' = part /\ Window!Next /\ WindowInv
    BY <1>2 DEF WindowStep, ShowsInv
  <2> QED BY <2>1, WindowSteps DEF ShowsInv
<1>3. CASE LifecycleStep
  <2>1. part = "lifecycle" /\ part' = part /\ Lifecycle!Next /\ LifecycleInv
    BY <1>3 DEF LifecycleStep, ShowsInv
  <2> QED BY <2>1, LifecycleSteps DEF ShowsInv
<1>4. CASE HelperStep
  <2>1. part = "helper" /\ part' = part /\ Helper!Next /\ HelperInv
    BY <1>4 DEF HelperStep, ShowsInv
  <2> QED BY <2>1, HelperSteps DEF ShowsInv
<1>5. CASE ZoomStep
  <2>1. part = "zoom" /\ part' = part /\ Zoom!Next /\ ZoomInv
    BY <1>5 DEF ZoomStep, ShowsInv
  <2> QED BY <2>1, ZoomSteps DEF ShowsInv
<1>6. CASE ~(UpdateStep \/ WindowStep \/ LifecycleStep \/ HelperStep \/ ZoomStep)
  <2>1. part' \notin {"update", "window", "lifecycle", "helper", "zoom"}
    BY <1>6 DEF Next, WorkbenchStep, HarnessRunStep, HarnessTreeStep, PluginsStep, RootsStep,
       InstalledStep, SeedStep, UsageStep, RemoteStep, TelemetryStep, RepositoryStep,
       MigrationsStep
  <2> QED BY <2>1 DEF ShowsInv
<1> QED BY <1>1, <1>2, <1>3, <1>4, <1>5, <1>6

\* A step that changes nothing keeps them.
LEMMA ShowsStutters == ASSUME ShowsInv, UNCHANGED vars PROVE ShowsInv'
<1>1. UNCHANGED <<part, v1, v2, v3, v4, v5, v6, v7, v8, v9, v10, v11, v12>> BY DEF vars
<1>2. UpdateInv => UpdateInv'
  BY <1>1 DEF UpdateInv, Update!TypeOK, Update!UpdateIsTrue
<1>3. WindowInv => WindowInv' BY <1>1 DEF WindowInv
<1>4. LifecycleInv => LifecycleInv'
  BY <1>1 DEF LifecycleInv, Lifecycle!TypeOK, Lifecycle!NeverStranded
<1>5. HelperInv => HelperInv'
  BY <1>1 DEF HelperInv, Helper!TypeOK, Helper!NoHalfCore, Helper!NewestServes
<1>6. ZoomInv => ZoomInv'
  <2>1. Zoom!TypeOK => Zoom!TypeOK' BY <1>1 DEF Zoom!TypeOK
  <2>2. Zoom!loadOrCreateRecord' = Zoom!loadOrCreateRecord BY <1>1 DEF Zoom!loadOrCreateRecord
  <2>3. ASSUME ZoomTrue PROVE ZoomTrue'
    <3>1. PICK t : ZoomPath(t) BY <2>3 DEF ZoomTrue
    <3>2. ZoomPath(t)' BY <1>1, <2>2, <3>1, ZoomPathStays
    <3> QED BY <1>1, <2>3, <3>2 DEF ZoomTrue
  <2> QED BY <1>1, <2>1, <2>3 DEF ZoomInv
<1> QED BY <1>1, <1>2, <1>3, <1>4, <1>5, <1>6 DEF ShowsInv

\* What the process shows the user is so, for every list of releases, layout
\* of displays and number of commands: an update offered is newer and its file
\* the one announced (launcher-update-service.ts); a window the code moves lies
\* on one display and one it looks at and leaves has a strip on some display
\* (window-placement.ts); the process never runs on without a window, a tray for
\* the hidden one, a Dock that makes one again or a quit under way (main.ts); a
\* core is served whole or not
\* at all, by the newest handler (core/supervisor.ts); zoom commands add up
\* (runtime-browser-controller.ts).
THEOREM ShowsWhatIsTrueHolds == Spec => []ShowsWhatIsTrue
<1>1. Init => ShowsInv BY ShowsStarts
<1>2. ShowsInv /\ [Next]_vars => ShowsInv' BY ShowsSteps, ShowsStutters
<1>3. ShowsInv => ShowsWhatIsTrue
  BY WindowImplies, ZoomImplies
     DEF ShowsInv, ShowsWhatIsTrue, UpdateInv, LifecycleInv, HelperInv
<1> QED BY <1>1, <1>2, <1>3, PTL DEF Spec

-----------------------------------------------------------------------------
(* A computer reached over SSH. *)

\* What the service keeps and what the page holds.
RemoteShells ==
  [status : {"disconnected", "connecting", "ready", "failed"},
   test : {"untested", "testing", "passed", "failed"},
   editing : BOOLEAN, busy : BOOLEAN, disconnecting : BOOLEAN]
RemotePages ==
  [shown : Remote!Entry, status : {"disconnected", "connecting", "ready", "failed"},
   pending : Remote!Kinds \cup {"none"}, loading : BOOLEAN, addOpen : BOOLEAN,
   original : Remote!Entry, draft : Remote!Entry, discardRequested : BOOLEAN, stopped : BOOLEAN,
   calls : Nat]

\* An update names the revision its author saw, until it is answered or read back.
RemoteOp(o) ==
  /\ o \in Remote!Op /\ (o.kind = "none" => o.pc = "idle")
  /\ o.kind = "update" => o.seen = o.expected /\ o.pc \in {"find", "core", "readback"}

\* The invariant.
RemoteInv ==
  /\ v1 \in [config : Remote!Entry, live : BOOLEAN]
  /\ v2 \subseteq Remote!Late /\ \A call \in v2 : call.call = "update" => call.seen = call.expected
  /\ v3 \in RemoteShells /\ v5 \in RemotePages
  /\ DOMAIN v4 = Slots /\ v4 = [s \in Slots |-> v4[s]] /\ \A s \in Slots : RemoteOp(v4[s])

\* It holds at the start.
LEMMA RemoteStarts == ASSUME Remote!Init PROVE RemoteInv
<1>1. v1 \in [config : Remote!Entry, live : BOOLEAN] /\ v1.config \in Remote!Entry
  BY DEF Remote!Init, Remote!Entry
<1>2. v3 \in RemoteShells BY DEF Remote!Init, RemoteShells
<1>3. v5 \in RemotePages
  BY <1>1 DEF Remote!Init, RemotePages, Remote!Entry, Remote!Gone
<1>4. RemoteOp(Remote!Idle) /\ v4 = [s \in Slots |-> Remote!Idle] /\ v2 = {}
  BY DEF Remote!Init, RemoteOp, Remote!Idle, Remote!Op, Remote!Kinds, Remote!Pcs, Remote!Entry, Remote!Gone
<1> QED BY <1>1, <1>2, <1>3, <1>4 DEF RemoteInv

\* The parts of a handler keep the types, and the editor's entry where they do not clear it.
LEMMA RemoteReleased ==
  ASSUME NEW sh \in RemoteShells, NEW o PROVE Remote!released(o, sh) \in RemoteShells
BY DEF RemoteShells, Remote!released

LEMMA RemoteConnections == \A sh \in RemoteShells : Remote!connections(sh) \in RemoteShells
BY DEF RemoteShells, Remote!connections

LEMMA RemoteSettled ==
  ASSUME NEW p \in RemotePages, NEW o
  PROVE  Remote!settled(o, p) \in RemotePages /\ Remote!settled(o, p).original = p.original
BY DEF RemotePages, Remote!settled

LEMMA RemoteClear == \A p \in RemotePages : Remote!clear(p) \in RemotePages
BY DEF RemotePages, Remote!clear, Remote!Entry, Remote!Gone

LEMMA RemoteAccepted ==
  ASSUME NEW p \in RemotePages, NEW o
  PROVE  /\ Remote!accepted(o, p) \in RemotePages
         /\ o.kind # "update" => Remote!accepted(o, p).original = p.original
BY RemoteClear DEF RemotePages, Remote!accepted

LEMMA RemotePublish ==
  ASSUME NEW p \in RemotePages, NEW sh \in RemoteShells, v1'.config \in Remote!Entry
  PROVE  Remote!publish(p, sh) \in RemotePages /\ Remote!publish(p, sh).original = p.original
BY DEF Remote!publish, RemotePages, RemoteShells

\* The operations after one of them changed.
LEMMA RemoteOpSet ==
  ASSUME NEW s, NEW o, v4' = [v4 EXCEPT ![s] = o], RemoteOp(o), RemoteInv
  PROVE  /\ DOMAIN v4' = Slots /\ v4' = [t \in Slots |-> v4'[t]] /\ \A t \in Slots : RemoteOp(v4'[t])
         /\ \A t \in Slots : v4'[t] = IF t = s THEN o ELSE v4[t]
BY DEF RemoteInv, RemoteOp

\* An operation ends: it answers, or it is refused.
LEMMA RemoteAnswers ==
  ASSUME RemoteInv, NEW s \in Slots, NEW sh \in RemoteShells, UNCHANGED <<v1, v2>>,
         Remote!Answers(s, sh) \/ Remote!Refuses(s, sh)
  PROVE  /\ RemoteInv' /\ v4' = [v4 EXCEPT ![s] = Remote!Idle]
         /\ v4[s].kind # "update" \/ Remote!Refuses(s, sh) => v5'.original = v5.original
<1>1. v4' = [v4 EXCEPT ![s] = Remote!Idle]
  BY DEF Remote!Answers, Remote!Refuses, Remote!Ends
<1>2. RemoteOp(Remote!Idle)
  BY DEF RemoteOp, Remote!Idle, Remote!Op, Remote!Kinds, Remote!Pcs, Remote!Entry, Remote!Gone
<1>3. DOMAIN v4' = Slots /\ v4' = [t \in Slots |-> v4'[t]] /\ \A t \in Slots : RemoteOp(v4'[t])
  BY <1>1, <1>2, RemoteOpSet
<1>4. v3' \in RemoteShells BY RemoteReleased DEF Remote!Answers, Remote!Refuses
<1>5. v5 \in RemotePages /\ v1'.config \in Remote!Entry BY DEF RemoteInv
<1>6. /\ v5' \in RemotePages
      /\ v4[s].kind # "update" \/ Remote!Refuses(s, sh) => v5'.original = v5.original
  <2>1. PICK p : p = Remote!publish(v5, sh) OBVIOUS
  <2>2. p \in RemotePages /\ p.original = v5.original BY <1>5, <2>1, RemotePublish
  <2>3. PICK q : q = Remote!settled(v4[s], p) OBVIOUS
  <2>4. q \in RemotePages /\ q.original = v5.original BY <2>2, <2>3, RemoteSettled
  <2>5. CASE Remote!Refuses(s, sh)
    BY <1>5, <2>5, RemoteSettled DEF Remote!Refuses
  <2>6. CASE ~Remote!Refuses(s, sh)
    <3>1. v5' = Remote!accepted(v4[s], q) BY <2>1, <2>3, <2>6 DEF Remote!Answers
    <3> QED BY <2>4, <2>6, <3>1, RemoteAccepted
  <2> QED BY <2>5, <2>6
<1> QED BY <1>1, <1>3, <1>4, <1>6 DEF RemoteInv

\* What a step may do to a configuration and to the editor.
RemoteStepOK == Remote!EditStep /\ Remote!CloseStep

\* A step that keeps the configuration and does not end an update.
LEMMA RemoteQuiet ==
  ASSUME RemoteInv, v1'.config = v1.config \/ v1.config = Remote!Gone \/ v1'.config = Remote!Gone,
         \A s \in Slots : v4[s].kind = "update" => v4'[s] # Remote!Idle \/ v5'.original = v5.original
  PROVE  RemoteStepOK
BY DEF RemoteStepOK, Remote!EditStep, Remote!CloseStep, Remote!Gone

\* An operation that is under way is not an idle one.
LEMMA RemoteBusy == ASSUME NEW o, o.kind # "none" PROVE o # Remote!Idle
BY DEF Remote!Idle

\* The core serves a call, in time or late: it writes only over what was expected.
LEMMA RemoteServes ==
  ASSUME RemoteInv,
         \/ \E s \in Slots : Remote!CoreServes(s) \/ Remote!budget(s)
         \/ Remote!LateServed \/ Remote!retire
  PROVE  RemoteInv' /\ RemoteStepOK
<1> USE DEF Remote!Gone
<1>1. ASSUME NEW call, call.want \in Remote!Entry,
             call.call \in {"connect", "disconnect", "update", "remove", "create"}
      PROVE  /\ Remote!served(v1, call) \in [config : Remote!Entry, live : BOOLEAN]
             /\ \/ Remote!served(v1, call).config \in {v1.config, Remote!Gone}
                \/ call.call = "update" /\ v1.config = call.expected
  BY <1>1 DEF RemoteInv, Remote!served, Remote!catalogUpdate, Remote!Entry
<1>2. ASSUME NEW s \in Slots, Remote!Outstanding(s)
      PROVE  /\ Remote!callOf(v4[s]) \in Remote!Late
             /\ Remote!callOf(v4[s]).call = "update" => v4[s].kind = "update" /\ v4[s].seen = v4[s].expected
             /\ Remote!callOf(v4[s]).seen = v4[s].seen /\ Remote!callOf(v4[s]).expected = v4[s].expected
  <2>1. RemoteOp(v4[s]) /\ v4[s].pc \in {"core", "down"} BY <1>2 DEF RemoteInv, Remote!Outstanding
  <2> QED BY <2>1 DEF RemoteOp, Remote!Op, Remote!Kinds, Remote!callOf, Remote!Late
<1>3. ASSUME NEW s \in Slots, Remote!CoreServes(s) PROVE RemoteInv' /\ RemoteStepOK
  <2>1. Remote!Outstanding(s) /\ UNCHANGED <<v2, v3, v5>> /\ v4[s].ans = "none"
    BY <1>3 DEF Remote!CoreServes, Remote!Outstanding
  <2>2. PICK a \in {"ok", "refused"} :
          /\ v4' = [v4 EXCEPT ![s].ans = a]
          /\ a = "ok" => v1' = Remote!served(v1, Remote!callOf(v4[s]))
          /\ a = "refused" => v1' = v1
    BY <1>3 DEF Remote!CoreServes
  <2>3. PICK o : o = [v4[s] EXCEPT !.ans = a] OBVIOUS
  <2>4. RemoteOp(o) /\ o.ans = a /\ o.kind = v4[s].kind /\ o.seen = v4[s].seen
    BY <2>2, <2>3 DEF RemoteInv, RemoteOp, Remote!Op
  <2>5. v4' = [v4 EXCEPT ![s] = o] BY <2>2, <2>3 DEF RemoteInv
  <2>6. /\ DOMAIN v4' = Slots /\ v4' = [t \in Slots |-> v4'[t]] /\ \A t \in Slots : RemoteOp(v4'[t])
        /\ \A t \in Slots : v4'[t] = IF t = s THEN o ELSE v4[t]
    BY <2>4, <2>5, RemoteOpSet
  <2>7. PICK call : call = Remote!callOf(v4[s]) OBVIOUS
  <2>8. call \in Remote!Late BY <1>2, <2>1, <2>7
  <2>9. /\ v1' \in [config : Remote!Entry, live : BOOLEAN]
        /\ \/ v1'.config \in {v1.config, Remote!Gone}
           \/ a = "ok" /\ call.call = "update" /\ v1.config = call.expected
    <3>1. CASE a = "ok" BY <1>1, <2>2, <2>7, <2>8, <3>1 DEF Remote!Late
    <3>2. CASE a = "refused" BY <2>2, <3>2 DEF RemoteInv
    <3> QED BY <3>1, <3>2
  <2>10. RemoteInv' BY <2>1, <2>6, <2>9 DEF RemoteInv
  <2>11. Remote!CloseStep BY <2>1 DEF Remote!CloseStep
  <2>12. Remote!EditStep
    <3>1. CASE v1'.config \in {v1.config, Remote!Gone} BY <3>1 DEF Remote!EditStep
    <3>2. CASE a = "ok" /\ call.call = "update" /\ v1.config = call.expected
      <4>1. /\ v4[s].kind = "update" /\ v4[s].seen = v1.config /\ v4'[s].ans = "ok"
        BY <1>2, <2>1, <2>4, <2>6, <2>7, <3>2
      <4> QED BY <2>1, <4>1 DEF Remote!EditStep
    <3> QED BY <2>9, <3>1, <3>2
  <2> QED BY <2>10, <2>11, <2>12 DEF RemoteStepOK
<1>4. ASSUME NEW s \in Slots, Remote!budget(s) PROVE RemoteInv' /\ RemoteStepOK
  <2>1. /\ Remote!Outstanding(s) /\ UNCHANGED <<v1, v3, v5>> /\ v2' = v2 \cup {Remote!callOf(v4[s])}
        /\ v4' = [v4 EXCEPT ![s].ans = "lost"]
    BY <1>4 DEF Remote!budget
  <2>2. PICK o : o = [v4[s] EXCEPT !.ans = "lost"] OBVIOUS
  <2>3. RemoteOp(o) BY <2>2 DEF RemoteInv, RemoteOp, Remote!Op
  <2>4. v4' = [v4 EXCEPT ![s] = o] BY <2>1, <2>2 DEF RemoteInv
  <2>5. DOMAIN v4' = Slots /\ v4' = [t \in Slots |-> v4'[t]] /\ \A t \in Slots : RemoteOp(v4'[t])
    BY <2>3, <2>4, RemoteOpSet
  <2>6. v2' \subseteq Remote!Late /\ \A call \in v2' : call.call = "update" => call.seen = call.expected
    BY <1>2, <2>1 DEF RemoteInv
  <2>7. RemoteInv' BY <2>1, <2>5, <2>6 DEF RemoteInv
  <2>8. RemoteStepOK BY <2>1, RemoteQuiet
  <2> QED BY <2>7, <2>8
<1>5. CASE Remote!LateServed
  <2>1. PICK call \in v2 : /\ v2' = v2 \ {call}
                           /\ v1' = IF Remote!accepts(v1, call) THEN Remote!served(v1, call) ELSE v1
    BY <1>5 DEF Remote!LateServed
  <2>2. UNCHANGED <<v3, v4, v5>> BY <1>5 DEF Remote!LateServed
  <2>3. call \in Remote!Late /\ (call.call = "update" => call.seen = call.expected) BY DEF RemoteInv
  <2>4. /\ v1' \in [config : Remote!Entry, live : BOOLEAN]
        /\ \/ v1'.config \in {v1.config, Remote!Gone}
           \/ call.call = "update" /\ v1.config = call.expected
    <3>1. CASE v1' = v1 BY <3>1 DEF RemoteInv
    <3>2. CASE v1' = Remote!served(v1, call) BY <1>1, <2>3, <3>2 DEF Remote!Late
    <3> QED BY <2>1, <3>1, <3>2
  <2>5. RemoteInv' BY <2>1, <2>2, <2>4 DEF RemoteInv, RemoteOp
  <2>6. Remote!CloseStep BY <2>2 DEF Remote!CloseStep
  <2>7. Remote!EditStep BY <2>1, <2>3, <2>4 DEF Remote!EditStep
  <2> QED BY <2>5, <2>6, <2>7 DEF RemoteStepOK
<1>6. CASE Remote!retire
  <2>1. UNCHANGED <<v2, v3, v4, v5>> /\ v1' = [v1 EXCEPT !.live = FALSE] BY <1>6 DEF Remote!retire
  <2>2. v1' \in [config : Remote!Entry, live : BOOLEAN] /\ v1'.config = v1.config
    BY <2>1 DEF RemoteInv
  <2>3. RemoteInv' BY <2>1, <2>2 DEF RemoteInv, RemoteOp
  <2>4. RemoteStepOK BY <2>1, <2>2, RemoteQuiet
  <2> QED BY <2>3, <2>4
<1> QED BY <1>3, <1>4, <1>5, <1>6

\* An operation goes on: what it becomes, and that it is not over.
LEMMA RemoteGoes ==
  ASSUME RemoteInv, NEW s \in Slots, NEW o, RemoteOp(o), o.kind # "none", v4' = [v4 EXCEPT ![s] = o],
         UNCHANGED <<v1, v2>>, v3' \in RemoteShells, v5' \in RemotePages, v5'.original = v5.original
  PROVE  RemoteInv' /\ RemoteStepOK
<1>1. DOMAIN v4' = Slots /\ v4' = [t \in Slots |-> v4'[t]] /\ \A t \in Slots : RemoteOp(v4'[t])
  BY RemoteOpSet
<1>2. RemoteInv' BY <1>1 DEF RemoteInv
<1>3. RemoteStepOK BY RemoteQuiet
<1> QED BY <1>2, <1>3

\* An operation that answers or is refused, without an update's answer.
LEMMA RemoteOver ==
  ASSUME RemoteInv, NEW s \in Slots, NEW sh \in RemoteShells, UNCHANGED <<v1, v2>>,
         Remote!Refuses(s, sh) \/ (Remote!Answers(s, sh) /\ v4[s].kind # "update")
  PROVE  RemoteInv' /\ RemoteStepOK
<1>1. RemoteInv' /\ v5'.original = v5.original BY RemoteAnswers
<1> QED BY <1>1, RemoteQuiet

\* The service before the call is made.
LEMMA RemoteFinds ==
  ASSUME RemoteInv, NEW s \in Slots, Remote!find(s) \/ Remote!announce(s)
  PROVE  RemoteInv' /\ RemoteStepOK
<1>1. UNCHANGED <<v1, v2>> BY DEF Remote!find, Remote!announce
<1>2. v3 \in RemoteShells /\ v5 \in RemotePages /\ RemoteOp(v4[s]) /\ v1'.config \in Remote!Entry
  BY <1>1 DEF RemoteInv
<1>3. CASE Remote!find(s)
  <2>1. CASE Remote!Refuses(s, v3) BY <1>1, <1>2, <2>1, RemoteOver
  <2>2. CASE ~Remote!Refuses(s, v3)
    <3>1. PICK pc, ch : /\ pc = IF v4[s].kind \in {"connect", "test"} THEN "announce" ELSE "core"
                        /\ ch = (v4[s].kind = "update" /\ Remote!changedConnectionParameters(v4[s]))
                        /\ v4' = [v4 EXCEPT ![s].pc = pc, ![s].changes = ch]
      BY <1>3, <2>2 DEF Remote!find
    <3>2. ch \in BOOLEAN BY <3>1
    <3>3. PICK o : o = [v4[s] EXCEPT !.pc = pc, !.changes = ch] OBVIOUS
    <3>4. v4[s].kind # "none" BY <1>2, <1>3 DEF RemoteOp, Remote!find
    <3>5. RemoteOp(o) /\ o.kind # "none"
      BY <1>2, <3>1, <3>2, <3>3, <3>4 DEF RemoteOp, Remote!Op, Remote!Pcs
    <3>6. v4' = [v4 EXCEPT ![s] = o] BY <3>1, <3>3 DEF RemoteInv
    <3>7. v5' = v5 /\ v3' \in RemoteShells BY <1>2, <1>3, <2>2 DEF Remote!find, RemoteShells
    <3> QED BY <1>1, <1>2, <3>5, <3>6, <3>7, RemoteGoes
  <2> QED BY <2>1, <2>2
<1>4. CASE Remote!announce(s)
  <2>1. v4[s].kind # "update" /\ v4[s].kind # "none" BY <1>2, <1>4 DEF RemoteOp, Remote!announce
  <2>2. CASE v3' = Remote!connections(v3) /\ v5' = Remote!publish(v5, v3') /\ v4' = [v4 EXCEPT ![s].pc = "core"]
    <3>1. v3' \in RemoteShells BY <1>2, <2>2, RemoteConnections
    <3>2. PICK sh : sh = v3' OBVIOUS
    <3>3. v5' \in RemotePages /\ v5'.original = v5.original BY <1>2, <2>2, <3>1, <3>2, RemotePublish
    <3>4. PICK o : o = [v4[s] EXCEPT !.pc = "core"] OBVIOUS
    <3>5. RemoteOp(o) /\ o.kind # "none" BY <1>2, <2>1, <3>4 DEF RemoteOp, Remote!Op, Remote!Pcs
    <3>6. v4' = [v4 EXCEPT ![s] = o] BY <2>2, <3>4 DEF RemoteInv
    <3> QED BY <1>1, <3>1, <3>3, <3>5, <3>6, RemoteGoes
  <2>3. CASE Remote!Ends(s) /\ v5' = Remote!settled(v4[s], v5) /\ v3' = v3
    <3>1. v5' \in RemotePages /\ v5'.original = v5.original BY <1>2, <2>3, RemoteSettled
    <3>2. v4' = [v4 EXCEPT ![s] = Remote!Idle] BY <2>3 DEF Remote!Ends
    <3>3. RemoteOp(Remote!Idle)
      BY DEF RemoteOp, Remote!Idle, Remote!Op, Remote!Kinds, Remote!Pcs, Remote!Entry, Remote!Gone
    <3>4. DOMAIN v4' = Slots /\ v4' = [t \in Slots |-> v4'[t]] /\ \A t \in Slots : RemoteOp(v4'[t])
      BY <3>2, <3>3, RemoteOpSet
    <3>5. RemoteInv' BY <1>1, <1>2, <2>3, <3>1, <3>4 DEF RemoteInv
    <3> QED BY <1>1, <3>1, <3>5, RemoteQuiet
  <2> QED BY <1>4, <2>2, <2>3 DEF Remote!announce
<1> QED BY <1>3, <1>4

\* connect, test and disconnect after the call.
LEMMA RemoteResumes ==
  ASSUME RemoteInv, NEW s \in Slots,
         Remote!connectResumed(s) \/ Remote!testResumed(s) \/ Remote!disconnectResumed(s)
  PROVE  RemoteInv' /\ RemoteStepOK
<1>1. UNCHANGED <<v1, v2>> /\ v4[s].kind \in {"connect", "test", "disconnect"}
  BY DEF Remote!connectResumed, Remote!testResumed, Remote!disconnectResumed
<1>2. v3 \in RemoteShells /\ v5 \in RemotePages /\ RemoteOp(v4[s]) BY DEF RemoteInv
<1>3. CASE Remote!Refuses(s, v3) BY <1>1, <1>2, <1>3, RemoteOver
<1>4. CASE ~Remote!Refuses(s, v3)
  <2>1. v5' = v5 /\ v3' \in RemoteShells
    BY <1>2, <1>4 DEF Remote!connectResumed, Remote!testResumed, Remote!disconnectResumed, RemoteShells,
       Remote!connectFailed
  <2>2. \/ v4' = [v4 EXCEPT ![s].pc = "settle"]
        \/ \E pc \in {"down", "settle"}, a \in {"none", "ok"} : v4' = [v4 EXCEPT ![s].pc = pc, ![s].ans = a]
    BY <1>4 DEF Remote!connectResumed, Remote!testResumed, Remote!disconnectResumed
  <2>3. PICK o : RemoteOp(o) /\ o.kind # "none" /\ v4' = [v4 EXCEPT ![s] = o]
    <3>1. CASE v4' = [v4 EXCEPT ![s].pc = "settle"]
      <4>1. PICK o : o = [v4[s] EXCEPT !.pc = "settle"] OBVIOUS
      <4>2. RemoteOp(o) /\ o.kind # "none" BY <1>1, <1>2, <4>1 DEF RemoteOp, Remote!Op, Remote!Pcs
      <4>3. v4' = [v4 EXCEPT ![s] = o] BY <3>1, <4>1 DEF RemoteInv
      <4> QED BY <4>2, <4>3
    <3>2. ASSUME NEW pc \in {"down", "settle"}, NEW a \in {"none", "ok"},
                 v4' = [v4 EXCEPT ![s].pc = pc, ![s].ans = a]
          PROVE  \E o : RemoteOp(o) /\ o.kind # "none" /\ v4' = [v4 EXCEPT ![s] = o]
      <4>1. PICK o : o = [v4[s] EXCEPT !.pc = pc, !.ans = a] OBVIOUS
      <4>2. RemoteOp(o) /\ o.kind # "none" BY <1>1, <1>2, <4>1 DEF RemoteOp, Remote!Op, Remote!Pcs
      <4>3. v4' = [v4 EXCEPT ![s] = o] BY <3>2, <4>1 DEF RemoteInv
      <4> QED BY <4>2, <4>3
    <3> QED BY <2>2, <3>1, <3>2
  <2> QED BY <1>1, <1>2, <2>1, <2>3, RemoteGoes
<1> QED BY <1>3, <1>4

\* The last read of connect, test and disconnect.
LEMMA RemoteSettles ==
  ASSUME RemoteInv, NEW s \in Slots, Remote!settle(s)
  PROVE  RemoteInv' /\ RemoteStepOK
<1>1. UNCHANGED <<v1, v2>> BY DEF Remote!settle
<1>2. /\ v3 \in RemoteShells /\ v5 \in RemotePages /\ RemoteOp(v4[s]) /\ v1'.config \in Remote!Entry
      /\ v4[s].kind # "update"
  BY <1>1 DEF RemoteInv, RemoteOp, Remote!settle
<1>3. PICK sh : sh = Remote!connections(v3) OBVIOUS
<1>4. sh \in RemoteShells BY <1>2, <1>3, RemoteConnections
<1>5. CASE Remote!Answers(s, sh) BY <1>1, <1>2, <1>4, <1>5, RemoteOver
<1>6. CASE /\ Remote!Ends(s) /\ v3' = Remote!released(v4[s], sh)
           /\ v5' = Remote!settled(v4[s], Remote!publish(v5, sh))
  <2>1. v3' \in RemoteShells BY <1>4, <1>6, RemoteReleased
  <2>2. PICK p : p = Remote!publish(v5, sh) OBVIOUS
  <2>3. p \in RemotePages /\ p.original = v5.original BY <1>2, <1>4, <2>2, RemotePublish
  <2>4. v5' \in RemotePages /\ v5'.original = v5.original BY <1>6, <2>2, <2>3, RemoteSettled
  <2>5. v4' = [v4 EXCEPT ![s] = Remote!Idle] BY <1>6 DEF Remote!Ends
  <2>6. RemoteOp(Remote!Idle)
    BY DEF RemoteOp, Remote!Idle, Remote!Op, Remote!Kinds, Remote!Pcs, Remote!Entry, Remote!Gone
  <2>7. DOMAIN v4' = Slots /\ v4' = [t \in Slots |-> v4'[t]] /\ \A t \in Slots : RemoteOp(v4'[t])
    BY <2>5, <2>6, RemoteOpSet
  <2>8. RemoteInv' BY <1>1, <2>1, <2>4, <2>7 DEF RemoteInv
  <2> QED BY <1>1, <2>4, <2>8, RemoteQuiet
<1>7. ASSUME NEW x, x \in {Remote!connectFailed(v3), [v3 EXCEPT !.test = "failed"], v3}, Remote!Refuses(s, x)
      PROVE  RemoteInv' /\ RemoteStepOK
  <2>1. x \in RemoteShells BY <1>2, <1>7 DEF Remote!connectFailed, RemoteShells
  <2> QED BY <1>1, <1>7, <2>1, RemoteOver
<1>8. \/ Remote!Answers(s, sh)
      \/ /\ Remote!Ends(s) /\ v3' = Remote!released(v4[s], sh)
         /\ v5' = Remote!settled(v4[s], Remote!publish(v5, sh))
      \/ \E x \in {Remote!connectFailed(v3), [v3 EXCEPT !.test = "failed"], v3} : Remote!Refuses(s, x)
  BY <1>3 DEF Remote!settle
<1> QED BY <1>5, <1>6, <1>7, <1>8

\* update, remove and create after the call; the page's reading of a lost answer.
LEMMA RemoteWrites ==
  ASSUME RemoteInv, NEW s \in Slots, Remote!writeResumed(s) \/ Remote!readback(s)
  PROVE  RemoteInv' /\ RemoteStepOK
<1>1. UNCHANGED <<v1, v2>> BY DEF Remote!writeResumed, Remote!readback
<1>2. v3 \in RemoteShells /\ v5 \in RemotePages /\ RemoteOp(v4[s]) /\ v1'.config \in Remote!Entry
  BY <1>1 DEF RemoteInv
<1>3. Remote!changed(v4[s]) \in RemoteShells
  BY <1>2 DEF Remote!changed, Remote!forgotten, RemoteShells
<1>4. CASE Remote!Refuses(s, v3) BY <1>1, <1>2, <1>4, RemoteOver
<1>5. CASE /\ v4[s].pc = "core" /\ v4[s].ans = "ok"
           /\ Remote!Answers(s, Remote!changed(v4[s]))
  <2>1. PICK sh : sh = Remote!changed(v4[s]) OBVIOUS
  <2>2. RemoteInv' /\ v4' = [v4 EXCEPT ![s] = Remote!Idle]
    BY <1>1, <1>3, <1>5, <2>1, RemoteAnswers
  <2>3. \A t \in Slots : t # s => v4'[t] = v4[t] BY <2>2 DEF RemoteInv
  <2>4. Remote!CloseStep BY <1>5, <2>3, RemoteBusy DEF Remote!CloseStep
  <2>5. Remote!EditStep BY <1>1 DEF Remote!EditStep
  <2> QED BY <2>2, <2>4, <2>5 DEF RemoteStepOK
<1>6. CASE /\ v4[s].kind = "update" /\ v4' = [v4 EXCEPT ![s].pc = "readback"] /\ v5' = v5
           /\ v3' = Remote!released(v4[s], IF v4[s].ans = "ok" THEN Remote!changed(v4[s]) ELSE v3)
  <2>1. v3' \in RemoteShells BY <1>2, <1>3, <1>6, RemoteReleased
  <2>2. PICK o : o = [v4[s] EXCEPT !.pc = "readback"] OBVIOUS
  <2>3. RemoteOp(o) /\ o.kind # "none" BY <1>2, <1>6, <2>2 DEF RemoteOp, Remote!Op, Remote!Pcs
  <2>4. v4' = [v4 EXCEPT ![s] = o] BY <1>6, <2>2 DEF RemoteInv
  <2> QED BY <1>1, <1>2, <1>6, <2>1, <2>3, <2>4, RemoteGoes
<1>7. CASE Remote!readback(s)
  <2>1. v4' = [v4 EXCEPT ![s] = Remote!Idle] BY <1>7 DEF Remote!readback, Remote!Ends
  <2>2. RemoteOp(Remote!Idle)
    BY DEF RemoteOp, Remote!Idle, Remote!Op, Remote!Kinds, Remote!Pcs, Remote!Entry, Remote!Gone
  <2>3. /\ DOMAIN v4' = Slots /\ v4' = [t \in Slots |-> v4'[t]] /\ \A t \in Slots : RemoteOp(v4'[t])
        /\ \A t \in Slots : v4'[t] = IF t = s THEN Remote!Idle ELSE v4[t]
    BY <2>1, <2>2, RemoteOpSet
  <2>4. \/ v3' = v3 /\ v5' = Remote!settled(v4[s], v5)
        \/ /\ v3' = Remote!connections(v3)
           /\ LET read == Remote!settled(v4[s], Remote!publish(v5, v3'))
              IN v5' = IF Remote!confirmed(v4[s]) THEN Remote!clear(read) ELSE read
    BY <1>7 DEF Remote!readback
  <2>5. v3' \in RemoteShells BY <1>2, <2>4, RemoteConnections
  <2>6. PICK sh : sh = v3' OBVIOUS
  <2>7. PICK p : p = Remote!publish(v5, sh) OBVIOUS
  <2>8. p \in RemotePages /\ p.original = v5.original BY <1>2, <2>5, <2>6, <2>7, RemotePublish
  <2>9. PICK q : q = Remote!settled(v4[s], p) OBVIOUS
  <2>10. q \in RemotePages /\ q.original = v5.original BY <2>8, <2>9, RemoteSettled
  <2>11. \/ v5' = Remote!settled(v4[s], v5)
         \/ v5' = q
         \/ Remote!confirmed(v4[s]) /\ v5' = Remote!clear(q)
    BY <2>4, <2>6, <2>7, <2>9
  <2>12. /\ v5' \in RemotePages
         /\ v5'.original = v5.original \/ v1.config = v4[s].want
    BY <1>2, <2>10, <2>11, RemoteSettled, RemoteClear DEF Remote!confirmed
  <2>13. RemoteInv' BY <1>1, <2>3, <2>5, <2>12 DEF RemoteInv
  <2>14. Remote!CloseStep BY <1>1, <2>3, <2>12, RemoteBusy DEF Remote!CloseStep
  <2>15. Remote!EditStep BY <1>1 DEF Remote!EditStep
  <2> QED BY <2>13, <2>14, <2>15 DEF RemoteStepOK
<1> QED BY <1>4, <1>5, <1>6, <1>7 DEF Remote!writeResumed

\* The person starts an operation.
LEMMA RemoteInvoked ==
  ASSUME RemoteInv, NEW o, NEW p \in RemotePages, RemoteOp(o), o.kind # "none", Remote!Invoke(o, p),
         p.original = v5.original
  PROVE  RemoteInv' /\ RemoteStepOK
<1>1. UNCHANGED <<v1, v2>> BY DEF Remote!Invoke
<1>2. PICK q : q = [p EXCEPT !.calls = @ + 1] OBVIOUS
<1>3. q \in RemotePages /\ q.original = v5.original BY <1>2 DEF RemotePages
<1>4. CASE Remote!admitted(o.kind)
  <2>1. PICK s : s = Remote!slot OBVIOUS
  <2>2. v4' = [v4 EXCEPT ![s] = o] /\ v3' = Remote!entered(o.kind) /\ v5' = q
    BY <1>2, <1>4, <2>1 DEF Remote!Invoke
  <2>3. /\ DOMAIN v4' = Slots /\ v4' = [t \in Slots |-> v4'[t]] /\ \A t \in Slots : RemoteOp(v4'[t])
    BY <2>2, RemoteOpSet
  <2>4. v3' \in RemoteShells BY <2>2 DEF Remote!entered, RemoteInv, RemoteShells
  <2>5. RemoteInv' BY <1>1, <1>3, <2>2, <2>3, <2>4 DEF RemoteInv
  <2> QED BY <1>1, <1>3, <2>2, <2>5, RemoteQuiet
<1>5. CASE ~Remote!admitted(o.kind)
  <2>1. v5' = Remote!settled(o, q) /\ UNCHANGED <<v3, v4>>
    BY <1>2, <1>5 DEF Remote!Invoke
  <2>2. v5' \in RemotePages /\ v5'.original = v5.original BY <1>3, <2>1, RemoteSettled
  <2>3. RemoteInv' BY <1>1, <2>1, <2>2 DEF RemoteInv, RemoteOp
  <2> QED BY <1>1, <2>2, <2>3, RemoteQuiet
<1> QED BY <1>4, <1>5

LEMMA RemoteAsks ==
  ASSUME RemoteInv,
         \/ \E kind \in {"connect", "test", "disconnect", "remove"} : Remote!runIdentityOperation(kind)
         \/ Remote!create \/ Remote!save
  PROVE  RemoteInv' /\ RemoteStepOK
<1>1. v5 \in RemotePages BY DEF RemoteInv
<1>2. ASSUME NEW kind \in {"connect", "test", "disconnect", "remove"}, Remote!runIdentityOperation(kind)
      PROVE  RemoteInv' /\ RemoteStepOK
  <2>1. PICK o, p : /\ o = [Remote!Idle EXCEPT !.kind = kind, !.pc = "find"]
                    /\ p = [v5 EXCEPT !.pending = kind, !.stopped = @ /\ kind \notin {"connect", "test"}]
    OBVIOUS
  <2>2. Remote!Invoke(o, p) BY <1>2, <2>1 DEF Remote!runIdentityOperation
  <2>3. RemoteOp(o) /\ o.kind # "none"
    BY <2>1 DEF RemoteOp, Remote!Idle, Remote!Op, Remote!Kinds, Remote!Pcs, Remote!Entry, Remote!Gone
  <2>4. p \in RemotePages /\ p.original = v5.original BY <1>1, <2>1 DEF RemotePages, Remote!Kinds
  <2> QED BY <2>2, <2>3, <2>4, RemoteInvoked
<1>3. CASE Remote!create
  <2>1. PICK o, p : /\ o = [Remote!Idle EXCEPT !.kind = "create", !.pc = "core"]
                    /\ p = [v5 EXCEPT !.loading = TRUE]
    OBVIOUS
  <2>2. Remote!Invoke(o, p) BY <1>3, <2>1 DEF Remote!create
  <2>3. RemoteOp(o) /\ o.kind # "none"
    BY <2>1 DEF RemoteOp, Remote!Idle, Remote!Op, Remote!Kinds, Remote!Pcs, Remote!Entry, Remote!Gone
  <2>4. p \in RemotePages /\ p.original = v5.original BY <1>1, <2>1 DEF RemotePages, Remote!Kinds
  <2> QED BY <2>2, <2>3, <2>4, RemoteInvoked
<1>4. CASE Remote!save
  <2>1. PICK o, p : /\ o = [Remote!Idle EXCEPT !.kind = "update", !.pc = "find", !.want = v5.draft,
                              !.seen = v5.original, !.expected = Remote!expectedConfigRevision]
                    /\ p = [v5 EXCEPT !.pending = "update"]
    OBVIOUS
  <2>2. Remote!Invoke(o, p) BY <1>4, <2>1 DEF Remote!save
  <2>3. v5.draft \in Remote!Entry /\ v5.original \in Remote!Entry BY <1>1 DEF RemotePages
  <2>4. /\ o.kind = "update" /\ o.pc = "find" /\ o.want = v5.draft /\ o.seen = v5.original
        /\ o.expected = v5.original /\ ~o.changes /\ o.ans = "none"
        /\ o \in Remote!Op
    BY <2>1, <2>3 DEF Remote!Idle, Remote!Op, Remote!Kinds, Remote!Pcs, Remote!expectedConfigRevision
  <2>5. RemoteOp(o) /\ o.kind # "none" BY <2>4 DEF RemoteOp
  <2>6. p \in RemotePages /\ p.original = v5.original BY <1>1, <2>1 DEF RemotePages, Remote!Kinds
  <2> QED BY <2>2, <2>5, <2>6, RemoteInvoked
<1> QED BY <1>2, <1>3, <1>4

\* The page's own state.
LEMMA RemoteEdits ==
  ASSUME RemoteInv,
         \/ \E c \in Configs : Remote!type(c)
         \/ Remote!openAdd \/ Remote!closeAdd \/ Remote!open \/ Remote!close \/ Remote!discard \/ Remote!keep
  PROVE  RemoteInv' /\ RemoteStepOK
<1>1. UNCHANGED <<v1, v2, v3, v4>>
  BY DEF Remote!type, Remote!openAdd, Remote!closeAdd, Remote!open, Remote!close, Remote!discard, Remote!keep
<1>2. v5 \in RemotePages BY DEF RemoteInv
<1>3. v5' \in RemotePages
  <2>1. CASE \E c \in Configs : Remote!type(c) BY <1>2, <2>1 DEF Remote!type, RemotePages, Remote!Entry
  <2>2. CASE Remote!openAdd \/ Remote!closeAdd BY <1>2, <2>2 DEF Remote!openAdd, Remote!closeAdd, RemotePages
  <2>3. CASE Remote!open BY <1>2, <2>3 DEF Remote!open, RemotePages
  <2>4. CASE Remote!close \/ Remote!discard
    BY <1>2, <2>4, RemoteClear DEF Remote!close, Remote!discard, RemotePages
  <2>5. CASE Remote!keep BY <1>2, <2>5 DEF Remote!keep, RemotePages
  <2> QED BY <2>1, <2>2, <2>3, <2>4, <2>5
<1>4. RemoteInv' BY <1>1, <1>3 DEF RemoteInv, RemoteOp
<1>5. \A s \in Slots : v4[s].kind = "update" => v4'[s] # Remote!Idle BY <1>1, RemoteBusy
<1> QED BY <1>1, <1>4, <1>5, RemoteQuiet

\* Every step keeps the invariant and does no more than it may.
LEMMA RemoteSteps == ASSUME RemoteInv, Remote!Next PROVE RemoteInv' /\ RemoteStepOK
<1>1. CASE \/ \E s \in Slots : Remote!CoreServes(s) \/ Remote!budget(s)
           \/ Remote!LateServed \/ Remote!retire
  BY <1>1, RemoteServes
<1>2. CASE \E s \in Slots : \/ Remote!find(s) \/ Remote!announce(s) \/ Remote!connectResumed(s)
                            \/ Remote!testResumed(s) \/ Remote!disconnectResumed(s) \/ Remote!settle(s)
                            \/ Remote!writeResumed(s) \/ Remote!readback(s)
  BY <1>2, RemoteFinds, RemoteResumes, RemoteSettles, RemoteWrites
<1>3. CASE \/ \E kind \in {"connect", "test", "disconnect", "remove"} : Remote!runIdentityOperation(kind)
           \/ Remote!create \/ Remote!save
  BY <1>3, RemoteAsks
<1>4. CASE \/ \E c \in Configs : Remote!type(c)
           \/ Remote!openAdd \/ Remote!closeAdd \/ Remote!open \/ Remote!close \/ Remote!discard \/ Remote!keep
  BY <1>4, RemoteEdits
<1> QED BY <1>1, <1>2, <1>3, <1>4, Zenon DEF Remote!Next

-----------------------------------------------------------------------------
(* The requests to a workbench page. *)

GuestMessages == [op : {"navigate", "cancel"}, n : 1..MaxSeq]
MainMessages ==
  [kind : {"reply"}, n : 1..MaxSeq, code : Workbench!Ends, doc : Nat]
    \cup [kind : {"ready"}, available : BOOLEAN, doc : Nat]

\* A client that unbound took a request with it, no later than n.
Lost(n) == \E k \in 1..n : v5[k] = "unavailable"
\* The cancel of request n is in the queue after position i and before the next request.
CancelledAfter(i, n) ==
  \E j \in DOMAIN v11 :
    /\ j > i /\ v11[j].op = "cancel" /\ v11[j].n = n
    /\ \A m \in DOMAIN v11 : i < m /\ m < j => v11[m].op # "navigate"
\* A request the client has, or is to get at position i, is still asked for, or taken back.
Owed(i, n) == n = v4 \/ CancelledAfter(i, n) \/ Lost(n)

WorkbenchTypes ==
  /\ v1 \in BOOLEAN /\ v2 \in BOOLEAN /\ v3 \in 0..MaxSeq /\ v4 \in {0, v3}
  /\ v5 \in [1..MaxSeq -> Workbench!Ends \cup {"open"}]
  /\ v6 \in Nat /\ v7 \in BOOLEAN /\ v8 \in BOOLEAN /\ v9 \in 0..v10 /\ v10 \in 0..v3
  /\ v11 \in Seq(GuestMessages) /\ v12 \in Seq(MainMessages) /\ (~v8 => v9 = 0)
\* How the requests ended.
Ended ==
  /\ ~v1 => v4 = 0
  /\ v4 # 0 => v5[v4] = "open"
  /\ \A n \in 1..MaxSeq : (n > v3 => v5[n] = "open") /\ (v5[n] = "busy" => Lost(n))
\* What is on the way to the page: requests in order, each after what was sent before it.
Underway ==
  /\ \A i \in DOMAIN v11 : /\ v11[i].n <= v3
                           /\ v11[i].op = "navigate" => v11[i].n > v10 /\ Owed(i, v11[i].n)
  /\ \A i, j \in DOMAIN v11 : i < j /\ v11[j].op = "navigate" => v11[i].n < v11[j].n
  /\ v9 # 0 => Owed(0, v9)
\* What is on the way back: the page is done with a request it has answered, and the pending
\* one was answered by the document shown.
Answered(m) ==
  /\ m.n <= v3 /\ m.n # v9 /\ (m.n = v4 => m.doc = v6) /\ (m.code = "busy" => Lost(m.n))
  /\ \A j \in DOMAIN v11 : v11[j].op = "navigate" => v11[j].n # m.n
Returning == \A i \in DOMAIN v12 : v12[i].kind = "reply" => Answered(v12[i])

\* The invariant.
WorkbenchInv == WorkbenchTypes /\ Ended /\ Underway /\ Returning

\* It holds at the start.
LEMMA WorkbenchStarts == ASSUME Workbench!Init PROVE WorkbenchInv
<1>1. WorkbenchTypes
  <2>1. v5 \in [1..MaxSeq -> Workbench!Ends \cup {"open"}] BY DEF Workbench!Init
  <2>2. v11 \in Seq(GuestMessages) /\ v12 \in Seq(MainMessages) BY DEF Workbench!Init
  <2>3. /\ v3 \in 0..MaxSeq /\ v4 \in {0, v3} /\ v6 \in Nat /\ v9 = 0 /\ v9 \in 0..v10 /\ v10 \in 0..v3
    BY WorkbenchAssumption DEF Workbench!Init
  <2>4. v1 \in BOOLEAN /\ v2 \in BOOLEAN /\ v7 \in BOOLEAN /\ v8 \in BOOLEAN BY DEF Workbench!Init
  <2> QED BY <2>1, <2>2, <2>3, <2>4 DEF WorkbenchTypes
<1>2. Ended /\ Underway /\ Returning BY WorkbenchAssumption DEF Workbench!Init, Ended, Underway, Returning
<1> QED BY <1>1, <1>2 DEF WorkbenchInv

\* A step in which no request ends as confirmed or busy.
LEMMA Confirms ==
  ASSUME WorkbenchInv,
         \A k \in 1..MaxSeq : v5'[k] # v5[k] =>
           /\ v5'[k] = "selected" => Head(v12).n = k /\ Head(v12).doc = v6
           /\ v5'[k] = "busy" => Lost(k)
  PROVE  Workbench!ConfirmedStep
BY DEF WorkbenchInv, Ended, Lost, Workbench!ConfirmedStep

\* Only the pending request ends, and a request that ended stays so.
LEMMA FinishEnds ==
  ASSUME WorkbenchInv, NEW n, NEW how \in Workbench!Ends, Workbench!finish(n, how),
         n = v4 /\ n # 0 /\ how = "busy" => Lost(n), v3' = v3, v1' = v1 \/ n = v4
  PROVE  /\ v4' \in {0, v4} /\ v4' \in {0, v3'} /\ v5' \in [1..MaxSeq -> Workbench!Ends \cup {"open"}] /\ Ended'
         /\ \A k \in 0..MaxSeq : Lost(k) => Lost(k)'
         /\ n = v4 => v4' = 0
         /\ n # v4 => v4' = v4 /\ v5' = v5
         /\ n = v4 /\ v4 # 0 => v5'[n] = how /\ n \in 1..MaxSeq
         /\ \A k \in 1..MaxSeq : v5'[k] # v5[k] => k = n /\ k = v4 /\ v5'[k] = how
<1>1. /\ MaxSeq \in Nat /\ v3 \in 0..MaxSeq /\ v4 \in {0, v3} /\ v4 \in 0..MaxSeq /\ (~v1 => v4 = 0)
      /\ v5 \in [1..MaxSeq -> Workbench!Ends \cup {"open"}]
      /\ v4 # 0 => v5[v4] = "open"
      /\ \A k \in 1..MaxSeq : (k > v3 => v5[k] = "open") /\ (v5[k] = "busy" => Lost(k))
  BY WorkbenchAssumption DEF WorkbenchInv, WorkbenchTypes, Ended
<1>2. CASE v4 = n /\ n # 0
  <2>1. v4' = 0 /\ v5' = [v5 EXCEPT ![n] = how] /\ n \in 1..MaxSeq BY <1>1, <1>2 DEF Workbench!finish
  <2>2. /\ v5' \in [1..MaxSeq -> Workbench!Ends \cup {"open"}] /\ v5'[n] = how
        /\ \A k \in 1..MaxSeq : k # n => v5'[k] = v5[k]
    BY <1>1, <2>1
  <2>3. \A k \in 0..MaxSeq : Lost(k) => Lost(k)'
    <3> SUFFICES ASSUME NEW k \in 0..MaxSeq, NEW i \in 1..k, v5[i] = "unavailable"
                 PROVE  v5'[i] = "unavailable"
      BY DEF Lost
    <3>1. i \in 1..MaxSeq /\ i # n BY <1>1, <1>2
    <3> QED BY <2>2, <3>1
  <2>4. \A k \in 1..MaxSeq : (k > v3' => v5'[k] = "open") /\ (v5'[k] = "busy" => Lost(k)')
    <3> TAKE k \in 1..MaxSeq
    <3>1. k \in 0..MaxSeq BY <1>1
    <3>2. CASE k = n BY <1>1, <1>2, <2>2, <2>3, <3>1, <3>2
    <3>3. CASE k # n BY <1>1, <2>2, <2>3, <3>1, <3>3
    <3> QED BY <3>2, <3>3
  <2>5. Ended' BY <2>1, <2>4 DEF Ended
  <2> QED BY <1>2, <2>1, <2>2, <2>3, <2>5
<1>3. CASE ~(v4 = n /\ n # 0)
  <2>1. v4' = v4 /\ v5' = v5 BY <1>3 DEF Workbench!finish
  <2>2. n = v4 => v4' = 0 BY <1>3, <2>1
  <2>3. \A k \in 0..MaxSeq : Lost(k) => Lost(k)' BY <2>1 DEF Lost
  <2>4. Ended' BY <1>1, <2>1, <2>2 DEF Ended, Lost
  <2> QED BY <1>1, <1>3, <2>1, <2>2, <2>3, <2>4
<1> QED BY <1>2, <1>3

\* The parts of the invariant that a step leaves alone.
LEMMA UnderwayKept ==
  ASSUME WorkbenchInv, v3' = v3, v9' \in {0, v9}, v10' \in 0..v10, v11' = v11,
         \A k \in 0..MaxSeq : Lost(k) => Lost(k)',
         \A n : n = v4 /\ n # v4' /\ n # 0 =>
           \/ Lost(n)'
           \/ n # v9 /\ \A j \in DOMAIN v11 : v11[j].op = "navigate" => v11[j].n # n
  PROVE  Underway'
<1>1. /\ MaxSeq \in Nat /\ v3 \in 0..MaxSeq /\ v9 \in 0..v10 /\ v10 \in 0..v3 /\ v4 \in {0, v3}
      /\ DOMAIN v11 = 1..Len(v11) /\ \A i \in DOMAIN v11 : v11[i] \in GuestMessages
  BY WorkbenchAssumption DEF WorkbenchInv, WorkbenchTypes
<1>2. ASSUME NEW i, NEW n \in 1..MaxSeq, Owed(i, n),
             n = v9 \/ \E j \in DOMAIN v11 : v11[j].op = "navigate" /\ v11[j].n = n
      PROVE  Owed(i, n)'
  <2>1. CASE n = v4 BY <1>2, <2>1 DEF Owed
  <2>2. CASE CancelledAfter(i, n) BY <2>2 DEF Owed, CancelledAfter
  <2>3. CASE Lost(n) BY <1>1, <2>3 DEF Owed
  <2> QED BY <1>2, <2>1, <2>2, <2>3 DEF Owed
<1>3. \A i \in DOMAIN v11 : v11[i].op = "navigate" => v11[i].n > v10' /\ Owed(i, v11[i].n)'
  <2> SUFFICES ASSUME NEW i \in DOMAIN v11, v11[i].op = "navigate"
               PROVE  v11[i].n > v10' /\ Owed(i, v11[i].n)'
    OBVIOUS
  <2>1. v11[i].n \in 1..MaxSeq /\ v11[i].n > v10 /\ Owed(i, v11[i].n)
    BY <1>1 DEF WorkbenchInv, Underway, GuestMessages
  <2>2. PICK n \in 1..MaxSeq : n = v11[i].n BY <2>1
  <2>3. Owed(i, n)' BY <1>2, <2>1, <2>2
  <2>4. n > v10' BY <1>1, <2>1, <2>2
  <2> QED BY <2>2, <2>3, <2>4 DEF Owed
<1>4. v9' # 0 => Owed(0, v9)'
  <2> SUFFICES ASSUME v9' # 0 PROVE Owed(0, v9)' OBVIOUS
  <2>1. v9 \in 1..MaxSeq /\ Owed(0, v9) /\ v9' = v9 BY <1>1 DEF WorkbenchInv, Underway
  <2>2. PICK n \in 1..MaxSeq : n = v9 BY <2>1
  <2>3. Owed(0, n)' BY <1>2, <2>1, <2>2
  <2> QED BY <2>1, <2>2, <2>3
<1> QED BY <1>3, <1>4 DEF Underway, WorkbenchInv

LEMMA ReturningKept ==
  ASSUME WorkbenchInv, v3' = v3, v9' \in {0, v9}, v11' = v11, v6' = v6,
         v4' \in {0, v4}, v12' \in Seq(MainMessages), \A k \in 0..MaxSeq : Lost(k) => Lost(k)',
         \A i \in DOMAIN v12' : v12'[i].kind = "reply" => \E j \in DOMAIN v12 : v12'[i] = v12[j]
  PROVE  Returning'
<1> SUFFICES ASSUME NEW i \in DOMAIN v12', v12'[i].kind = "reply"
             PROVE  Answered(v12[i])'
  BY DEF Returning
<1>1. PICK m : m = v12'[i] OBVIOUS
<1>2. PICK j \in DOMAIN v12 : m = v12[j] BY <1>1
<1>3. m \in MainMessages /\ m.kind = "reply" BY <1>1, <1>2 DEF WorkbenchInv, WorkbenchTypes
<1>4. m.n \in 1..MaxSeq BY <1>3 DEF MainMessages
<1>5. Answered(m) BY <1>1, <1>2, <1>3 DEF WorkbenchInv, Returning
<1>6. m.n # 0 /\ m.n \in 0..MaxSeq BY <1>4, WorkbenchAssumption
<1>7. Answered(m)' BY <1>5, <1>6 DEF Answered
<1> QED BY <1>1, <1>7

\* What a step does that the workbench property is about.
WorkbenchStepOK == WorkbenchInv' /\ Workbench!ConfirmedStep

LEMMA RegisterSteps == ASSUME WorkbenchInv, Workbench!register PROVE WorkbenchStepOK
<1>1. /\ ~v1 /\ v1' = TRUE /\ v2' = FALSE /\ v4' = 0
      /\ UNCHANGED <<v3, v5, v6, v7, v8, v9, v10, v11, v12>>
  BY DEF Workbench!register, Workbench!page
<1>2. v4 = 0 BY <1>1 DEF WorkbenchInv, Ended
<1>3. WorkbenchTypes'
  <2>1. v1' \in BOOLEAN /\ v2' \in BOOLEAN BY <1>1
  <2>2. v4' = v4 BY <1>1, <1>2
  <2> QED BY <1>1, <2>1, <2>2 DEF WorkbenchInv, WorkbenchTypes
<1>4. Ended' /\ Underway' /\ Returning'
  BY <1>1, <1>2 DEF WorkbenchInv, Ended, Underway, Returning, Answered, Owed, CancelledAfter, Lost
<1>5. Workbench!ConfirmedStep BY <1>1, Confirms
<1> QED BY <1>3, <1>4, <1>5 DEF WorkbenchStepOK, WorkbenchInv

\* The page binds and unbinds: it says so, and works on nothing.
LEMMA BindSteps == ASSUME WorkbenchInv, Workbench!Bind \/ Workbench!Dispose PROVE WorkbenchStepOK
<1>1. /\ UNCHANGED <<v1, v2, v3, v4, v5, v6, v7, v11>> /\ v9' = 0 /\ v8' \in BOOLEAN /\ v10' \in {0, v10}
  BY DEF Workbench!Bind, Workbench!Dispose, Workbench!main
<1>2. PICK b \in BOOLEAN : v12' = Append(v12, [kind |-> "ready", available |-> b, doc |-> v6])
  BY DEF Workbench!Bind, Workbench!Dispose
<1>3. PICK m : m = [kind |-> "ready", available |-> b, doc |-> v6] OBVIOUS
<1>4. m \in MainMessages /\ m.kind = "ready" BY <1>3 DEF WorkbenchInv, WorkbenchTypes, MainMessages
<1>5. v12 \in Seq(MainMessages) /\ v12' = Append(v12, m) BY <1>2, <1>3 DEF WorkbenchInv, WorkbenchTypes
<1>6. /\ v12' \in Seq(MainMessages)
      /\ \A i \in DOMAIN v12' : v12'[i].kind = "reply" => \E j \in DOMAIN v12 : v12'[i] = v12[j]
  <2> HIDE DEF MainMessages
  <2> QED BY <1>4, <1>5
<1>7. v10' \in 0..v10 /\ v9' \in 0..v10' /\ v10' \in 0..v3 BY <1>1, WorkbenchAssumption DEF WorkbenchInv, WorkbenchTypes
<1>8. WorkbenchTypes' BY <1>1, <1>6, <1>7 DEF WorkbenchInv, WorkbenchTypes
<1>9. Ended' /\ (\A k \in 0..MaxSeq : Lost(k) => Lost(k)') BY <1>1 DEF WorkbenchInv, Ended, Lost
<1>10. Underway' BY <1>1, <1>7, <1>9, UnderwayKept
<1>11. Returning' BY <1>1, <1>6, <1>9, ReturningKept
<1>12. Workbench!ConfirmedStep BY <1>1, Confirms
<1> QED BY <1>8, <1>9, <1>10, <1>11, <1>12 DEF WorkbenchStepOK, WorkbenchInv

\* Another document: what was sent to the old one is gone, and so is the pending request.
LEMMA NavigateSteps ==
  ASSUME WorkbenchInv, NEW h \in BOOLEAN, Workbench!navigate(h)
  PROVE  WorkbenchStepOK
<1>1. /\ UNCHANGED <<v1, v3, v12>> /\ v6' = v6 + 1 /\ v7' = h /\ ~v8' /\ v8' \in BOOLEAN
      /\ v9' = 0 /\ v10' = 0 /\ v11' = <<>>
  BY DEF Workbench!navigate
<1>2. v1 \in BOOLEAN /\ (~v1 => v4 = 0) BY DEF WorkbenchInv, WorkbenchTypes, Ended
<1>3. Workbench!finish(v4, "cancelled") /\ v2' \in BOOLEAN
  BY <1>2 DEF Workbench!navigate, Workbench!finish, WorkbenchInv, WorkbenchTypes
<1>4. "cancelled" \in Workbench!Ends BY DEF Workbench!Ends
<1>5. /\ v4' = 0 /\ v4' \in {0, v3'} /\ v5' \in [1..MaxSeq -> Workbench!Ends \cup {"open"}] /\ Ended'
      /\ \A k \in 0..MaxSeq : Lost(k) => Lost(k)'
      /\ \A k \in 1..MaxSeq : v5'[k] # v5[k] => v5'[k] = "cancelled"
  BY <1>1, <1>3, <1>4, FinishEnds
<1>6. WorkbenchTypes'
  <2>1. /\ v3' \in 0..MaxSeq /\ v6' \in Nat /\ v9' \in 0..v10' /\ v10' \in 0..v3'
    BY <1>1, WorkbenchAssumption DEF WorkbenchInv, WorkbenchTypes
  <2>2. v11' \in Seq(GuestMessages) /\ v12' \in Seq(MainMessages)
    BY <1>1 DEF WorkbenchInv, WorkbenchTypes
  <2>3. v1' \in BOOLEAN /\ v7' \in BOOLEAN BY <1>1, <1>2
  <2> QED BY <1>1, <1>3, <1>5, <2>1, <2>2, <2>3 DEF WorkbenchTypes
<1>7. Underway' BY <1>1 DEF Underway
<1>8. Returning'
  <2> SUFFICES ASSUME NEW i \in DOMAIN v12, v12[i].kind = "reply" PROVE Answered(v12[i])'
    BY <1>1 DEF Returning
  <2>1. PICK m : m = v12[i] OBVIOUS
  <2>2. Answered(m) /\ m \in MainMessages BY <2>1 DEF WorkbenchInv, Returning, WorkbenchTypes
  <2>3. m.n \in 1..MaxSeq BY <2>1, <2>2 DEF MainMessages
  <2>4. m.n # 0 /\ m.n \in 0..MaxSeq BY <2>3, WorkbenchAssumption
  <2>5. Answered(m)' BY <1>1, <1>5, <2>2, <2>4 DEF Answered
  <2> QED BY <1>1, <2>1, <2>5
<1>9. Workbench!ConfirmedStep BY <1>5, Confirms
<1> QED BY <1>5, <1>6, <1>7, <1>8, <1>9 DEF WorkbenchStepOK, WorkbenchInv

\* What is sent to the page comes last.
LEMMA SentLast ==
  ASSUME WorkbenchInv, NEW m \in GuestMessages, v11' = Append(v11, m)
  PROVE  /\ v11' \in Seq(GuestMessages) /\ Len(v11') = Len(v11) + 1 /\ Len(v11) \in Nat
         /\ DOMAIN v11 = 1..Len(v11) /\ DOMAIN v11' = 1..Len(v11') /\ v11'[Len(v11')] = m
         /\ \A i \in DOMAIN v11 : i \in DOMAIN v11' /\ v11'[i] = v11[i] /\ i < Len(v11')
         /\ \A i \in DOMAIN v11' : i \in DOMAIN v11 \/ i = Len(v11')
         /\ \A i, n : CancelledAfter(i, n) => CancelledAfter(i, n)'
<1>1. v11 \in Seq(GuestMessages) BY DEF WorkbenchInv, WorkbenchTypes
<1>2. /\ v11' \in Seq(GuestMessages) /\ Len(v11') = Len(v11) + 1 /\ Len(v11) \in Nat
      /\ DOMAIN v11 = 1..Len(v11) /\ DOMAIN v11' = 1..Len(v11') /\ v11'[Len(v11')] = m
      /\ \A i \in DOMAIN v11 : i \in DOMAIN v11' /\ v11'[i] = v11[i] /\ i < Len(v11')
      /\ \A i \in DOMAIN v11' : i \in DOMAIN v11 \/ i = Len(v11')
  <2> HIDE DEF GuestMessages
  <2> QED BY <1>1
<1>3. ASSUME NEW i, NEW n, CancelledAfter(i, n) PROVE CancelledAfter(i, n)'
  <2>1. PICK j \in DOMAIN v11 :
          /\ j > i /\ v11[j].op = "cancel" /\ v11[j].n = n
          /\ \A l \in DOMAIN v11 : i < l /\ l < j => v11[l].op # "navigate"
    BY <1>3 DEF CancelledAfter
  <2>2. j \in DOMAIN v11' /\ v11'[j] = v11[j] BY <1>2
  <2>3. \A l \in DOMAIN v11' : l < j => l \in DOMAIN v11 /\ v11'[l] = v11[l] BY <1>2
  <2> QED BY <2>1, <2>2, <2>3 DEF CancelledAfter
<1> QED BY <1>2, <1>3

\* The facts about the queues and numbers that every step starts from.
LEMMA WorkbenchFacts ==
  ASSUME WorkbenchInv
  PROVE  /\ MaxSeq \in Nat /\ v3 \in 0..MaxSeq /\ v4 \in {0, v3} /\ v9 \in 0..v10 /\ v10 \in 0..v3
         /\ v11 \in Seq(GuestMessages) /\ v12 \in Seq(MainMessages)
         /\ DOMAIN v11 = 1..Len(v11) /\ Len(v11) \in Nat
         /\ \A i \in DOMAIN v11 : /\ v11[i] \in GuestMessages /\ v11[i].n \in 1..MaxSeq /\ v11[i].n <= v3
                                  /\ v11[i].op \in {"navigate", "cancel"}
         /\ \A i \in DOMAIN v12 : v12[i].kind = "reply" =>
              /\ Answered(v12[i]) /\ v12[i].n \in 1..MaxSeq /\ v12[i].code \in Workbench!Ends
<1>1. v11 \in Seq(GuestMessages) /\ v12 \in Seq(MainMessages) BY DEF WorkbenchInv, WorkbenchTypes
<1>2. \A i \in DOMAIN v11 : v11[i] \in GuestMessages
  <2> HIDE DEF GuestMessages
  <2> QED BY <1>1
<1>3. \A i \in DOMAIN v12 : v12[i] \in MainMessages
  <2> HIDE DEF MainMessages
  <2> QED BY <1>1
<1>4. \A i \in DOMAIN v12 : v12[i].kind = "reply" => v12[i].n \in 1..MaxSeq /\ v12[i].code \in Workbench!Ends
  BY <1>3 DEF MainMessages
<1> QED BY <1>1, <1>2, <1>4, WorkbenchAssumption
      DEF WorkbenchInv, WorkbenchTypes, Underway, Returning, GuestMessages

LEMMA RequestSteps == ASSUME WorkbenchInv, Workbench!request PROVE WorkbenchStepOK
<1>1. /\ v1 /\ v4 = 0 /\ v3 < MaxSeq /\ v3' = v3 + 1 /\ v4' = v3'
      /\ v11' = Append(v11, [op |-> "navigate", n |-> v3'])
      /\ UNCHANGED <<v1, v2, v5, v6, v7, v8, v9, v10, v12>>
  BY DEF Workbench!request, Workbench!page
<1>2. PICK m : m = [op |-> "navigate", n |-> v3 + 1] OBVIOUS
<1>3. v3 + 1 \in 1..MaxSeq /\ v3' \in 0..MaxSeq /\ v10 \in 0..v3' /\ v3 \in Nat BY <1>1, WorkbenchFacts
<1>4. m \in GuestMessages /\ v11' = Append(v11, m) /\ m.op = "navigate" /\ m.n = v3 + 1
  BY <1>1, <1>2, <1>3 DEF GuestMessages
<1>5. /\ v11' \in Seq(GuestMessages) /\ Len(v11') = Len(v11) + 1 /\ v11'[Len(v11')] = m
      /\ \A i \in DOMAIN v11 : i \in DOMAIN v11' /\ v11'[i] = v11[i] /\ i < Len(v11')
      /\ \A i \in DOMAIN v11' : i \in DOMAIN v11 \/ i = Len(v11')
      /\ \A i, n : CancelledAfter(i, n) => CancelledAfter(i, n)'
  BY <1>4, SentLast
<1>6. WorkbenchTypes'
  <2>1. v4' \in {0, v3'} BY <1>1
  <2> QED BY <1>1, <1>3, <1>5, <2>1 DEF WorkbenchInv, WorkbenchTypes
<1>7. Ended'
  <2>1. v5[v3 + 1] = "open" BY <1>3 DEF WorkbenchInv, Ended
  <2>2. \A n \in 1..MaxSeq : (n > v3' => v5[n] = "open") /\ (v5[n] = "busy" => Lost(n)')
    <3> TAKE n \in 1..MaxSeq
    <3>1. n > v3' => n > v3 BY <1>1, <1>3
    <3> QED BY <1>1, <3>1 DEF WorkbenchInv, Ended, Lost
  <2> QED BY <1>1, <2>1, <2>2 DEF Ended
<1>8. ASSUME NEW i, NEW n \in 1..MaxSeq, Owed(i, n) PROVE Owed(i, n)'
  <2>1. n # v4 BY <1>1
  <2>2. Lost(n) => Lost(n)' BY <1>1 DEF Lost
  <2> QED BY <1>5, <1>8, <2>1, <2>2 DEF Owed
<1>9. Underway'
  <2>1. ASSUME NEW i \in DOMAIN v11'
        PROVE  /\ v11'[i].n <= v3'
               /\ v11'[i].op = "navigate" => v11'[i].n > v10 /\ Owed(i, v11[i].n)'
    <3>1. CASE i \in DOMAIN v11
      <4>1. PICK n \in 1..MaxSeq : n = v11[i].n /\ n <= v3 BY <3>1, WorkbenchFacts
      <4>2. v11'[i] = v11[i] BY <1>5, <3>1
      <4>3. n <= v3' BY <1>1, <1>3, <4>1
      <4>4. v11[i].op = "navigate" => n > v10 /\ Owed(i, n)
        BY <3>1, <4>1 DEF WorkbenchInv, Underway
      <4>5. v11[i].op = "navigate" => n > v10 /\ Owed(i, n)' BY <1>8, <4>4
      <4> QED BY <4>1, <4>2, <4>3, <4>5 DEF Owed
    <3>2. CASE i = Len(v11')
      <4>1. v11'[i] = m BY <1>5, <3>2
      <4>2. m.n = v3' /\ m.n = v4' /\ m.n <= v3' /\ m.n > v10 BY <1>1, <1>3, <1>4, WorkbenchFacts
      <4> QED BY <4>1, <4>2 DEF Owed
    <3> QED BY <1>5, <3>1, <3>2
  <2>2. ASSUME NEW i \in DOMAIN v11', NEW j \in DOMAIN v11', i < j, v11'[j].op = "navigate"
        PROVE  v11'[i].n < v11'[j].n
    <3>1. DOMAIN v11' = 1..Len(v11') /\ Len(v11') \in Nat BY <1>5, WorkbenchFacts
    <3>2. i \in DOMAIN v11 /\ v11'[i] = v11[i] BY <1>5, <2>2, <3>1
    <3>3. CASE j \in DOMAIN v11 BY <1>5, <2>2, <3>2, <3>3 DEF WorkbenchInv, Underway
    <3>4. CASE j = Len(v11')
      <4>1. v11[i].n \in 1..MaxSeq /\ v11[i].n <= v3 BY <3>2, WorkbenchFacts
      <4> QED BY <1>3, <1>4, <1>5, <3>2, <3>4, <4>1
    <3> QED BY <1>5, <3>3, <3>4
  <2>3. v9' # 0 => Owed(0, v9)'
    <3> SUFFICES ASSUME v9 # 0 PROVE Owed(0, v9)' BY <1>1
    <3>1. PICK n \in 1..MaxSeq : n = v9 BY WorkbenchFacts
    <3>2. Owed(0, n) BY <3>1 DEF WorkbenchInv, Underway
    <3>3. Owed(0, n)' BY <1>8, <3>2
    <3> QED BY <1>1, <3>1, <3>3
  <2> QED BY <1>1, <2>1, <2>2, <2>3 DEF Underway
<1>10. Returning'
  <2> SUFFICES ASSUME NEW i \in DOMAIN v12, v12[i].kind = "reply" PROVE Answered(v12[i])'
    BY <1>1 DEF Returning
  <2>1. PICK r : r = v12[i] OBVIOUS
  <2>2. Answered(r) /\ r.n \in 1..MaxSeq BY <2>1, WorkbenchFacts
  <2>3. r.n <= v3 BY <2>2 DEF Answered
  <2>4. r.n <= v3' /\ r.n # v4' /\ r.n # v3 + 1 BY <1>1, <1>3, <2>2, <2>3
  <2>5. \A j \in DOMAIN v11' : v11'[j].op = "navigate" => v11'[j].n # r.n
    <3> SUFFICES ASSUME NEW j \in DOMAIN v11', v11'[j].op = "navigate" PROVE v11'[j].n # r.n OBVIOUS
    <3>1. CASE j \in DOMAIN v11
      <4>1. v11'[j] = v11[j] BY <1>5, <3>1
      <4> QED BY <2>2, <3>1, <4>1 DEF Answered
    <3>2. CASE j = Len(v11') BY <1>4, <1>5, <2>4, <3>2
    <3> QED BY <1>5, <3>1, <3>2
  <2>6. Lost(r.n) => Lost(r.n)'
    <3>1. PICK n : n = r.n OBVIOUS
    <3> QED BY <1>1, <3>1 DEF Lost
  <2>7. Answered(r)' BY <1>1, <2>2, <2>4, <2>5, <2>6 DEF Answered
  <2> QED BY <1>1, <2>1, <2>7
<1>11. Workbench!ConfirmedStep BY <1>1, Confirms
<1> QED BY <1>6, <1>7, <1>9, <1>10, <1>11 DEF WorkbenchStepOK, WorkbenchInv

\* The pending request is taken back: its cancel follows it, before any other request.
LEMMA CancelSent ==
  ASSUME WorkbenchInv, v4 # 0, v11' = Append(v11, [op |-> "cancel", n |-> v4]),
         NEW how \in {"timeout", "cancelled"}, Workbench!finish(v4, how),
         v1' \in BOOLEAN, v2' \in BOOLEAN, UNCHANGED <<v3, v6, v7, v8, v9, v10, v12>>
  PROVE  WorkbenchStepOK
<1>1. /\ v4' = 0 /\ v4' \in {0, v3'} /\ v5' \in [1..MaxSeq -> Workbench!Ends \cup {"open"}] /\ Ended'
      /\ \A k \in 0..MaxSeq : Lost(k) => Lost(k)'
      /\ \A k \in 1..MaxSeq : v5'[k] # v5[k] => v5'[k] = how
  <2>1. how \in Workbench!Ends /\ how # "busy" BY DEF Workbench!Ends
  <2> QED BY <2>1, FinishEnds
<1>2. PICK m : m = [op |-> "cancel", n |-> v4] OBVIOUS
<1>3. v4 \in 1..MaxSeq /\ v4 = v3 BY WorkbenchFacts
<1>4. m \in GuestMessages /\ v11' = Append(v11, m) /\ m.op = "cancel" /\ m.n = v4
  BY <1>2, <1>3 DEF GuestMessages
<1>5. /\ v11' \in Seq(GuestMessages) /\ Len(v11') = Len(v11) + 1 /\ v11'[Len(v11')] = m
      /\ \A i \in DOMAIN v11 : i \in DOMAIN v11' /\ v11'[i] = v11[i] /\ i < Len(v11')
      /\ \A i \in DOMAIN v11' : i \in DOMAIN v11 \/ i = Len(v11')
      /\ \A i, n : CancelledAfter(i, n) => CancelledAfter(i, n)'
  BY <1>4, SentLast
<1>6. Len(v11') \in DOMAIN v11' BY <1>5, WorkbenchFacts
<1>7. WorkbenchTypes' BY <1>1, <1>5 DEF WorkbenchInv, WorkbenchTypes
<1>8. ASSUME NEW i, NEW n \in 1..MaxSeq, Owed(i, n), i < Len(v11'),
             n = v4 => \A l \in DOMAIN v11 : i < l => v11[l].op # "navigate"
      PROVE  Owed(i, n)'
  <2>1. CASE n = v4
    <3>1. \A l \in DOMAIN v11' : i < l /\ l < Len(v11') => v11'[l].op # "navigate"
      BY <1>5, <1>8, <2>1
    <3>2. CancelledAfter(i, n)' BY <1>4, <1>5, <1>6, <1>8, <2>1, <3>1 DEF CancelledAfter
    <3> QED BY <3>2 DEF Owed
  <2>2. CASE n # v4
    <3>1. n \in 0..MaxSeq BY WorkbenchAssumption
    <3> QED BY <1>1, <1>5, <1>8, <2>2, <3>1 DEF Owed
  <2> QED BY <2>1, <2>2
<1>9. Underway'
  <2>1. ASSUME NEW i \in DOMAIN v11'
        PROVE  /\ v11'[i].n <= v3'
               /\ v11'[i].op = "navigate" => v11'[i].n > v10 /\ Owed(i, v11[i].n)'
    <3>1. CASE i \in DOMAIN v11
      <4>1. PICK n \in 1..MaxSeq : n = v11[i].n /\ n <= v3 BY <3>1, WorkbenchFacts
      <4>2. v11'[i] = v11[i] /\ i < Len(v11') BY <1>5, <3>1
      <4>3. ASSUME v11[i].op = "navigate" PROVE n > v10 /\ Owed(i, n)'
        <5>1. n > v10 /\ Owed(i, n) BY <3>1, <4>1, <4>3 DEF WorkbenchInv, Underway
        <5>2. ASSUME n = v4, NEW l \in DOMAIN v11, i < l, v11[l].op = "navigate" PROVE FALSE
          <6>1. n < v11[l].n BY <3>1, <4>1, <5>2 DEF WorkbenchInv, Underway
          <6>2. v11[l].n <= v3 /\ v11[l].n \in 1..MaxSeq BY WorkbenchFacts
          <6> QED BY <1>3, <5>2, <6>1, <6>2
        <5> QED BY <1>8, <4>2, <5>1, <5>2
      <4> QED BY <4>1, <4>2, <4>3 DEF Owed
    <3>2. CASE i = Len(v11') BY <1>3, <1>4, <1>5, <3>2
    <3> QED BY <1>5, <3>1, <3>2
  <2>2. ASSUME NEW i \in DOMAIN v11', NEW j \in DOMAIN v11', i < j, v11'[j].op = "navigate"
        PROVE  v11'[i].n < v11'[j].n
    <3>1. DOMAIN v11' = 1..Len(v11') /\ Len(v11') \in Nat BY <1>5, WorkbenchFacts
    <3>2. i \in DOMAIN v11 /\ v11'[i] = v11[i] BY <1>5, <2>2, <3>1
    <3>3. j \in DOMAIN v11 /\ v11'[j] = v11[j] BY <1>4, <1>5, <2>2
    <3> QED BY <2>2, <3>2, <3>3 DEF WorkbenchInv, Underway
  <2>3. v9' # 0 => Owed(0, v9)'
    <3> SUFFICES ASSUME v9 # 0 PROVE Owed(0, v9)' OBVIOUS
    <3>1. PICK n \in 1..MaxSeq : n = v9 BY WorkbenchFacts
    <3>2. Owed(0, n) BY <3>1 DEF WorkbenchInv, Underway
    <3>3. ASSUME n = v4, NEW l \in DOMAIN v11, v11[l].op = "navigate" PROVE FALSE
      <4>1. v11[l].n > v10 BY <3>3 DEF WorkbenchInv, Underway
      <4>2. v11[l].n <= v3 /\ v11[l].n \in 1..MaxSeq /\ v9 <= v10 /\ v10 \in 0..v3 BY WorkbenchFacts
      <4> QED BY <1>3, <3>1, <3>3, <4>1, <4>2
    <3>4. 0 < Len(v11') BY <1>5, WorkbenchFacts
    <3>5. Owed(0, n)' BY <1>8, <3>2, <3>3, <3>4
    <3> QED BY <3>1, <3>5
  <2> QED BY <2>1, <2>2, <2>3 DEF Underway
<1>10. Returning'
  <2> SUFFICES ASSUME NEW i \in DOMAIN v12, v12[i].kind = "reply" PROVE Answered(v12[i])'
    BY DEF Returning
  <2>1. PICK r : r = v12[i] OBVIOUS
  <2>2. Answered(r) /\ r.n \in 1..MaxSeq BY <2>1, WorkbenchFacts
  <2>3. r.n # 0 /\ r.n \in 0..MaxSeq BY <2>2, WorkbenchAssumption
  <2>4. \A j \in DOMAIN v11' : v11'[j].op = "navigate" => v11'[j].n # r.n
    BY <1>4, <1>5, <2>2 DEF Answered
  <2>5. Answered(r)' BY <1>1, <2>2, <2>3, <2>4 DEF Answered
  <2> QED BY <2>1, <2>5
<1>11. Workbench!ConfirmedStep BY <1>1, Confirms
<1> QED BY <1>1, <1>7, <1>9, <1>10, <1>11 DEF WorkbenchStepOK, WorkbenchInv

LEMMA TakenBackSteps ==
  ASSUME WorkbenchInv,
         Workbench!remove \/ \E how \in {"timeout", "cancelled"} : Workbench!TimeoutOrAbort(how)
  PROVE  WorkbenchStepOK
<1>1. ASSUME NEW how \in {"timeout", "cancelled"}, Workbench!TimeoutOrAbort(how) PROVE WorkbenchStepOK
  <2>1. /\ v4 # 0 /\ v11' = Append(v11, [op |-> "cancel", n |-> v4]) /\ Workbench!finish(v4, how)
        /\ UNCHANGED <<v1, v2, v3, v6, v7, v8, v9, v10, v12>>
    BY <1>1 DEF Workbench!TimeoutOrAbort, Workbench!cancelGuest, Workbench!page
  <2>2. v1' \in BOOLEAN /\ v2' \in BOOLEAN BY <2>1 DEF WorkbenchInv, WorkbenchTypes
  <2> QED BY <2>1, <2>2, CancelSent
<1>2. CASE Workbench!remove
  <2>1. /\ v1' \in BOOLEAN /\ v2' \in BOOLEAN /\ Workbench!finish(v4, "cancelled")
        /\ UNCHANGED <<v3, v6, v7, v8, v9, v10, v12>>
    BY <1>2 DEF Workbench!remove, Workbench!page
  <2>2. CASE v4 # 0
    <3>1. v11' = Append(v11, [op |-> "cancel", n |-> v4])
      BY <1>2, <2>2 DEF Workbench!remove, Workbench!cancelGuest
    <3> QED BY <2>1, <2>2, <3>1, CancelSent
  <2>3. CASE v4 = 0
    <3>1. v11' = v11 /\ v4' = v4 /\ v5' = v5
      BY <1>2, <2>3 DEF Workbench!remove, Workbench!cancelGuest, Workbench!finish
    <3>2. WorkbenchTypes' BY <2>1, <3>1 DEF WorkbenchInv, WorkbenchTypes
    <3>3. Ended' /\ Underway' /\ Returning'
      BY <2>1, <2>3, <3>1 DEF WorkbenchInv, Ended, Underway, Returning, Answered, Owed, CancelledAfter, Lost
    <3>4. Workbench!ConfirmedStep BY <3>1, Confirms
    <3> QED BY <3>2, <3>3, <3>4 DEF WorkbenchStepOK, WorkbenchInv
  <2> QED BY <2>2, <2>3
<1> QED BY <1>1, <1>2

\* What the page answers comes last.
LEMMA ReplySent ==
  ASSUME WorkbenchInv, NEW n \in 1..MaxSeq, NEW code \in Workbench!Ends, v12' = Workbench!Reply(n, code),
         v6' = v6, n <= v3', n # v9', code = "busy" => Lost(n)',
         \A j \in DOMAIN v11' : v11'[j].op = "navigate" => v11'[j].n # n,
         \A i \in DOMAIN v12 : v12[i].kind = "reply" => \A r : r = v12[i] => Answered(r)'
  PROVE  v12' \in Seq(MainMessages) /\ Returning'
<1>1. PICK m : m = [kind |-> "reply", n |-> n, code |-> code, doc |-> v6] OBVIOUS
<1>2. v6 \in Nat /\ v12 \in Seq(MainMessages) BY DEF WorkbenchInv, WorkbenchTypes
<1>3. m \in MainMessages /\ m.n = n /\ m.code = code /\ m.doc = v6 BY <1>1, <1>2 DEF MainMessages
<1>4. v12' = Append(v12, m) BY <1>1 DEF Workbench!Reply
<1>5. /\ v12' \in Seq(MainMessages) /\ v12'[Len(v12')] = m
      /\ \A i \in DOMAIN v12' : (i \in DOMAIN v12 /\ v12'[i] = v12[i]) \/ i = Len(v12')
  <2> HIDE DEF MainMessages
  <2> QED BY <1>2, <1>3, <1>4
<1>6. Answered(m)' BY <1>3 DEF Answered
<1>7. ASSUME NEW i \in DOMAIN v12', v12'[i].kind = "reply" PROVE Answered(v12[i])'
  <2>1. PICK r : r = v12'[i] OBVIOUS
  <2>2. Answered(r)' BY <1>5, <1>6, <1>7, <2>1
  <2> QED BY <2>1, <2>2
<1> QED BY <1>5, <1>7 DEF Returning

\* The client is done with its request.
LEMMA ClientSteps ==
  ASSUME WorkbenchInv, NEW code \in Workbench!Codes, Workbench!navigateWorkbench(code)
  PROVE  WorkbenchStepOK
<1>1. /\ v9 # 0 /\ v9' = 0 /\ v12' = Workbench!Reply(v9, code)
      /\ UNCHANGED <<v1, v2, v3, v4, v5, v6, v7, v8, v10, v11>>
  BY DEF Workbench!navigateWorkbench, Workbench!main
<1>2. PICK n \in 1..MaxSeq : n = v9 BY <1>1, WorkbenchFacts
<1>3. code \in Workbench!Ends /\ code # "busy" BY DEF Workbench!Codes, Workbench!Ends
<1>4. \A k \in 0..MaxSeq : Lost(k) => Lost(k)' BY <1>1 DEF Lost
<1>5. \A j \in DOMAIN v11 : v11[j].op = "navigate" => v11[j].n # n
  <2> SUFFICES ASSUME NEW j \in DOMAIN v11, v11[j].op = "navigate" PROVE v11[j].n # n OBVIOUS
  <2>1. v11[j].n > v10 BY DEF WorkbenchInv, Underway
  <2>2. v11[j].n \in 1..MaxSeq /\ v10 \in 0..v3 /\ v3 \in 0..MaxSeq /\ v9 <= v10 BY WorkbenchFacts
  <2> QED BY <1>2, <2>1, <2>2
<1>6. ASSUME NEW i \in DOMAIN v12, v12[i].kind = "reply", NEW r, r = v12[i] PROVE Answered(r)'
  <2>1. Answered(r) /\ r.n \in 1..MaxSeq BY <1>6, WorkbenchFacts
  <2>2. r.n \in 0..MaxSeq /\ r.n # 0 BY <2>1, WorkbenchAssumption
  <2> QED BY <1>1, <1>4, <2>1, <2>2 DEF Answered
<1>7. n <= v3' /\ n # v9' BY <1>1, <1>2, WorkbenchFacts
<1>8. v12' \in Seq(MainMessages) /\ Returning' BY <1>1, <1>2, <1>3, <1>5, <1>6, <1>7, ReplySent
<1>9. v9' \in 0..v10' /\ v10' \in 0..v10 BY <1>1, WorkbenchFacts
<1>10. WorkbenchTypes' BY <1>1, <1>8, <1>9 DEF WorkbenchInv, WorkbenchTypes
<1>11. Ended' BY <1>1 DEF WorkbenchInv, Ended, Lost
<1>12. Underway' BY <1>1, <1>4, <1>9, UnderwayKept
<1>13. Workbench!ConfirmedStep BY <1>1, Confirms
<1> QED BY <1>8, <1>10, <1>11, <1>12, <1>13 DEF WorkbenchStepOK, WorkbenchInv

\* The first message from a document arrives.
LEMMA AdmitSteps == ASSUME WorkbenchInv, Workbench!Admit PROVE WorkbenchStepOK
<1> DEFINE m == Head(v12)
<1>1. /\ v12 # <<>> /\ v12' = Tail(v12) /\ UNCHANGED <<v1, v3, v6, v7, v8, v9, v10, v11>>
  BY DEF Workbench!Admit, Workbench!page
<1>2. /\ v12' \in Seq(MainMessages) /\ 1 \in DOMAIN v12 /\ m = v12[1] /\ m \in MainMessages
      /\ \A i \in DOMAIN v12' : \E j \in DOMAIN v12 : v12'[i] = v12[j]
  <2>1. v12 \in Seq(MainMessages) BY WorkbenchFacts
  <2> HIDE DEF MainMessages
  <2>2. /\ Tail(v12) \in Seq(MainMessages)
        /\ \A i \in DOMAIN Tail(v12) : i + 1 \in DOMAIN v12 /\ Tail(v12)[i] = v12[i + 1]
    BY <1>1, <2>1
  <2>3. 1 \in DOMAIN v12 /\ m = v12[1] /\ m \in MainMessages BY <1>1, <2>1
  <2> QED BY <1>1, <2>2, <2>3
<1>3. ASSUME v2' \in BOOLEAN, v4' \in {0, v4}, v4' \in {0, v3'},
             v5' \in [1..MaxSeq -> Workbench!Ends \cup {"open"}], Ended',
             \A k \in 0..MaxSeq : Lost(k) => Lost(k)',
             \A n : n = v4 /\ n # v4' /\ n # 0 =>
               \/ Lost(n)'
               \/ n # v9 /\ \A j \in DOMAIN v11 : v11[j].op = "navigate" => v11[j].n # n,
             \A k \in 1..MaxSeq : v5'[k] # v5[k] =>
               /\ v5'[k] = "selected" => m.n = k /\ m.doc = v6
               /\ v5'[k] = "busy" => Lost(k)
      PROVE  WorkbenchStepOK
  <2>1. WorkbenchTypes' BY <1>1, <1>2, <1>3 DEF WorkbenchInv, WorkbenchTypes
  <2>2. v10' \in 0..v10 BY <1>1, WorkbenchFacts
  <2>3. Underway' BY <1>1, <1>3, <2>2, UnderwayKept
  <2>4. Returning' BY <1>1, <1>2, <1>3, ReturningKept
  <2>5. Workbench!ConfirmedStep BY <1>3, Confirms
  <2> QED BY <1>3, <2>1, <2>3, <2>4, <2>5 DEF WorkbenchStepOK, WorkbenchInv
<1>4. ASSUME v2' \in BOOLEAN, UNCHANGED <<v4, v5>> PROVE WorkbenchStepOK
  <2>1. /\ v4' \in {0, v4} /\ v4' \in {0, v3'} /\ v5' \in [1..MaxSeq -> Workbench!Ends \cup {"open"}]
    BY <1>1, <1>4 DEF WorkbenchInv, WorkbenchTypes
  <2>2. Ended' /\ (\A k \in 0..MaxSeq : Lost(k) => Lost(k)')
    BY <1>1, <1>4 DEF WorkbenchInv, Ended, Lost
  <2> QED BY <1>3, <1>4, <2>1, <2>2
<1>5. v2 \in BOOLEAN BY DEF WorkbenchInv, WorkbenchTypes
<1>6. CASE UNCHANGED <<v2, v4, v5>> BY <1>4, <1>5, <1>6
<1>7. CASE m.kind = "reply" /\ Workbench!reply(m) /\ UNCHANGED v2
  <2>1. m.n \in 1..MaxSeq /\ m.code \in Workbench!Ends /\ Answered(m) BY <1>2, <1>7, WorkbenchFacts
  <2>2. Workbench!finish(m.n, m.code) BY <1>7 DEF Workbench!reply
  <2>3. PICK n, how : n = m.n /\ how = m.code OBVIOUS
  <2>4. how = "busy" => Lost(n) BY <2>1, <2>3 DEF Answered
  <2>5. /\ v4' \in {0, v4} /\ v4' \in {0, v3'} /\ v5' \in [1..MaxSeq -> Workbench!Ends \cup {"open"}] /\ Ended'
        /\ \A k \in 0..MaxSeq : Lost(k) => Lost(k)'
        /\ n # v4 => v4' = v4
        /\ \A k \in 1..MaxSeq : v5'[k] # v5[k] => k = n /\ k = v4 /\ v5'[k] = how
    BY <1>1, <2>1, <2>2, <2>3, <2>4, FinishEnds
  <2>6. n # v9 /\ (\A j \in DOMAIN v11 : v11[j].op = "navigate" => v11[j].n # n) /\ (n = v4 => m.doc = v6)
    BY <2>1, <2>3 DEF Answered
  <2>7. v2' \in BOOLEAN BY <1>5, <1>7
  <2> HIDE DEF m
  <2> QED BY <1>3, <2>3, <2>4, <2>5, <2>6, <2>7
<1>8. CASE m.kind = "ready" /\ v2' = m.available /\ Workbench!finish(v4, "unavailable")
  <2>1. v2' \in BOOLEAN BY <1>2, <1>8 DEF MainMessages
  <2>2. "unavailable" \in Workbench!Ends BY DEF Workbench!Ends
  <2>3. PICK n : n = v4 OBVIOUS
  <2>4. /\ v4' \in {0, v4} /\ v4' \in {0, v3'} /\ v5' \in [1..MaxSeq -> Workbench!Ends \cup {"open"}] /\ Ended'
        /\ \A k \in 0..MaxSeq : Lost(k) => Lost(k)'
        /\ n # 0 => v5'[n] = "unavailable" /\ n \in 1..MaxSeq
        /\ \A k \in 1..MaxSeq : v5'[k] # v5[k] => v5'[k] = "unavailable"
    BY <1>1, <1>8, <2>2, <2>3, FinishEnds
  <2>5. n # 0 => Lost(n)'
    <3> SUFFICES ASSUME n # 0 PROVE Lost(n)' OBVIOUS
    <3>1. n \in 1..MaxSeq /\ v5'[n] = "unavailable" BY <2>4
    <3>2. n \in 1..n BY <3>1, WorkbenchAssumption
    <3> QED BY <3>1, <3>2 DEF Lost
  <2> HIDE DEF m
  <2> QED BY <1>3, <2>1, <2>3, <2>4, <2>5
<1>9. CASE m.kind = "ready" /\ v2' = m.available /\ UNCHANGED <<v4, v5>>
  <2>1. v2' \in BOOLEAN BY <1>2, <1>9 DEF MainMessages
  <2> QED BY <1>4, <1>9, <2>1
<1>10. m.kind \in {"reply", "ready"} BY <1>2 DEF MainMessages
<1> QED BY <1>6, <1>7, <1>8, <1>9, <1>10 DEF Workbench!Admit

\* The client takes the first message: what is left of the queue keeps its order.
LEMMA TakenFirst ==
  ASSUME WorkbenchInv, v11 # <<>>, v11' = Tail(v11)
  PROVE  /\ v11' \in Seq(GuestMessages) /\ 1 \in DOMAIN v11 /\ Head(v11) = v11[1]
         /\ DOMAIN v11' \subseteq Nat \ {0}
         /\ \A i \in DOMAIN v11' : i + 1 \in DOMAIN v11 /\ i + 1 > 1 /\ v11'[i] = v11[i + 1]
         /\ \A i \in DOMAIN v11 : i # 1 => i - 1 \in DOMAIN v11'
<1>1. v11 \in Seq(GuestMessages) /\ DOMAIN v11 = 1..Len(v11) /\ Len(v11) \in Nat BY WorkbenchFacts
<1> HIDE DEF GuestMessages
<1>2. Len(v11) >= 1 BY <1>1
<1>3. Tail(v11) \in Seq(GuestMessages) /\ Len(Tail(v11)) = Len(v11) - 1 BY <1>1
<1>4. DOMAIN v11' = 1..Len(v11) - 1 BY <1>1, <1>3
<1>5. \A i \in 1..Len(v11) - 1 : v11'[i] = v11[i + 1] BY <1>1
<1> QED BY <1>1, <1>2, <1>3, <1>4, <1>5

LEMMA CancelledShift ==
  ASSUME WorkbenchInv, v11 # <<>>, v11' = Tail(v11), NEW i \in Nat, NEW n, CancelledAfter(i + 1, n)
  PROVE  CancelledAfter(i, n)'
<1>1. PICK j \in DOMAIN v11 :
        /\ j > i + 1 /\ v11[j].op = "cancel" /\ v11[j].n = n
        /\ \A l \in DOMAIN v11 : i + 1 < l /\ l < j => v11[l].op # "navigate"
  BY DEF CancelledAfter
<1>2. j \in Nat /\ j # 1 BY <1>1, WorkbenchFacts
<1>3. PICK k : k = j - 1 OBVIOUS
<1>4. k \in DOMAIN v11' /\ v11'[k] = v11[j] /\ k > i
  <2>1. k \in DOMAIN v11' BY <1>2, <1>3, TakenFirst
  <2>2. v11'[k] = v11[k + 1] BY <2>1, TakenFirst
  <2> QED BY <1>1, <1>2, <1>3, <2>1, <2>2
<1>5. ASSUME NEW l \in DOMAIN v11', i < l, l < k PROVE v11'[l].op # "navigate"
  <2>1. l \in Nat /\ l + 1 \in DOMAIN v11 /\ v11'[l] = v11[l + 1] BY TakenFirst
  <2>2. i + 1 < l + 1 /\ l + 1 < j BY <1>2, <1>3, <1>5, <2>1
  <2> QED BY <1>1, <2>1, <2>2
<1> QED BY <1>1, <1>4, <1>5 DEF CancelledAfter

LEMMA TakenUnderway ==
  ASSUME WorkbenchInv, v11 # <<>>, v11' = Tail(v11), UNCHANGED <<v3, v4, v5>>,
         v10' = v10 \/ (v11[1].op = "navigate" /\ v10' = v11[1].n), v9' # 0 => Owed(0, v9)'
  PROVE  Underway'
<1>1. ASSUME NEW i \in DOMAIN v11'
      PROVE  /\ v11'[i].n <= v3'
             /\ v11'[i].op = "navigate" => v11'[i].n > v10' /\ Owed(i, v11[i].n)'
  <2>1. /\ i \in Nat /\ i + 1 \in DOMAIN v11 /\ i + 1 > 1 /\ v11'[i] = v11[i + 1] /\ 1 \in DOMAIN v11
    BY TakenFirst
  <2>2. PICK k : k = i + 1 OBVIOUS
  <2>3. k \in DOMAIN v11 /\ 1 < k /\ v11'[i] = v11[k] BY <2>1, <2>2
  <2>4. PICK n \in 1..MaxSeq : n = v11[k].n /\ n <= v3 BY <2>3, WorkbenchFacts
  <2>5. ASSUME v11[k].op = "navigate" PROVE n > v10' /\ Owed(i, n)'
    <3>1. n > v10 /\ Owed(k, n) BY <2>3, <2>4, <2>5 DEF WorkbenchInv, Underway
    <3>2. v11[1].n < n BY <2>1, <2>3, <2>4, <2>5 DEF WorkbenchInv, Underway
    <3>3. v11[1].n \in 1..MaxSeq BY <2>1, WorkbenchFacts
    <3>4. n > v10' BY <2>4, <3>1, <3>2, <3>3
    <3>5. CancelledAfter(k, n) => CancelledAfter(i, n)' BY <2>1, <2>2, CancelledShift
    <3>6. Lost(n) => Lost(n)' BY DEF Lost
    <3> QED BY <3>1, <3>4, <3>5, <3>6 DEF Owed
  <2> QED BY <2>3, <2>4, <2>5
<1>2. ASSUME NEW i \in DOMAIN v11', NEW j \in DOMAIN v11', i < j, v11'[j].op = "navigate"
      PROVE  v11'[i].n < v11'[j].n
  <2>1. /\ i \in Nat /\ j \in Nat /\ i + 1 \in DOMAIN v11 /\ v11'[i] = v11[i + 1]
        /\ j + 1 \in DOMAIN v11 /\ v11'[j] = v11[j + 1]
    BY TakenFirst
  <2>2. i + 1 < j + 1 BY <1>2, <2>1
  <2> QED BY <1>2, <2>1, <2>2 DEF WorkbenchInv, Underway
<1> QED BY <1>1, <1>2 DEF Underway

LEMMA RequestTaken == ASSUME WorkbenchInv, Workbench!onRequest PROVE WorkbenchStepOK
<1>1. /\ v11 # <<>> /\ v11' = Tail(v11) /\ UNCHANGED <<v1, v2, v3, v4, v5, v6, v7, v8>>
  BY DEF Workbench!onRequest, Workbench!main
<1>2. PICK m : m = v11[1] OBVIOUS
<1>3. /\ 1 \in DOMAIN v11 /\ m = Head(v11) /\ v11' \in Seq(GuestMessages) /\ m.op \in {"navigate", "cancel"}
      /\ m.n \in 1..MaxSeq /\ m.n <= v3
  BY <1>1, <1>2, TakenFirst, WorkbenchFacts
<1>4. \A k : Lost(k) => Lost(k)' BY <1>1 DEF Lost
<1>5. ASSUME NEW n \in 1..MaxSeq, Owed(0, n), n # m.n \/ m.op # "cancel",
             m.op = "navigate" => n < m.n
      PROVE  Owed(0, n)' /\ (m.op = "navigate" => Lost(n))
  <2>1. n = v4 => Owed(0, n)' BY <1>1 DEF Owed
  <2>2. m.op = "navigate" => n # v4 BY <1>3, <1>5, WorkbenchFacts
  <2>3. ASSUME CancelledAfter(0, n) PROVE CancelledAfter(0, n)' /\ m.op # "navigate"
    <3>1. PICK j \in DOMAIN v11 :
            /\ j > 0 /\ v11[j].op = "cancel" /\ v11[j].n = n
            /\ \A l \in DOMAIN v11 : 0 < l /\ l < j => v11[l].op # "navigate"
      BY <2>3 DEF CancelledAfter
    <3>2. j # 1 /\ j \in Nat BY <1>2, <1>5, <3>1, WorkbenchFacts
    <3>3. j > 1 BY <3>1, <3>2
    <3>4. m.op # "navigate" BY <1>2, <1>3, <3>1, <3>3
    <3>5. \A l \in DOMAIN v11 : 1 < l /\ l < j => v11[l].op # "navigate" BY <3>1, WorkbenchFacts
    <3>6. CancelledAfter(1, n) BY <3>1, <3>3, <3>5 DEF CancelledAfter
    <3>7. 0 \in Nat /\ 0 + 1 = 1 OBVIOUS
    <3>8. CancelledAfter(0, n)' BY <1>1, <3>6, <3>7, CancelledShift
    <3> QED BY <3>4, <3>8
  <2> QED BY <1>4, <1>5, <2>1, <2>2, <2>3 DEF Owed
<1>6. \A j \in DOMAIN v11' : \E i \in DOMAIN v11 : i > 1 /\ v11'[j] = v11[i] BY <1>1, TakenFirst
<1>7. \A j \in DOMAIN v11' : v11'[j].op = "navigate" => v11'[j].n # m.n
  <2> SUFFICES ASSUME NEW j \in DOMAIN v11', v11'[j].op = "navigate" PROVE v11'[j].n # m.n OBVIOUS
  <2>1. PICK i \in DOMAIN v11 : i > 1 /\ v11'[j] = v11[i] BY <1>6
  <2>2. v11[1].n < v11[i].n BY <1>3, <2>1, WorkbenchFacts DEF WorkbenchInv, Underway
  <2> QED BY <1>2, <1>3, <2>1, <2>2
<1>8. ASSUME NEW r, Answered(r), r.n # v9' PROVE Answered(r)'
  <2>1. \A j \in DOMAIN v11' : v11'[j].op = "navigate" => v11'[j].n # r.n
    BY <1>6, <1>8 DEF Answered
  <2> QED BY <1>1, <1>4, <1>8, <2>1 DEF Answered
<1>9. ASSUME v9' \in 0..v10', v10' \in 0..v3, ~v8 => v9' = 0, v12' \in Seq(MainMessages), Returning',
             v10' = v10 \/ (m.op = "navigate" /\ v10' = m.n), v9' # 0 => Owed(0, v9)'
      PROVE  WorkbenchStepOK
  <2>1. WorkbenchTypes' BY <1>1, <1>3, <1>9 DEF WorkbenchInv, WorkbenchTypes
  <2>2. Ended' BY <1>1 DEF WorkbenchInv, Ended, Lost
  <2>3. Underway' BY <1>1, <1>2, <1>9, TakenUnderway
  <2>4. Workbench!ConfirmedStep BY <1>1, Confirms
  <2> QED BY <1>9, <2>1, <2>2, <2>3, <2>4 DEF WorkbenchStepOK, WorkbenchInv
<1>10. ASSUME NEW i \in DOMAIN v12, v12[i].kind = "reply", NEW r, r = v12[i], v9' \in {0, v9} PROVE Answered(r)'
  <2>1. Answered(r) /\ r.n \in 1..MaxSeq BY <1>10, WorkbenchFacts
  <2>2. r.n # 0 BY <2>1, WorkbenchAssumption
  <2> QED BY <1>8, <1>10, <2>1, <2>2 DEF Answered
<1>11. v9 \in 0..v10 /\ v10 \in 0..v3 /\ v3 \in 0..MaxSeq /\ MaxSeq \in Nat /\ v12 \in Seq(MainMessages)
  BY WorkbenchFacts
<1>12. CASE ~v8
  <2>1. UNCHANGED <<v9, v10, v12>> BY <1>12 DEF Workbench!onRequest
  <2>2. v9 = 0 BY <1>12 DEF WorkbenchInv, WorkbenchTypes
  <2>3. Returning' BY <1>10, <2>1 DEF Returning
  <2> QED BY <1>9, <1>11, <2>1, <2>2, <2>3
<1>13. CASE v8 /\ m.op = "cancel"
  <2>1. PICK code \in {"cancelled", "stale"} :
          /\ v9' = IF v9 = m.n THEN 0 ELSE v9
          /\ v12' = Workbench!Reply(m.n, code) /\ v10' = v10
    BY <1>3, <1>13 DEF Workbench!onRequest
  <2>2. code \in Workbench!Ends /\ code # "busy" BY DEF Workbench!Ends
  <2>3. m.n # v9' /\ m.n <= v3' /\ v9' \in {0, v9} BY <1>1, <1>3, <2>1, WorkbenchAssumption
  <2>4. v12' \in Seq(MainMessages) /\ Returning'
    <3>1. PICK n \in 1..MaxSeq : n = m.n BY <1>3
    <3>2. v12' = Workbench!Reply(n, code) /\ v6' = v6 /\ n <= v3' /\ n # v9' BY <1>1, <2>1, <2>3, <3>1
    <3>3. \A j \in DOMAIN v11' : v11'[j].op = "navigate" => v11'[j].n # n BY <1>7, <3>1
    <3>4. \A i \in DOMAIN v12 : v12[i].kind = "reply" => \A r : r = v12[i] => Answered(r)' BY <1>10, <2>3
    <3> QED BY <2>2, <3>2, <3>3, <3>4, ReplySent
  <2>5. v9' # 0 => Owed(0, v9)'
    <3> SUFFICES ASSUME v9' # 0 PROVE Owed(0, v9)' OBVIOUS
    <3>1. v9' = v9 /\ v9 # m.n /\ v9 # 0 BY <2>1
    <3>2. PICK n \in 1..MaxSeq : n = v9 BY <1>11, <3>1
    <3>3. Owed(0, n) BY <3>1, <3>2 DEF WorkbenchInv, Underway
    <3>4. Owed(0, n)' BY <1>5, <1>13, <3>1, <3>2, <3>3
    <3> QED BY <3>1, <3>2, <3>4
  <2>6. v9' \in 0..v10' /\ v10' \in 0..v3 BY <1>11, <2>1, <2>3
  <2> QED BY <1>9, <1>13, <2>1, <2>4, <2>5, <2>6
<1>14. CASE v8 /\ m.op = "navigate"
  <2>1. m.n > v10 /\ Owed(1, m.n) BY <1>2, <1>3, <1>14 DEF WorkbenchInv, Underway
  <2>2. ~(m.n <= v10) BY <1>3, <1>11, <2>1
  <2>3. /\ v10' = m.n
        /\ IF v9 # 0 THEN v12' = Workbench!Reply(m.n, "busy") /\ v9' = v9
           ELSE v9' = m.n /\ v12' = v12
    BY <1>3, <1>14, <2>2 DEF Workbench!onRequest
  <2>4. PICK n \in 1..MaxSeq : n = m.n BY <1>3
  <2>5. CASE v9 # 0
    <3>1. v12' = Workbench!Reply(n, "busy") /\ v9' = v9 BY <2>3, <2>4, <2>5
    <3>2. PICK c \in 1..MaxSeq : c = v9 /\ c < m.n BY <1>3, <1>11, <2>1, <2>5
    <3>3. Owed(0, c) BY <2>5, <3>2 DEF WorkbenchInv, Underway
    <3>4. Owed(0, c)' /\ Lost(c) BY <1>5, <1>14, <3>2, <3>3
    <3>5. Lost(n)'
      <4>1. PICK k \in 1..c : v5[k] = "unavailable" BY <3>4 DEF Lost
      <4>2. k \in 1..n BY <1>11, <2>4, <3>2, <4>1
      <4> QED BY <1>1, <4>1, <4>2 DEF Lost
    <3>6. "busy" \in Workbench!Ends BY DEF Workbench!Ends
    <3>7. v6' = v6 /\ n <= v3' /\ n # v9' BY <1>1, <1>3, <2>4, <3>1, <3>2
    <3>8. \A j \in DOMAIN v11' : v11'[j].op = "navigate" => v11'[j].n # n BY <1>7, <2>4
    <3>9. \A i \in DOMAIN v12 : v12[i].kind = "reply" => \A r : r = v12[i] => Answered(r)' BY <1>10, <3>1
    <3>10. v12' \in Seq(MainMessages) /\ Returning' BY <3>1, <3>5, <3>6, <3>7, <3>8, <3>9, ReplySent
    <3>11. v9' # 0 => Owed(0, v9)' BY <3>1, <3>2, <3>4
    <3>12. v9' \in 0..v10' /\ v10' \in 0..v3 BY <1>3, <1>11, <2>3, <3>1, <3>2
    <3> QED BY <1>9, <1>14, <2>3, <3>10, <3>11, <3>12
  <2>6. CASE v9 = 0
    <3>1. v9' = n /\ v12' = v12 BY <2>3, <2>4, <2>6
    <3>2. Owed(0, n)'
      <4>1. n = v4 => n = v4' BY <1>1
      <4>2. CancelledAfter(1, n) => CancelledAfter(0, n)'
        <5>1. 0 \in Nat /\ 0 + 1 = 1 OBVIOUS
        <5> QED BY <1>1, <5>1, CancelledShift
      <4> QED BY <1>4, <2>1, <2>4, <4>1, <4>2 DEF Owed
    <3>3. v9' # 0 => Owed(0, v9)' BY <3>1, <3>2
    <3>4. ASSUME NEW i \in DOMAIN v12, v12[i].kind = "reply" PROVE Answered(v12[i])'
      <4>1. PICK r : r = v12[i] OBVIOUS
      <4>2. Answered(r) BY <3>4, <4>1, WorkbenchFacts
      <4>3. r.n # v9' BY <1>2, <1>3, <1>14, <2>4, <3>1, <4>2 DEF Answered
      <4>4. Answered(r)' BY <1>8, <4>2, <4>3
      <4> QED BY <3>1, <4>1, <4>4
    <3>5. Returning' BY <3>1, <3>4 DEF Returning
    <3>6. v9' \in 0..v10' /\ v10' \in 0..v3 BY <1>3, <1>11, <2>3, <2>4, <3>1
    <3> QED BY <1>9, <1>11, <1>14, <2>3, <3>1, <3>3, <3>5, <3>6
  <2> QED BY <2>5, <2>6
<1> QED BY <1>3, <1>12, <1>13, <1>14

\* Every step keeps the invariant and confirms only what the page shown was asked.
LEMMA WorkbenchSteps == ASSUME WorkbenchInv, Workbench!Next PROVE WorkbenchInv' /\ Workbench!ConfirmedStep
<1>1. WorkbenchStepOK
  BY RegisterSteps, TakenBackSteps, RequestSteps, BindSteps, RequestTaken, AdmitSteps, NavigateSteps,
     ClientSteps DEF Workbench!Next
<1> QED BY <1>1 DEF WorkbenchStepOK

-----------------------------------------------------------------------------
(* The record store: what JsonRepositoryProofs says, at the bounds of the run. *)

RepositoryProofs == INSTANCE JsonRepositoryProofs WITH
  Calls <- {1, 2}, Versions <- {1, 2}, version <- v1, storage <- v2, calls <- v3
MigrationsProofs == INSTANCE JsonRepositoryProofs WITH
  Calls <- {1}, Versions <- {1, 2, 3}, version <- v1, storage <- v2, calls <- v3

\* The store of the run is the one the proofs speak of.
LEMMA RepositoryIsProved ==
  /\ RepositoryProofs!Constants
  /\ Repository!Init => RepositoryProofs!Init
  /\ Repository!Next => RepositoryProofs!Move
  /\ RepositoryProofs!BatchStep => Repository!BatchStep
<1> USE DEF Repository!vars, RepositoryProofs!vars, Repository!legacyVersion,
        RepositoryProofs!legacyVersion, Repository!Raw, RepositoryProofs!Raw, Repository!Idle,
        RepositoryProofs!Idle, Repository!encodeRepositoryRecord,
        RepositoryProofs!encodeRepositoryRecord, Repository!Done, RepositoryProofs!Done,
        Repository!Finish, RepositoryProofs!Finish, Repository!Blur, RepositoryProofs!Blur,
        Repository!Ask, RepositoryProofs!Ask, Repository!save, RepositoryProofs!save,
        Repository!rollback, RepositoryProofs!rollback, Repository!batchRead,
        RepositoryProofs!batchRead, Repository!batchWrite, RepositoryProofs!batchWrite,
        Repository!batchUndo, RepositoryProofs!batchUndo, Repository!Install,
        RepositoryProofs!Install, Repository!Init, RepositoryProofs!Init, Repository!BatchStep,
        RepositoryProofs!BatchStep
<1>1. Repository!Init => RepositoryProofs!Init OBVIOUS
<1>2. Repository!Install => RepositoryProofs!Install OBVIOUS
<1>3. RepositoryProofs!BatchStep => Repository!BatchStep OBVIOUS
<1>4. RepositoryProofs!Constants BY RecordsAssumption DEF RepositoryProofs!Constants
<1>5. \A c \in {1, 2} : Repository!get(c) => RepositoryProofs!Got(c) BY DEF Repository!get, RepositoryProofs!Got
<1>6. \A c \in {1, 2} : Repository!save(c) => RepositoryProofs!save(c) OBVIOUS
<1>7. \A c \in {1, 2} : Repository!batchRead(c) => RepositoryProofs!batchRead(c) OBVIOUS
<1>8. \A c \in {1, 2} : Repository!batchWrite(c) => RepositoryProofs!batchWrite(c) OBVIOUS
<1>9. \A c \in {1, 2} : Repository!batchUndo(c) => RepositoryProofs!batchUndo(c) OBVIOUS
<1>10. \A c \in {1, 2}, op \in {"get", "save", "saveMany", "remove"} : Repository!Ask(c, op) => RepositoryProofs!Ask(c, op)
  OBVIOUS
<1> HIDE DEF Repository!vars, RepositoryProofs!vars, Repository!legacyVersion,
        RepositoryProofs!legacyVersion, Repository!Raw, RepositoryProofs!Raw, Repository!Idle,
        RepositoryProofs!Idle, Repository!encodeRepositoryRecord,
        RepositoryProofs!encodeRepositoryRecord, Repository!Done, RepositoryProofs!Done,
        Repository!Finish, RepositoryProofs!Finish, Repository!Blur, RepositoryProofs!Blur,
        Repository!Ask, RepositoryProofs!Ask, Repository!save, RepositoryProofs!save,
        Repository!rollback, RepositoryProofs!rollback, Repository!batchRead,
        RepositoryProofs!batchRead, Repository!batchWrite, RepositoryProofs!batchWrite,
        Repository!batchUndo, RepositoryProofs!batchUndo, Repository!Install,
        RepositoryProofs!Install, Repository!Init, RepositoryProofs!Init, Repository!BatchStep,
        RepositoryProofs!BatchStep
<1>11. Repository!Next => RepositoryProofs!Move
  BY <1>2, <1>5, <1>6, <1>7, <1>8, <1>9, <1>10 DEF Repository!Next, RepositoryProofs!Move
<1> QED BY <1>1, <1>3, <1>4, <1>11

\* The store of the run is the one the proofs speak of.
LEMMA MigrationsIsProved ==
  /\ MigrationsProofs!Constants
  /\ Migrations!Init => MigrationsProofs!Init
  /\ Migrations!Next => MigrationsProofs!Move
  /\ MigrationsProofs!BatchStep => Migrations!BatchStep
<1> USE DEF Migrations!vars, MigrationsProofs!vars, Migrations!legacyVersion,
        MigrationsProofs!legacyVersion, Migrations!Raw, MigrationsProofs!Raw, Migrations!Idle,
        MigrationsProofs!Idle, Migrations!encodeRepositoryRecord,
        MigrationsProofs!encodeRepositoryRecord, Migrations!Done, MigrationsProofs!Done,
        Migrations!Finish, MigrationsProofs!Finish, Migrations!Blur, MigrationsProofs!Blur,
        Migrations!Ask, MigrationsProofs!Ask, Migrations!save, MigrationsProofs!save,
        Migrations!rollback, MigrationsProofs!rollback, Migrations!batchRead,
        MigrationsProofs!batchRead, Migrations!batchWrite, MigrationsProofs!batchWrite,
        Migrations!batchUndo, MigrationsProofs!batchUndo, Migrations!Install,
        MigrationsProofs!Install, Migrations!Init, MigrationsProofs!Init, Migrations!BatchStep,
        MigrationsProofs!BatchStep
<1>1. Migrations!Init => MigrationsProofs!Init OBVIOUS
<1>2. Migrations!Install => MigrationsProofs!Install OBVIOUS
<1>3. MigrationsProofs!BatchStep => Migrations!BatchStep OBVIOUS
<1>4. MigrationsProofs!Constants BY RecordsAssumption DEF MigrationsProofs!Constants
<1>5. \A c \in {1} : Migrations!get(c) => MigrationsProofs!Got(c) BY DEF Migrations!get, MigrationsProofs!Got
<1>6. \A c \in {1} : Migrations!save(c) => MigrationsProofs!save(c) OBVIOUS
<1>7. \A c \in {1} : Migrations!batchRead(c) => MigrationsProofs!batchRead(c) OBVIOUS
<1>8. \A c \in {1} : Migrations!batchWrite(c) => MigrationsProofs!batchWrite(c) OBVIOUS
<1>9. \A c \in {1} : Migrations!batchUndo(c) => MigrationsProofs!batchUndo(c) OBVIOUS
<1>10. \A c \in {1}, op \in {"get", "save", "saveMany", "remove"} : Migrations!Ask(c, op) => MigrationsProofs!Ask(c, op)
  OBVIOUS
<1> HIDE DEF Migrations!vars, MigrationsProofs!vars, Migrations!legacyVersion,
        MigrationsProofs!legacyVersion, Migrations!Raw, MigrationsProofs!Raw, Migrations!Idle,
        MigrationsProofs!Idle, Migrations!encodeRepositoryRecord,
        MigrationsProofs!encodeRepositoryRecord, Migrations!Done, MigrationsProofs!Done,
        Migrations!Finish, MigrationsProofs!Finish, Migrations!Blur, MigrationsProofs!Blur,
        Migrations!Ask, MigrationsProofs!Ask, Migrations!save, MigrationsProofs!save,
        Migrations!rollback, MigrationsProofs!rollback, Migrations!batchRead,
        MigrationsProofs!batchRead, Migrations!batchWrite, MigrationsProofs!batchWrite,
        Migrations!batchUndo, MigrationsProofs!batchUndo, Migrations!Install,
        MigrationsProofs!Install, Migrations!Init, MigrationsProofs!Init, Migrations!BatchStep,
        MigrationsProofs!BatchStep
<1>11. Migrations!Next => MigrationsProofs!Move
  BY <1>2, <1>5, <1>6, <1>7, <1>8, <1>9, <1>10 DEF Migrations!Next, MigrationsProofs!Move
<1> QED BY <1>1, <1>3, <1>4, <1>11

-----------------------------------------------------------------------------
(* An answer is about what was asked. *)

\* The invariants of the components that answer.
AnswersInv ==
  /\ part = "workbench" => WorkbenchInv
  /\ part = "remote" => RemoteInv
  /\ part = "repository" => RepositoryProofs!IInv
  /\ part = "migrations" => MigrationsProofs!IInv
\* What a step of any of them does.
AnswersStep ==
  /\ part = "workbench" => Workbench!ConfirmedStep
  /\ part = "remote" => Remote!EditStep /\ Remote!CloseStep
  /\ part = "repository" => Repository!BatchStep
  /\ part = "migrations" => Migrations!BatchStep

\* They hold at the start.
LEMMA AnswersStart == ASSUME Init PROVE AnswersInv
<1>1. Repository!Init => RepositoryProofs!IInv BY RepositoryIsProved, RepositoryProofs!Starts
<1>2. Migrations!Init => MigrationsProofs!IInv BY MigrationsIsProved, MigrationsProofs!Starts
<1> QED BY <1>1, <1>2, WorkbenchStarts, RemoteStarts
   DEF AnswersInv, Init, UpdateInit, WindowInit, LifecycleInit, HelperInit, ZoomInit,
       WorkbenchInit, HarnessRunInit, HarnessTreeInit, PluginsInit, RootsInit,
       InstalledInit, SeedInit, UsageInit, RemoteInit, TelemetryInit,
       RepositoryInit, MigrationsInit

\* A step of the run keeps them and answers what was asked.
LEMMA AnswersSteps == ASSUME AnswersInv, Next PROVE AnswersInv' /\ AnswersStep
<1>1. CASE WorkbenchStep
  <2>1. part = "workbench" /\ part' = part /\ Workbench!Next /\ WorkbenchInv
    BY <1>1 DEF WorkbenchStep, AnswersInv
  <2>2. WorkbenchInv' /\ Workbench!ConfirmedStep BY <2>1, WorkbenchSteps
  <2> QED BY <2>1, <2>2 DEF AnswersInv, AnswersStep
<1>2. CASE RemoteStep
  <2>1. part = "remote" /\ part' = part /\ Remote!Next /\ RemoteInv BY <1>2 DEF RemoteStep, AnswersInv
  <2>2. RemoteInv' /\ Remote!EditStep /\ Remote!CloseStep BY <2>1, RemoteSteps DEF RemoteStepOK
  <2> QED BY <2>1, <2>2 DEF AnswersInv, AnswersStep
<1>3. CASE RepositoryStep
  <2>1. part = "repository" /\ part' = part /\ Repository!Next /\ RepositoryProofs!IInv
    BY <1>3 DEF RepositoryStep, AnswersInv
  <2>2. RepositoryProofs!Move /\ RepositoryProofs!Constants BY <2>1, RepositoryIsProved
  <2>3. RepositoryProofs!IInv' /\ RepositoryProofs!BatchStep BY <2>1, <2>2, RepositoryProofs!Steps
  <2>4. Repository!BatchStep BY <2>3, RepositoryIsProved
  <2> QED BY <2>1, <2>3, <2>4 DEF AnswersInv, AnswersStep
<1>4. CASE MigrationsStep
  <2>1. part = "migrations" /\ part' = part /\ Migrations!Next /\ MigrationsProofs!IInv
    BY <1>4 DEF MigrationsStep, AnswersInv
  <2>2. MigrationsProofs!Move /\ MigrationsProofs!Constants BY <2>1, MigrationsIsProved
  <2>3. MigrationsProofs!IInv' /\ MigrationsProofs!BatchStep BY <2>1, <2>2, MigrationsProofs!Steps
  <2>4. Migrations!BatchStep BY <2>3, MigrationsIsProved
  <2> QED BY <2>1, <2>3, <2>4 DEF AnswersInv, AnswersStep
<1>5. CASE ~(WorkbenchStep \/ RemoteStep \/ RepositoryStep \/ MigrationsStep)
  <2>1. /\ part \notin {"workbench", "remote", "repository", "migrations"}
        /\ part' \notin {"workbench", "remote", "repository", "migrations"}
    BY <1>5 DEF Next, UpdateStep, WindowStep, LifecycleStep, HelperStep, ZoomStep, HarnessRunStep,
       HarnessTreeStep, PluginsStep, RootsStep, InstalledStep, SeedStep, UsageStep, TelemetryStep
  <2> QED BY <2>1 DEF AnswersInv, AnswersStep
<1> QED BY <1>1, <1>2, <1>3, <1>4, <1>5

\* A step that changes nothing keeps them.
LEMMA AnswersStutter == ASSUME AnswersInv, UNCHANGED vars PROVE AnswersInv'
<1>1. UNCHANGED <<part, v1, v2, v3, v4, v5, v6, v7, v8, v9, v10, v11, v12>> BY DEF vars
<1>2. WorkbenchInv => WorkbenchInv'
  <2>1. WorkbenchTypes => WorkbenchTypes' BY <1>1 DEF WorkbenchTypes
  <2>2. (Ended => Ended') /\ (Underway => Underway') /\ (Returning => Returning')
    BY <1>1 DEF Ended, Underway, Returning, Answered, Owed, CancelledAfter, Lost
  <2> QED BY <2>1, <2>2 DEF WorkbenchInv
<1>3. RemoteInv => RemoteInv' BY <1>1 DEF RemoteInv, RemoteOp
<1>4. RepositoryProofs!IInv => RepositoryProofs!IInv'
  <2>1. UNCHANGED RepositoryProofs!vars BY <1>1 DEF RepositoryProofs!vars
  <2> QED BY <2>1, RepositoryIsProved, RepositoryProofs!Steps
<1>5. MigrationsProofs!IInv => MigrationsProofs!IInv'
  <2>1. UNCHANGED MigrationsProofs!vars BY <1>1 DEF MigrationsProofs!vars
  <2> QED BY <2>1, MigrationsIsProved, MigrationsProofs!Steps
<1> QED BY <1>1, <1>2, <1>3, <1>4, <1>5 DEF AnswersInv

\* An answer is about what was asked, for every number of requests, documents, computers, records
\* and calls made at once: a workbench is confirmed by the document that was asked
\* (workbench-guests.ts); a remote computer is edited from what the user saw, and closed only once
\* saved (RemoteSSHManagementPanel.vue); a batch of records is written whole or not at all
\* (runtime.ts applyRepositoryBatch).
THEOREM AnswersAreTheirOwnHolds == Spec => AnswersAreTheirOwn
<1>1. Init => AnswersInv BY AnswersStart
<1>2. AnswersInv /\ [Next]_vars => AnswersInv' BY AnswersSteps, AnswersStutter
<1>3. AnswersInv /\ [Next]_vars => [part = "workbench" => Workbench!ConfirmedStep]_vars
  BY AnswersSteps DEF AnswersStep
<1>4. AnswersInv /\ [Next]_vars => [part = "remote" => Remote!EditStep /\ Remote!CloseStep]_vars
  BY AnswersSteps DEF AnswersStep
<1>5. AnswersInv /\ [Next]_vars => [part = "repository" => Repository!BatchStep]_vars
  BY AnswersSteps DEF AnswersStep
<1>6. AnswersInv /\ [Next]_vars => [part = "migrations" => Migrations!BatchStep]_vars
  BY AnswersSteps DEF AnswersStep
<1> QED BY <1>1, <1>2, <1>3, <1>4, <1>5, <1>6, PTL DEF Spec, AnswersAreTheirOwn
=============================================================================
