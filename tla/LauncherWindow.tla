--------------------------- MODULE LauncherWindow ---------------------------
(***************************************************************************)
(* Where the launcher's window stands: electron/main/window.ts and the     *)
(* geometry of window-placement.ts.  Lengths are in units of a grid; the   *)
(* displays come and go, the user drags the window anywhere, minimizes it  *)
(* or makes it fill a screen, and the last place is remembered for the     *)
(* next window.                                                            *)
(***************************************************************************)
EXTENDS Integers, Sequences, FiniteSets

CONSTANTS
  Areas,               \* work areas of the displays there may be
  Spots,               \* places the user or the platform may put the window
  MIN_VISIBLE_WIDTH,
  MIN_VISIBLE_HEIGHT

VARIABLES
  displays,  \* the work areas of the displays attached, in the system's order
  win,       \* the window's bounds
  shown,     \* "closed", "loading", "shown", "minimized" or "fullscreen"
  place,     \* history: whose place it is.  "own": the user or the platform put
             \* it there, or the layout changed while it was minimized or full
             \* screen; "kept": the code looked and left it; "brought": it moved it
  saved      \* launcher-window-state.json

vars == <<displays, win, shown, place, saved>>

lesser(a, b) == IF a < b THEN a ELSE b
greater(a, b) == IF a < b THEN b ELSE a

overlap(r, a) ==
  [w |-> greater(0, lesser(r.x + r.w, a.x + a.w) - greater(r.x, a.x)),
   h |-> greater(0, lesser(r.y + r.h, a.y + a.h) - greater(r.y, a.y))]

\* Any common point will do.
isVisible(r, ds) ==
  \E i \in DOMAIN ds : overlap(r, ds[i]).w > 0 /\ overlap(r, ds[i]).h > 0

isReachable(r, ds) ==
  \E i \in DOMAIN ds : /\ overlap(r, ds[i]).w >= MIN_VISIBLE_WIDTH
                       /\ overlap(r, ds[i]).h >= MIN_VISIBLE_HEIGHT

\* The first of the displays with the largest common area
bestHost(r, ds) ==
  LET score(i) == overlap(r, ds[i]).w * overlap(r, ds[i]).h
  IN ds[CHOOSE i \in DOMAIN ds :
          \A j \in DOMAIN ds : score(i) >= score(j) /\ (score(i) = score(j) => i <= j)]

\* Clamped into the host; centred when it had to shrink (halves round up)
placeInLayout(r, ds) ==
  IF ds = <<>> \/ isReachable(r, ds) THEN r
  ELSE LET host == bestHost(r, ds)
           w == lesser(r.w, host.w)
           h == lesser(r.h, host.h)
       IN IF w # r.w \/ h # r.h
          THEN [x |-> host.x + (host.w - w + 1) \div 2,
                y |-> host.y + (host.h - h + 1) \div 2, w |-> w, h |-> h]
          ELSE [x |-> lesser(greater(r.x, host.x), host.x + host.w - w),
                y |-> lesser(greater(r.y, host.y), host.y + host.h - h), w |-> w, h |-> h]

\* The window is looked at in a layout: left where it is or brought back.
Look(ds) ==
  /\ win' = placeInLayout(win, ds)
  /\ place' = IF ds = <<>> THEN "own" ELSE IF win' = win THEN "kept" ELSE "brought"

\* createWindow at the remembered place; the platform may then put it elsewhere
\* before it is shown, which is not remembered.
createWindow(platform) ==
  /\ shown = "closed"
  /\ win' \in {placeInLayout(saved, displays), platform}
  /\ shown' = "loading" /\ place' = "own"
  /\ UNCHANGED <<displays, saved>>

\* ready-to-show
ensureOnScreen ==
  /\ shown = "loading" /\ Look(displays)
  /\ shown' = "shown"
  /\ UNCHANGED <<displays, saved>>

\* move and resize of a window that is up are remembered, wherever it goes
Moved(r) == win' = r /\ saved' = r /\ place' = "own"

Drag(r) ==
  /\ shown = "shown" /\ Moved(r)
  /\ UNCHANGED <<displays, shown>>

\* A display is attached, removed or resized: a window that is neither minimized
\* nor full screen is looked at, and a move is remembered like any other once
\* the window is up.
DisplaysChange(ds) ==
  /\ ds # displays /\ displays' = ds
  /\ IF shown \in {"loading", "shown"}
     THEN Look(ds) /\ saved' = IF shown = "shown" /\ win' # win THEN win' ELSE saved
     ELSE place' = "own" /\ UNCHANGED <<win, saved>>
  /\ UNCHANGED shown

Minimize ==
  /\ shown = "shown" /\ shown' = "minimized"
  /\ UNCHANGED <<displays, win, place, saved>>

\* restore, show, focus: the place is not looked at again
revealWindow ==
  /\ shown = "minimized" /\ shown' = "shown"
  /\ UNCHANGED <<displays, win, place, saved>>

\* The platform sizes a full-screen window and puts it back afterwards; both are
\* remembered.
EnterFullScreen ==
  /\ shown = "shown" /\ shown' = "fullscreen"
  /\ \E i \in DOMAIN displays : Moved(displays[i])
  /\ UNCHANGED displays

LeaveFullScreen(r) ==
  /\ shown = "fullscreen" /\ shown' = "shown" /\ Moved(r)
  /\ UNCHANGED displays

Close ==
  /\ shown \in {"shown", "minimized", "fullscreen"} /\ shown' = "closed"
  /\ UNCHANGED <<displays, win, place, saved>>

Layouts ==
  {<<>>} \cup {<<a>> : a \in Areas} \cup
  {<<a, b>> : a, b \in Areas}

Init ==
  /\ displays \in {<<a>> : a \in Areas} /\ win \in Spots /\ saved = win
  /\ shown = "closed" /\ place = "own"

Next ==
  \/ ensureOnScreen \/ Minimize \/ revealWindow \/ EnterFullScreen \/ Close
  \/ \E r \in Spots : createWindow(r) \/ Drag(r) \/ LeaveFullScreen(r)
  \/ \E ds \in Layouts : DisplaysChange(ds)

Spec == Init /\ [][Next]_vars

Rect == [x : Int, y : Int, w : Nat \ {0}, h : Nat \ {0}]

TypeOK ==
  /\ displays \in Layouts /\ win \in Rect /\ saved \in Rect
  /\ shown \in {"closed", "loading", "shown", "minimized", "fullscreen"}
  /\ place \in {"own", "kept", "brought"}

\* The cells of the grid a rectangle covers
Cells(r) == {<<x, y>> : x \in r.x..(r.x + r.w - 1), y \in r.y..(r.y + r.h - 1)}

\* A strip of the least size lies in both.
HasStrip(r, a) ==
  \E c \in Cells(r) \cap Cells(a) :
    Cells([x |-> c[1], y |-> c[2], w |-> MIN_VISIBLE_WIDTH, h |-> MIN_VISIBLE_HEIGHT])
      \subseteq Cells(r) \cap Cells(a)

(* What the code does about a window that a changed layout or an old place   *)
(* left off the screen: one it moves lies on one display as a whole, title   *)
(* bar included, and one it looks at and leaves has a strip of itself on     *)
(* some display, though perhaps not its title bar (placeInLayout,            *)
(* ensureOnScreen).  Nothing is said of a place the user or the platform     *)
(* chose since, or of a layout changed under a minimized or full-screen      *)
(* window, which ensureOnScreen leaves to them.                              *)
WindowIsReachable ==
  shown = "shown" /\ displays # <<>> =>
    /\ place = "kept" => \E i \in DOMAIN displays : HasStrip(win, displays[i])
    /\ place = "brought" => \E i \in DOMAIN displays : Cells(win) \subseteq Cells(displays[i])

(* The strip is of the draggable top edge, which is what the comment of      *)
(* window-placement.ts 19-27 asks for.  Refuted: a window is left where only *)
(* its lower part is on a display.                                           *)
TitleBarIsReachable ==
  shown = "shown" /\ displays # <<>> /\ place # "own" =>
    \E i \in DOMAIN displays :
      HasStrip([win EXCEPT !.h = MIN_VISIBLE_HEIGHT], displays[i])
=============================================================================
