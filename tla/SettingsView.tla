---------------------------- MODULE SettingsView ----------------------------
(***************************************************************************)
(* The settings page: the fixed port of DSH, start-at-boot, what closing   *)
(* the window does, and the theme with its list box.  Each card keeps a    *)
(* copy of something that is owned elsewhere: the port by the core, with   *)
(* another copy in the desktop process; the close behaviour by the desktop *)
(* process, whose tray menu changes it too; the registration by the core   *)
(* (and the command line tool); the theme by the document.  The cards      *)
(* share nothing, so one behaviour works with one card.  Texts are left    *)
(* out; the language card is a list box like the theme's.                  *)
(***************************************************************************)
EXTENDS Naturals, Integers, Sequences

CONSTANTS
  MinPort, MaxPort, \* LAUNCHER_HARNESS_MIN_PORT and _MAX_PORT
  Options,          \* number of entries of the list box
  Disabled,         \* those of them that are disabled
  MaxEdits          \* bound on the changes made behind the page's back

VARIABLES
  card,  \* the card the user works with
  port,  \* mode, draft, the setting the page last read, the one the desktop
         \* process holds, the one the core keeps, a change and a poll under way
  auto,  \* the start-at-boot switch and the registration behind it
  tray,  \* the close behaviour shown, the one in force, the read under way,
         \* the clicks the desktop process has not handled
  look,  \* theme chosen, system preference, theme applied, the list box
  edits  \* changes left to others

vars == <<card, port, auto, tray, look, edits>>

\* 0 stands for the automatic port, and as a draft for text that is no number.
Settings == {0} \cup MinPort .. MaxPort
Drafts == 0 .. MaxPort + 1

----------------------------------------------------------------------------
(* The port form. *)

\* The form is filled in from the setting the page has read; late (history):
\* the desktop process held another when this answer came.
seed(p, setting, late) ==
  [p EXCEPT !.read = setting, !.mode = IF setting = 0 THEN "auto" ELSE "fixed",
            !.draft = setting, !.late = late]

portError == port.mode = "fixed" /\ port.draft \notin MinPort .. MaxPort
chosen == IF port.mode = "auto" THEN 0 ELSE port.draft
loading == port.call # "none"
canApplyPort == ~portError /\ ~loading /\ port.read # -1 /\ chosen # port.read

chooseMode(m) ==
  /\ card = "port" /\ port.mode # m /\ port.read # -1
  /\ port' = [port EXCEPT !.mode = m]
  /\ UNCHANGED <<card, auto, tray, look, edits>>

typePort(d) ==
  /\ card = "port" /\ port.mode = "fixed" /\ port.draft # d /\ port.read # -1
  /\ port' = [port EXCEPT !.draft = d]
  /\ UNCHANGED <<card, auto, tray, look, edits>>

applyPort ==
  /\ card = "port" /\ canApplyPort
  /\ port' = [port EXCEPT !.call = "asked", !.asked = chosen]
  /\ UNCHANGED <<card, auto, tray, look, edits>>

\* What the desktop process holds: the automatic port until the core was
\* reached once.
loadPort(p) ==
  {p} \cup IF p.loaded THEN {} ELSE {[p EXCEPT !.held = p.saved, !.loaded = TRUE]}

\* The desktop process holds a change before the core has kept it, and again
\* when it has; a poll it had answered by then is overtaken.
setPort ==
  /\ card = "port" /\ port.call = "asked"
  /\ \E p \in loadPort(port) :
       port' = [p EXCEPT !.call = "held", !.held = p.asked, !.overtaken = @ \/ p.poll >= 0]
  /\ UNCHANGED <<card, auto, tray, look, edits>>

\* The core keeps it, or refuses, or its answer is lost; unkept (history): the
\* desktop process still holds what was not kept.
portSet ==
  /\ card = "port" /\ port.call = "held"
  /\ \/ port' = [port EXCEPT !.call = "answered", !.saved = port.asked,
                            !.held = port.asked, !.unkept = FALSE,
                            !.overtaken = @ \/ port.poll >= 0]
     \/ \E kept \in {port.saved, port.asked} :
          port' = [port EXCEPT !.call = "answered", !.saved = kept, !.unkept = TRUE]
  /\ UNCHANGED <<card, auto, tray, look, edits>>

\* An answer carries the state, and so does the read made after a refusal,
\* which may fail in turn.
setPortAnswered ==
  /\ card = "port" /\ port.call = "answered"
  /\ \/ port' = [seed(port, port.held, FALSE) EXCEPT !.call = "none"]
     \/ port.unkept /\ port' = [port EXCEPT !.call = "none", !.late = TRUE]
  /\ UNCHANGED <<card, auto, tray, look, edits>>

\* The state is polled, one read at a time and none begun during a change.
NoPoll == -2
Asked == -1
refreshSilently ==
  /\ card = "port" /\ ~loading /\ port.poll = NoPoll
  /\ port' = [port EXCEPT !.poll = Asked, !.overtaken = FALSE]
  /\ UNCHANGED <<card, auto, tray, look, edits>>

getState ==
  /\ card = "port" /\ port.poll = Asked
  /\ \E p \in loadPort(port) : port' = [p EXCEPT !.poll = p.held]
  /\ UNCHANGED <<card, auto, tray, look, edits>>

\* Each state read is a new object, so the form is filled in again.
readState ==
  /\ card = "port" /\ port.poll # NoPoll
  /\ \/ port.poll # Asked /\ port' = [seed(port, port.poll, port.overtaken) EXCEPT !.poll = NoPoll]
     \/ port' = [port EXCEPT !.poll = NoPoll, !.late = TRUE]
  /\ UNCHANGED <<card, auto, tray, look, edits>>

----------------------------------------------------------------------------
(* Start at boot. *)

\* Mutation of applyAutostart: a failed call reports its error and leaves the
\* switch in reach.
applyAutostartReports(a, ok, installed, supported) ==
  IF ok THEN [a EXCEPT !.shown = installed, !.supported = supported, !.error = FALSE]
  ELSE [a EXCEPT !.error = TRUE]

applyAutostart(a, ok, installed, supported) ==
  IF ok THEN [a EXCEPT !.shown = installed, !.supported = supported, !.error = FALSE]
  ELSE [a EXCEPT !.supported = FALSE, !.error = TRUE]

readAutostart ==
  /\ card = "autostart" /\ auto.call = "none" /\ (auto.error \/ ~auto.mounted)
  /\ auto' = [auto EXCEPT !.call = "read", !.mounted = TRUE]
  /\ UNCHANGED <<card, port, tray, look, edits>>

updateAutostart ==
  /\ card = "autostart" /\ auto.call = "none" /\ auto.supported
  /\ auto' = [auto EXCEPT !.call = IF auto.shown THEN "disable" ELSE "enable"]
  /\ UNCHANGED <<card, port, tray, look, edits>>

\* The core registers or refuses, on the machine's word.
CoreAutostart ==
  /\ card = "autostart" /\ auto.call \in {"read", "enable", "disable"}
  /\ \E machine \in {auto.machine} \cup IF auto.call = "read" THEN {} ELSE {auto.call = "enable"} :
       auto' = [auto EXCEPT !.call = "answer", !.machine = machine, !.answer = machine]
  /\ UNCHANGED <<card, port, tray, look, edits>>

\* The state the core answered, or no answer within the call's budget; with
\* no core running the state reads as unsupported.
autostartAnswered ==
  /\ card = "autostart" /\ auto.call # "none"
  /\ \/ /\ auto.call = "answer"
        /\ auto' = [applyAutostart(auto, TRUE, auto.answer, TRUE)
                      EXCEPT !.call = "none", !.stale = auto.answer # auto.machine]
     \/ auto' = [applyAutostart(auto, FALSE, FALSE, FALSE) EXCEPT !.call = "none"]
     \/ /\ auto.call # "answer"
        /\ auto' = [applyAutostart(auto, TRUE, FALSE, FALSE) EXCEPT !.call = "none"]
  /\ UNCHANGED <<card, port, tray, look, edits>>

\* The command line tool writes the same registration.
CommandLine ==
  /\ card = "autostart" /\ edits > 0
  /\ auto' = [auto EXCEPT !.machine = ~@, !.stale = TRUE]
  /\ edits' = edits - 1
  /\ UNCHANGED <<card, port, tray, look>>

----------------------------------------------------------------------------
(* What closing the window does. *)

Behaviors == {"minimize-to-tray", "quit"}
MaxClicks == 2 \* bound: clicks not handled yet

\* The choice is shown before it is in force, and nothing reads it back.
updateTrayBehavior(b) ==
  /\ card = "tray" /\ tray.shown # b /\ Len(tray.asked) < MaxClicks
  /\ tray' = [tray EXCEPT !.shown = b, !.asked = Append(@, b), !.stale = FALSE,
                          !.clicked = tray.reading # "done"]
  /\ UNCHANGED <<card, port, auto, look, edits>>

\* The desktop process handles the read made on entry and the clicks in order.
getCloseBehavior ==
  /\ card = "tray" /\ tray.reading = "asked"
  /\ tray' = [tray EXCEPT !.reading = tray.inForce, !.stale = FALSE]
  /\ UNCHANGED <<card, port, auto, look, edits>>
setCloseBehavior ==
  /\ card = "tray" /\ tray.reading # "asked" /\ tray.asked # <<>>
  /\ tray' = [tray EXCEPT !.inForce = Head(tray.asked), !.asked = Tail(@)]
  /\ UNCHANGED <<card, port, auto, look, edits>>

\* The entry of the tray's menu, which the page hears nothing of.
TrayMenu ==
  /\ card = "tray" /\ edits > 0
  /\ tray' = [tray EXCEPT !.inForce = CHOOSE b \in Behaviors : b # tray.inForce,
                          !.stale = TRUE]
  /\ edits' = edits - 1
  /\ UNCHANGED <<card, port, auto, look>>

\* The answer is shown whatever was clicked since; a refusal leaves what is shown.
trayAnswered ==
  /\ card = "tray" /\ tray.reading # "done"
  /\ \/ /\ tray.reading # "asked"
        /\ tray' = [tray EXCEPT !.shown = tray.reading, !.reading = "done",
                                !.stale = @ \/ tray.clicked]
     \/ tray' = [tray EXCEPT !.reading = "done", !.stale = @ \/ ~tray.clicked]
  /\ UNCHANGED <<card, port, auto, look, edits>>

----------------------------------------------------------------------------
(* The theme and its list box: entry 0 follows the system. *)

Themes == {"system", "dark", "light"}
Entry(i) == IF i = 0 THEN "system" ELSE IF i = 1 THEN "dark" ELSE "light"
IndexOf(t) == CHOOSE i \in 0 .. 2 : Entry(i) = t

resolved(t, light) == IF t = "system" THEN IF light THEN "light" ELSE "dark" ELSE t

applyResolvedTheme(l) == [l EXCEPT !.applied = resolved(l.theme, l.light)]

startTheme ==
  /\ card = "theme" /\ ~look.started
  /\ look' = [applyResolvedTheme(look) EXCEPT !.started = TRUE]
  /\ UNCHANGED <<card, port, auto, tray, edits>>

\* Mutation of SystemChanges: the listener leaves a page that follows the
\* system as it is.
SystemChangesUnapplied ==
  /\ card = "theme" /\ look.started /\ edits > 0
  /\ look' = [look EXCEPT !.light = ~@]
  /\ edits' = edits - 1
  /\ UNCHANGED <<card, port, auto, tray>>

SystemChanges ==
  /\ card = "theme" /\ look.started /\ edits > 0
  /\ look' = applyResolvedTheme([look EXCEPT !.light = ~@])
  /\ edits' = edits - 1
  /\ UNCHANGED <<card, port, auto, tray>>

setTheme(l, t) == applyResolvedTheme([l EXCEPT !.theme = t])

\* Mutation of nextEnabledIndex: the next entry, disabled or not, past the ends.
nextEnabledIndexPlain(from, step) == from + step

\* The nearest enabled entry in one direction, around the ends.
nextEnabledIndex(from, step) ==
  LET at(n) == (from + n * step + n * Options) % Options
      hits == {n \in 1 .. Options : at(n) \notin Disabled}
  IN IF hits = {} THEN -1 ELSE at(CHOOSE n \in hits : \A m \in hits : n <= m)

open ==
  /\ card = "theme" /\ look.started /\ ~look.expanded
  /\ look' = [look EXCEPT !.expanded = TRUE, !.active = IndexOf(look.theme), !.byKey = FALSE]
  /\ UNCHANGED <<card, port, auto, tray, edits>>

close ==
  /\ card = "theme" /\ look.expanded
  /\ look' = [look EXCEPT !.expanded = FALSE, !.active = -1]
  /\ UNCHANGED <<card, port, auto, tray, edits>>

onListKeydown ==
  /\ card = "theme" /\ look.expanded
  /\ \E to \in {nextEnabledIndex(look.active, 1), nextEnabledIndex(look.active, -1),
                nextEnabledIndex(-1, 1), nextEnabledIndex(0, -1)} :
       look' = [look EXCEPT !.active = to, !.byKey = TRUE]
  /\ UNCHANGED <<card, port, auto, tray, edits>>

pointAt(i) ==
  /\ card = "theme" /\ look.expanded
  /\ look' = [look EXCEPT !.active = i, !.byKey = FALSE]
  /\ UNCHANGED <<card, port, auto, tray, edits>>

\* A disabled entry is not chosen.
commit ==
  /\ card = "theme" /\ look.expanded /\ look.active \in (0 .. Options - 1) \ Disabled
  /\ look' = [setTheme(look, Entry(look.active)) EXCEPT !.expanded = FALSE, !.active = -1]
  /\ UNCHANGED <<card, port, auto, tray, edits>>

----------------------------------------------------------------------------
Init ==
  /\ card \in {"port", "autostart", "tray", "theme"}
  /\ \E s \in Settings :
       port = [mode |-> "auto", draft |-> 0, read |-> -1, saved |-> s, held |-> 0,
               loaded |-> FALSE, unkept |-> FALSE, asked |-> 0, call |-> "none",
               poll |-> NoPoll, overtaken |-> FALSE, late |-> FALSE]
  /\ auto = [shown |-> FALSE, supported |-> FALSE, error |-> FALSE, call |-> "none",
             mounted |-> FALSE, machine |-> FALSE, answer |-> FALSE, stale |-> FALSE]
  /\ \E b \in Behaviors :
       tray = [shown |-> "minimize-to-tray", inForce |-> b, reading |-> "asked",
               asked |-> <<>>, clicked |-> FALSE, stale |-> FALSE]
  /\ \E t \in Themes : look = [theme |-> t, light |-> FALSE, applied |-> "dark", started |-> FALSE,
                               expanded |-> FALSE, active |-> -1, byKey |-> FALSE]
  /\ edits = MaxEdits

Port == (\E m \in {"auto", "fixed"} : chooseMode(m)) \/ (\E d \in Drafts : typePort(d))
        \/ applyPort \/ setPort \/ portSet \/ setPortAnswered
        \/ refreshSilently \/ getState \/ readState
Autostart == readAutostart \/ updateAutostart \/ CoreAutostart \/ autostartAnswered \/ CommandLine
Tray == (\E b \in Behaviors : updateTrayBehavior(b)) \/ getCloseBehavior
        \/ setCloseBehavior \/ TrayMenu \/ trayAnswered
Theme == startTheme \/ SystemChanges \/ open \/ close \/ onListKeydown \/ commit
         \/ \E i \in 0 .. Options - 1 : pointAt(i)

Next == Port \/ Autostart \/ Tray \/ Theme

Spec == Init /\ [][Next]_vars

----------------------------------------------------------------------------
\* The copies the page keeps are well formed, and no port outside the allowed
\* range is ever asked for or kept.
TypeOK ==
  /\ port.saved \in Settings /\ port.asked \in Settings /\ port.held \in Settings
  /\ port.poll \in Settings \cup {NoPoll, Asked}
  /\ port.read \in Settings \cup {-1} /\ port.draft \in Drafts
  /\ look.theme \in Themes /\ look.active \in -1 .. Options - 1
  /\ edits \in 0 .. MaxEdits

\* The port shown is the one the desktop process launches with, once the last
\* read was answered and no change overtook it, and that one is the core's
\* unless the core refused it.  The close behaviour shown is the one in force
\* once every click was handled, unless the tray's menu changed it since or the
\* read made on entry failed or was answered after a click.  A start-at-boot
\* switch the user can reach shows the registration the machine has, unless the
\* command line tool changed it since; the theme the document wears is the one
\* chosen, resolved against the system; and the keyboard never rests on a
\* disabled entry of a list box.
SettingsAreTrue ==
  /\ ~loading /\ port.poll = NoPoll /\ ~port.late /\ port.read # -1 => port.read = port.held
  /\ ~loading /\ port.loaded /\ ~port.unkept => port.held = port.saved
  /\ tray.reading = "done" /\ tray.asked = <<>> /\ ~tray.stale => tray.shown = tray.inForce
  /\ auto.supported /\ auto.call = "none" /\ ~auto.stale => auto.shown = auto.machine
  /\ look.started => look.applied = resolved(look.theme, look.light)
  /\ look.expanded /\ look.byKey => look.active \notin Disabled

\* The settings shown are the stored ones, without the exceptions of
\* SettingsAreTrue.  Refuted: setPort holds a port before the core has kept it
\* and never takes it back (launcher-harness-service.ts:860-862); a read
\* answered before a change is shown after it (useLauncherHarness.ts:127).
PortShownIsKept ==
  ~loading /\ port.poll = NoPoll /\ port.loaded /\ port.read # -1 => port.read = port.saved

\* Refuted: the read made on entry is shown over a click, and the tray's menu is
\* not heard of (SettingsPanel.vue:18-29, launcher-tray.ts:212).
BehaviorShownIsInForce ==
  tray.reading = "done" /\ tray.asked = <<>> => tray.shown = tray.inForce

\* ManagedWorkspacesPanel.vue: an edit in flight is never overwritten by the
\* background state poll while the persisted value stays the same.
DraftIsKept ==
  [][ port.read # -1 /\ port'.read = port.read /\ readState
      => port'.draft = port.draft /\ port'.mode = port.mode ]_vars

=============================================================================
