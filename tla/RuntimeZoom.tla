---------------------------- MODULE RuntimeZoom ----------------------------
(***************************************************************************)
(* The zoom of the embedded workbench pages: electron/main/runtime-        *)
(* browser-controller.ts over runtime-browser-preferences.ts.  Changes are *)
(* serialized; a new page reads the preference outside that order.         *)
(***************************************************************************)
EXTENDS Naturals, Sequences

CONSTANTS
  Guests,        \* embedded pages
  Levels,        \* RUNTIME_BROWSER_ZOOM_PERCENTAGES, by rank: 1..Levels
  DefaultLevel,       \* RUNTIME_BROWSER_DEFAULT_ZOOM_PERCENT
  MaxCommands

VARIABLES
  file,      \* the persisted level; 0 when there is none yet
  queue,     \* #preferenceMutation: the changes not yet done, each [cmd, pc, seen]
  guests,    \* the attached pages and how far their first read is
  seen,      \* what the page's first read found
  zoom,      \* the level each page shows
  asked,     \* the level the commands so far ask for
  left,      \* commands to come
  overtaken  \* a page's first read was overtaken by a change

vars == <<file, queue, guests, seen, zoom, asked, left, overtaken>>

\* in, out, reset, or a level chosen in the renderer
Commands == [kind : {"in", "out", "reset"}] \cup [kind : {"set"}, level : 1..Levels]

nextRuntimeBrowserZoom(l, cmd) ==
  CASE cmd.kind = "in" -> IF l < Levels THEN l + 1 ELSE l
    [] cmd.kind = "out" -> IF l > 1 THEN l - 1 ELSE l
    [] cmd.kind = "reset" -> DefaultLevel
    [] cmd.kind = "set" -> cmd.level

\* loadOrCreateRecord: what a load answers
loadOrCreateRecord == IF file = 0 THEN DefaultLevel ELSE file

\* A shortcut in a page, or setZoom from the renderer, joins the chain.
mutate(cmd) ==
  /\ left > 0 /\ left' = left - 1
  /\ queue' = Append(queue, [cmd |-> cmd, pc |-> "load", seen |-> 0])
  /\ asked' = nextRuntimeBrowserZoom(asked, cmd)
  /\ UNCHANGED <<file, guests, seen, zoom, overtaken>>

\* The changes do not wait for one another.
runsAny(i) == i \in 1..Len(queue)

\* Which change may run: the oldest
runs(i) == i = 1 /\ queue # <<>>

adjustZoomLoads(i) ==
  /\ runs(i) /\ queue[i].pc = "load"
  /\ queue' = [queue EXCEPT ![i].pc = "save", ![i].seen = loadOrCreateRecord]
  /\ file' = loadOrCreateRecord
  /\ UNCHANGED <<guests, seen, zoom, asked, left, overtaken>>

\* saveRecord replaces the file in one rename; the pages and the hosts are told.
adjustZoomSaves(i) ==
  /\ runs(i) /\ queue[i].pc = "save"
  /\ LET l == nextRuntimeBrowserZoom(queue[i].seen, queue[i].cmd)
     IN /\ file' = l
        /\ zoom' = [g \in Guests |-> IF guests[g] # "none" THEN l ELSE zoom[g]]
  /\ queue' = SubSeq(queue, 1, i - 1) \o SubSeq(queue, i + 1, Len(queue))
  /\ UNCHANGED <<guests, seen, asked, left, overtaken>>

\* attach: the page is known at once, its level after a read
attach(g) ==
  /\ guests[g] = "none" /\ guests' = [guests EXCEPT ![g] = "read"]
  /\ UNCHANGED <<file, queue, seen, zoom, asked, left, overtaken>>

\* The page's read finds the record, or none and goes on to create it ...
attachReads(g) ==
  /\ guests[g] = "read" /\ guests' = [guests EXCEPT ![g] = "apply"]
  /\ seen' = [seen EXCEPT ![g] = file]
  /\ UNCHANGED <<file, queue, zoom, asked, left, overtaken>>

\* ... and is applied, whatever was changed since.
attachApplies(g) ==
  /\ guests[g] = "apply" /\ guests' = [guests EXCEPT ![g] = "shown"]
  /\ overtaken' = (overtaken \/ file # seen[g])
  /\ LET l == IF seen[g] = 0 THEN DefaultLevel ELSE seen[g]
     IN zoom' = [zoom EXCEPT ![g] = l] /\ file' = IF seen[g] = 0 THEN l ELSE file
  /\ UNCHANGED <<queue, seen, asked, left>>

\* The page is destroyed.
Detach(g) ==
  /\ guests[g] # "none" /\ guests' = [guests EXCEPT ![g] = "none"]
  /\ zoom' = [zoom EXCEPT ![g] = 0]
  /\ UNCHANGED <<file, queue, seen, asked, left, overtaken>>

Init ==
  /\ file \in 0..Levels /\ queue = <<>> /\ left = MaxCommands
  /\ guests = [g \in Guests |-> "none"] /\ zoom = [g \in Guests |-> 0]
  /\ seen = zoom
  /\ asked = (IF file = 0 THEN DefaultLevel ELSE file) /\ overtaken = FALSE

Next ==
  \/ \E cmd \in Commands : mutate(cmd)
  \/ \E i \in 1..MaxCommands : adjustZoomLoads(i) \/ adjustZoomSaves(i)
  \/ \E g \in Guests : attach(g) \/ attachReads(g) \/ attachApplies(g) \/ Detach(g)

Spec == Init /\ [][Next]_vars

TypeOK ==
  /\ file \in 0..Levels /\ asked \in 1..Levels /\ left \in 0..MaxCommands
  /\ queue \in Seq([cmd : Commands, pc : {"load", "save"}, seen : 0..Levels])
  /\ guests \in [Guests -> {"none", "read", "apply", "shown"}]
  /\ {zoom, seen} \subseteq [Guests -> 0..Levels] /\ overtaken \in BOOLEAN

(* No zoom command is lost: once the chain is done the file holds what the   *)
(* commands ask for, each counted from the one before, and so does every     *)
(* page that finished its first read (unless a change overtook a page's      *)
(* first read, which the controller does not serialize with the changes).    *)
ZoomStepsAdd ==
  queue = <<>> /\ ~overtaken =>
    /\ file \in {asked, 0}
    /\ \A g \in Guests : guests[g] = "shown" => zoom[g] = file
=============================================================================
