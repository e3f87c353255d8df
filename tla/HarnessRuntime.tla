--------------------------- MODULE HarnessRuntime ---------------------------
(***************************************************************************)
(* DSH Web as the launcher shows it and as the core runs it:               *)
(* electron/main/managed/launcher-harness-service.ts (start, stop,         *)
(* shutdown), launcher-runtime-feed.ts and core/harness-runtime.ts.  The   *)
(* core owns the child; the launcher keeps a copy of its state, which      *)
(* answers of start and stop and a polling feed bring up to date, in       *)
(* whatever order the answers arrive.                                      *)
(***************************************************************************)
EXTENDS Naturals

CONSTANTS
  MaxGen,    \* feed generations
  MaxLeaked  \* timers that no handle refers to

VARIABLES
  launch,   \* #launch: "stopped", "starting", "running", "failed"
  child,    \* the core's record of the subject; "none" before the first
  start,    \* the calls of start: "idle", "preflight", "asked", "started", "refused"
  stop,     \* the call of stop: "idle", "asked", "refused" or the answered state
  leaving,  \* shutdown has been called
  gen,      \* #generation
  timer,    \* #timer: "none", "pending", "fired"
  leaked,   \* pending timers that are not #timer
  drain,    \* the drains in flight: where each is, its generation, its view
  ended,    \* a stop of the user was answered, nothing ran by then, no start since
  doubled   \* #schedule left a timer behind, and the feed is not back to one

vars == <<launch, child, start, stop, leaving, gen, timer, leaked, drain, ended,
          doubled>>

Calls == {1, 2}
Live == {"starting", "running"}
Idle == [at |-> "idle", gen |-> 0, view |-> "none"]

\* The feed's timer: #schedule arms a new one and forgets the one before.
schedule == /\ timer' = "pending"
            /\ leaked' = IF timer = "pending" THEN leaked + 1 ELSE leaked

feedStart ==
  IF timer # "none" THEN UNCHANGED <<gen, timer, leaked>>
  ELSE gen' = gen + 1 /\ schedule

feedStop == gen' = gen + 1 /\ timer' = "none" /\ UNCHANGED leaked

Start(c) ==
  /\ start[c] = "idle" /\ launch \notin Live
  /\ launch' = "starting" /\ start' = [start EXCEPT ![c] = "preflight"] /\ ended' = FALSE
  /\ UNCHANGED <<child, stop, leaving, gen, timer, leaked, drain>>

\* The active version, its compatibility and its readiness are checked.
preflight(c, ok) ==
  /\ start[c] = "preflight"
  /\ start' = [start EXCEPT ![c] = IF ok THEN "asked" ELSE "idle"]
  /\ launch' = IF ok THEN launch ELSE "stopped"
  /\ UNCHANGED <<child, stop, leaving, gen, timer, leaked, drain, ended>>

\* The core: a subject that is live is refused, and a spawn may fail.
CoreStarts(c, ok) ==
  /\ start[c] = "asked"
  /\ IF ok /\ child \notin Live
     THEN child' = "starting" /\ start' = [start EXCEPT ![c] = "started"]
     ELSE start' = [start EXCEPT ![c] = "refused"] /\ UNCHANGED child
  /\ UNCHANGED <<launch, stop, leaving, gen, timer, leaked, drain, ended>>

\* start's answer: the view it carries was taken when the child was spawned.
startAnswered(c) ==
  /\ start[c] \in {"started", "refused"} /\ start' = [start EXCEPT ![c] = "idle"]
  /\ IF start[c] = "refused" THEN launch' = "failed" /\ UNCHANGED <<gen, timer, leaked>>
     ELSE launch' = "starting" /\ feedStart
  /\ UNCHANGED <<child, stop, leaving, drain, ended>>

\* The child announces its address, or exits by itself.
observe ==
  /\ child = "starting" /\ child' = "running"
  /\ UNCHANGED <<launch, start, stop, leaving, gen, timer, leaked, drain, ended>>

ChildExits(how) ==
  /\ child \in Live /\ child' = how
  /\ UNCHANGED <<launch, start, stop, leaving, gen, timer, leaked, drain, ended>>

Stop ==
  /\ stop = "idle" /\ launch \in Live /\ stop' = "asked"
  /\ UNCHANGED <<launch, child, start, leaving, gen, timer, leaked, drain, ended>>

\* The launcher's shutdown fences the feed before it asks.
shutdown ==
  /\ ~leaving /\ leaving' = TRUE
  /\ IF launch \in Live THEN feedStop /\ stop' = (IF stop = "idle" THEN "asked" ELSE stop)
     ELSE UNCHANGED <<gen, timer, leaked, stop>>
  /\ UNCHANGED <<launch, child, start, drain, ended>>

\* The core: no record, or a tree that does not exit, is an error.
CoreStops(ok) ==
  /\ stop = "asked"
  /\ IF child = "none" \/ (child \in Live /\ ~ok) THEN stop' = "refused" /\ UNCHANGED child
     ELSE /\ child' = IF child \in Live THEN "stopped" ELSE child
          /\ stop' = child'
  /\ UNCHANGED <<launch, start, leaving, gen, timer, leaked, drain, ended>>

stopAnswered ==
  /\ stop \notin {"idle", "asked"} /\ stop' = "idle"
  /\ IF stop = "refused" THEN UNCHANGED <<launch, gen, timer, leaked, ended>>
     ELSE /\ launch' = stop /\ ended' = (~leaving /\ child \notin Live
                                                /\ \A c \in Calls : start[c] = "idle")
          /\ IF leaving THEN UNCHANGED <<gen, timer, leaked>> ELSE feedStop
  /\ UNCHANGED <<child, start, leaving, drain>>

\* A timer fires: its drain belongs to the generation of this moment.
Fires(own) ==
  /\ IF own THEN timer = "pending" /\ timer' = "fired" /\ UNCHANGED leaked
     ELSE leaked > 0 /\ leaked' = leaked - 1 /\ UNCHANGED timer
  /\ \E d \in Calls : /\ drain[d] = Idle
                      /\ drain' = [drain EXCEPT ![d] = [Idle EXCEPT !.at = "console", !.gen = gen]]
  /\ UNCHANGED <<launch, child, start, stop, leaving, gen, ended>>

\* A drain that is over re-arms the feed unless it was stopped meanwhile.
Ends(d) == drain' = [drain EXCEPT ![d] = Idle]

\* The console page has been read: a drain of an older generation ends here.
ConsoleRead(d) ==
  /\ drain[d].at = "console"
  /\ IF drain[d].gen = gen
     THEN drain' = [drain EXCEPT ![d].at = "status"] /\ UNCHANGED <<timer, leaked>>
     ELSE Ends(d) /\ IF timer = "none" THEN UNCHANGED <<timer, leaked>> ELSE schedule
  /\ UNCHANGED <<launch, child, start, stop, leaving, gen, ended>>

\* The core answers with the state of this moment.
CoreStatus(d) ==
  /\ drain[d].at = "status"
  /\ drain' = [drain EXCEPT ![d].at = "answer", ![d].view = child]
  /\ UNCHANGED <<launch, child, start, stop, leaving, gen, timer, leaked, ended>>

\* The generation is not looked at again.
StatusReadUnfenced(d) ==
  /\ drain[d].at = "answer" /\ launch' = drain[d].view
  /\ Ends(d)
  /\ IF drain[d].view \in {"stopped", "failed"} THEN feedStop
     ELSE UNCHANGED gen /\ IF timer = "none" THEN UNCHANGED <<timer, leaked>> ELSE schedule
  /\ UNCHANGED <<child, start, stop, leaving, ended>>

\* The answer is used if the feed is still of the drain's generation; the end of
\* the launch stops the feed.
StatusRead(d) ==
  /\ drain[d].at = "answer"
  /\ Ends(d)
  /\ IF drain[d].gen # gen
     THEN UNCHANGED <<launch, gen>> /\ IF timer = "none" THEN UNCHANGED <<timer, leaked>> ELSE schedule
     ELSE IF drain[d].view = "none" THEN feedStop /\ UNCHANGED launch
     ELSE /\ launch' = drain[d].view
          /\ IF drain[d].view \notin Live THEN feedStop
             ELSE UNCHANGED gen /\ IF timer = "none" THEN UNCHANGED <<timer, leaked>> ELSE schedule
  /\ UNCHANGED <<child, start, stop, leaving, ended>>

\* The core does not answer: the drain ends, its feed goes on.
DrainFails(d) ==
  /\ drain[d].at \in {"console", "status"}
  /\ Ends(d)
  /\ IF timer = "none" THEN UNCHANGED <<timer, leaked>> ELSE schedule
  /\ UNCHANGED <<launch, child, start, stop, leaving, gen, ended>>

Init ==
  /\ launch = "stopped" /\ child = "none" /\ start = [c \in Calls |-> "idle"]
  /\ stop = "idle" /\ leaving = FALSE /\ gen = 0 /\ timer = "none" /\ leaked = 0
  /\ drain = [d \in Calls |-> Idle] /\ ended = FALSE /\ doubled = FALSE

\* The feed's timer is the only one and no drain is in flight.
OneChain == timer = "pending" /\ leaked = 0 /\ \A d \in Calls : drain[d] = Idle

\* MaxGen and MaxLeaked bound the behaviours that are looked at.
Next ==
  /\ gen < MaxGen
  /\ \/ observe \/ Stop \/ shutdown \/ stopAnswered
     \/ \E c \in Calls : Start(c) \/ startAnswered(c)
     \/ \E c \in Calls, ok \in BOOLEAN : preflight(c, ok) \/ CoreStarts(c, ok)
     \/ \E how \in {"stopped", "failed"} : ChildExits(how)
     \/ \E b \in BOOLEAN : CoreStops(b) \/ Fires(b)
     \/ \E d \in Calls : ConsoleRead(d) \/ CoreStatus(d) \/ StatusRead(d) \/ DrainFails(d)
  /\ leaked' <= MaxLeaked /\ doubled' = ((doubled \/ leaked' > leaked) /\ ~OneChain')

Spec == Init /\ [][Next]_vars

TypeOK ==
  /\ launch \in {"stopped", "starting", "running", "failed"}
  /\ child \in {"none", "stopped", "starting", "running", "failed"}
  /\ start \in [Calls -> {"idle", "preflight", "asked", "started", "refused"}]
  /\ stop \in {"idle", "asked", "refused", "stopped", "failed"} /\ leaving \in BOOLEAN
  /\ gen \in 0..MaxGen /\ timer \in {"none", "pending", "fired"} /\ leaked \in 0..MaxLeaked
  /\ drain \in [Calls -> [at : {"idle", "console", "status", "answer"}, gen : 0..MaxGen,
                          view : {"none", "stopped", "starting", "running", "failed"}]]
  /\ ended \in BOOLEAN /\ doubled \in BOOLEAN

(* A status that was read before a stop and arrives after it does not bring  *)
(* the stopped runtime back to life (the generation fence of                 *)
(* launcher-runtime-feed.ts), nor does a timer that was left behind.         *)
NoResurrection == ended => launch \notin Live

(* A launch shown as live is followed: the feed has its timer or a drain in  *)
(* flight, or the answer of a start or of a stop is still to come, so that   *)
(* the end of the child is noticed.  A drain that outlives a stop and the    *)
(* next start arms a second timer, which the next stop cannot clear: what    *)
(* that one shows may be followed by nobody (doubled).                       *)
LiveIsFollowed ==
  launch \in Live /\ ~leaving /\ ~doubled =>
    \/ timer = "pending" \/ stop # "idle"
    \/ \E c \in Calls : start[c] # "idle" \/ drain[c] # Idle
=============================================================================
