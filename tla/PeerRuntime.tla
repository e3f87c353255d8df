----------------------------- MODULE PeerRuntime -----------------------------
(***************************************************************************)
(* The local workbench runtime lent to peers: electron/main/p2p/           *)
(* runtime-owner.ts (one binding per running URL, numbered by a            *)
(* generation) and the runtime requests of runtime-host.ts (authorize,     *)
(* wait for a binding, authorize again, answer).  The core holds a binding *)
(* from the answer on, until the generation's invalidation is sent to it.  *)
(***************************************************************************)
EXTENDS Naturals

CONSTANTS
  Services,   \* services whose peers ask for the runtime
  Urls,       \* addresses the local runtime may listen on
  MaxGen      \* bindings made

VARIABLES
  src,        \* the state of the local runtime: a URL when running
  binding,    \* the current binding; NoBinding
  gen,        \* bindings made so far
  starting,   \* a start asked for by a peer: "no", "yes", or "settled" and not cleared
  services,   \* services told of invalidations
  req,        \* the runtime request of each service
  holds,      \* <<service, generation>> the core has been answered
  closed

vars == <<src, binding, gen, starting, services, req, holds, closed>>

Down == {"stopped", "starting", "failed"}
NoBinding == [g |-> 0, url |-> "none"]
Bindings == [g : 1..MaxGen, url : Urls] \cup {NoBinding}
Idle == [pc |-> "idle"]
Waiting == [pc |-> "waiting", missed |-> FALSE]
\* Waiting, with no start that would end the wait: its moment fell between the
\* two callbacks of a start that settled.
Missed == [pc |-> "waiting", missed |-> TRUE]
Got(b) == [pc |-> "got", b |-> b]

\* retire: the core is told, for every service that may have been answered.  It
\* is not told anything once the host's lifetime ended.
Retired(g) == IF closed THEN holds ELSE {h \in holds : h[1] \notin services \/ h[2] # g}

Settle(f) == [s \in Services |-> IF req[s].pc = "waiting" THEN f ELSE req[s]]

\* A state of the local runtime is taken over: another URL is another binding.
accept(st) ==
  IF st \in Down
  THEN /\ binding' = NoBinding
       /\ holds' = Retired(binding.g)
       /\ req' = IF st = "starting" \/ starting = "yes" THEN req
                 ELSE Settle(IF starting = "settled" THEN Missed ELSE Idle)
       /\ UNCHANGED gen
  ELSE /\ IF binding.url = st
          THEN UNCHANGED <<binding, holds, gen>>
          ELSE /\ gen' = gen + 1
               /\ binding' = [g |-> gen + 1, url |-> st]
               /\ holds' = Retired(binding.g)
       /\ req' = Settle(Got(binding'))

SourceMoves(st) ==
  /\ ~closed /\ st # src
  /\ st \in Urls => gen < MaxGen
  /\ src' = st
  /\ accept(st)
  /\ UNCHANGED <<starting, services, closed>>

\* runtime.connect or runtime.resume from the core, first authorization pending
Ask(s, method) ==
  /\ ~closed /\ req[s] = Idle
  /\ req' = [req EXCEPT ![s] = [pc |-> "asked", m |-> method]]
  /\ UNCHANGED <<src, binding, gen, starting, services, holds, closed>>

connect(s) ==
  /\ ~closed /\ req[s].pc = "asked" /\ req[s].m = "connect"
  /\ services' = services \cup {s}
  /\ IF binding # NoBinding
     THEN req' = [req EXCEPT ![s] = Got(binding)] /\ UNCHANGED starting
     ELSE /\ req' = [req EXCEPT ![s] = IF src # "starting" /\ starting = "settled"
                                       THEN Missed ELSE Waiting]
          /\ starting' = IF src # "starting" /\ starting = "no" THEN "yes" ELSE starting
  /\ UNCHANGED <<src, binding, gen, holds, closed>>

resume(s) ==
  /\ ~closed /\ req[s].pc = "asked" /\ req[s].m = "resume"
  /\ services' = services \cup {s}
  /\ req' = [req EXCEPT ![s] = IF binding # NoBinding THEN Got(binding) ELSE Idle]
  /\ UNCHANGED <<src, binding, gen, starting, holds, closed>>

\* start() settles: refused, or done with the runtime down again
StartSettles(refused) ==
  /\ starting = "yes"
  /\ req' = IF refused \/ src \in {"stopped", "failed"} THEN Settle(Idle) ELSE req
  /\ starting' = "settled"
  /\ UNCHANGED <<src, binding, gen, services, holds, closed>>

\* finally: the start is forgotten, one callback later
StartCleared ==
  /\ starting = "settled" /\ starting' = "no"
  /\ UNCHANGED <<src, binding, gen, services, req, holds, closed>>

\* The wait times out, the request is cancelled or an authorization refuses it.
Refused(s) ==
  /\ req[s] # Idle
  /\ req' = [req EXCEPT ![s] = Idle]
  /\ UNCHANGED <<src, binding, gen, starting, services, holds, closed>>

\* A binding is answered as it was obtained.
assertOpen(b) == ~closed

assertCurrent(b) == ~closed /\ binding = b

\* The second authorization passed: the binding is answered if it is current.
Answer(s) ==
  /\ req[s].pc = "got"
  /\ holds' = IF assertCurrent(req[s].b) THEN holds \cup {<<s, req[s].b.g>>} ELSE holds
  /\ req' = [req EXCEPT ![s] = Idle]
  /\ UNCHANGED <<src, binding, gen, starting, services, closed>>

\* close, or the core refused an invalidation: the host becomes unavailable
Close ==
  /\ ~closed /\ closed' = TRUE
  /\ binding' = NoBinding
  /\ req' = Settle(Idle)
  /\ UNCHANGED <<src, gen, starting, services, holds>>

Init ==
  /\ src \in Down \cup Urls
  /\ gen = IF src \in Urls THEN 1 ELSE 0
  /\ binding = IF src \in Urls THEN [g |-> 1, url |-> src] ELSE NoBinding
  /\ starting = "no" /\ closed = FALSE
  /\ services = {} /\ holds = {}
  /\ req = [s \in Services |-> Idle]

Next ==
  \/ \E st \in Down \cup Urls : SourceMoves(st)
  \/ \E s \in Services : \/ \E m \in {"connect", "resume"} : Ask(s, m)
                         \/ connect(s) \/ resume(s) \/ Refused(s) \/ Answer(s)
  \/ \E refused \in BOOLEAN : StartSettles(refused)
  \/ StartCleared \/ Close

TypeOK ==
  /\ src \in Down \cup Urls /\ binding \in Bindings /\ gen \in 0..MaxGen
  /\ starting \in {"no", "yes", "settled"} /\ closed \in BOOLEAN /\ services \subseteq Services
  /\ holds \subseteq Services \X (1..MaxGen)
  /\ \A s \in Services : req[s].pc \in {"idle", "asked", "waiting", "got"}

(* The core never keeps a runtime that has been replaced or stopped: what    *)
(* it was answered is the current binding, or its invalidation has been      *)
(* sent, whatever happened to the runtime between the two authorizations     *)
(* of the request (runtime-host.ts #handle, runtime-owner.ts #retire).       *)
HeldIsCurrent == ~closed => \A h \in holds : h[2] = binding.g

(* A peer that waits for the runtime is not forgotten: a start is under way  *)
(* that will settle the wait, unless the runtime was asked for, or went down *)
(* again, between the two callbacks of a start that had settled              *)
(* (runtime-owner.ts connect, #accept).                                      *)
WaiterIsServed ==
  \A s \in Services : req[s] = Waiting => starting = "yes" \/ src = "starting"

(* Without the exception.  Refuted: a connect that runs after the then of    *)
(* runtime-owner.ts:55 and before the finally of :65 finds #starting set,    *)
(* asks for no start, and waits for its 70 s timer.                          *)
NobodyWaitsInVain ==
  \A s \in Services : req[s].pc = "waiting" => starting # "no" \/ src = "starting"
=============================================================================
