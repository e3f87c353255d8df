---------------------------- MODULE PeerRequests ----------------------------
(***************************************************************************)
(* A management request from the renderer to the core and back:            *)
(* electron/main/p2p/management-requests.ts (a request runs once per       *)
(* document, can be cancelled, times out, and ends with its document),     *)
(* management-ipc.ts (the handler around it) and rpc.ts (numbered calls on *)
(* the core's socket, answered in any order).  Every request here writes,  *)
(* and makes one call.                                                     *)
(***************************************************************************)
EXTENDS Naturals, FiniteSets

CONSTANTS
  Ids,        \* request ids the renderer allocates: 1..n
  REPLAY_WINDOW,
  Limit,      \* requests and calls in flight at once
  MaxCalls,   \* calls made on the socket
  MaxDocs     \* documents loaded

VARIABLES
  scope,      \* of the current document: high-water mark and ids seen
  retired,    \* the document is going away and the next is not ready
  doc,        \* the current document
  req,        \* each request of the document: state, call, aborted, answer
  runs,       \* history: how often each ran in this document
  next,       \* calls made on the socket
  pending,    \* calls waiting for their answer
  effect,     \* what the core did of each call
  up          \* the socket is open

vars == <<scope, retired, doc, req, runs, next, pending, effect, up>>

Fresh == [pc |-> "none", call |-> 0, aborted |-> FALSE, got |-> "none", answer |-> "none"]
NewScope == [high |-> 0, seen |-> {}]
Running == {i \in Ids : req[i].pc \in {"running", "finishing"}}

\* Outside the window, or inside it and seen: a replay.
admits(id) == id + REPLAY_WINDOW > scope.high /\ id \notin scope.seen
\* Ids are forgotten one too early.
admittedForgets(id) ==
  LET high == IF id > scope.high THEN id ELSE scope.high
  IN  [high |-> high, seen |-> {i \in scope.seen \cup {id} : i + REPLAY_WINDOW > high + 1}]

admitted(id) ==
  LET high == IF id > scope.high THEN id ELSE scope.high
  IN  [high |-> high, seen |-> {i \in scope.seen \cup {id} : i + REPLAY_WINDOW > high}]

\* run: the id is spent before the limit is checked, then the operation starts.
\* Its call goes on the socket at once, or is refused there.
run(id) ==
  /\ ~retired /\ admits(id)
  /\ scope' = admitted(id)
  /\ IF Cardinality(Running) >= Limit
     THEN UNCHANGED <<req, runs, next, pending>>
     ELSE /\ runs' = [runs EXCEPT ![id] = @ + 1]
          /\ IF up /\ Cardinality(pending) < Limit /\ next < MaxCalls
             THEN /\ next' = next + 1 /\ pending' = pending \cup {next + 1}
                  /\ req' = [req EXCEPT ![id] = [Fresh EXCEPT !.pc = "running",
                                                              !.call = next + 1]]
             ELSE /\ req' = [req EXCEPT ![id] = [Fresh EXCEPT !.pc = "answered",
                                                              !.answer = "refused"]]
                  /\ UNCHANGED <<next, pending>>
  /\ UNCHANGED <<retired, doc, effect, up>>

\* The core executes a call it has received, or refuses it.
CoreExecutes(c, how) ==
  /\ c <= next /\ effect[c] = "none"
  /\ effect' = [effect EXCEPT ![c] = how]
  /\ UNCHANGED <<scope, retired, doc, req, runs, next, pending, up>>

\* An answer goes to whichever call has waited longest.
dispatchOldest(c) ==
  /\ up /\ c <= next /\ effect[c] # "none" /\ pending # {}
  /\ LET oldest == CHOOSE p \in pending : \A q \in pending : p <= q
     IN  /\ pending' = pending \ {oldest}
         /\ \E i \in Running : /\ req[i].call = oldest
                               /\ req' = [req EXCEPT ![i].pc = "finishing", ![i].got = effect[c]]
  /\ UNCHANGED <<scope, retired, doc, runs, next, effect, up>>

\* dispatch: an answer goes to the call it names, if that call still waits
dispatch(c) ==
  /\ up /\ c <= next /\ effect[c] # "none"
  /\ c \in pending /\ pending' = pending \ {c}
  /\ \E i \in Running : /\ req[i].call = c
                        /\ req' = [req EXCEPT ![i].pc = "finishing", ![i].got = effect[c]]
  /\ UNCHANGED <<scope, retired, doc, runs, next, effect, up>>

\* check: an aborted write is reported as unconfirmed, whatever it came to
Answer(i, a) == [req[i] EXCEPT !.pc = "answered",
                               !.answer = IF req[i].aborted THEN "unconfirmed" ELSE a]

\* The operation is done with the core's answer.
Finish(i) ==
  /\ req[i].pc = "finishing"
  /\ req' = [req EXCEPT ![i] = Answer(i, req[i].got)]
  /\ UNCHANGED <<scope, retired, doc, runs, next, pending, effect, up>>

\* cancel, the 120 s timer and the end of the document abort what runs: a waiting
\* call is given up, and what the core does with it is not undone
Aborted(i) ==
  IF i \notin Running THEN req[i]
  ELSE IF req[i].pc = "finishing" THEN [req[i] EXCEPT !.aborted = TRUE]
  ELSE [req[i] EXCEPT !.aborted = TRUE, !.pc = "answered", !.answer = "unconfirmed"]
Abort(i) ==
  /\ pending' = pending \ {req[i].call}
  /\ req' = [req EXCEPT ![i] = Aborted(i)]

\* A cancellation whose target is gone only spends its own id.
cancel(id, target) ==
  /\ ~retired /\ admits(id) /\ scope' = admitted(id)
  /\ IF target \in Running THEN Abort(target) ELSE UNCHANGED <<req, pending>>
  /\ UNCHANGED <<retired, doc, runs, next, effect, up>>

TimesOut(i) ==
  /\ i \in Running /\ Abort(i)
  /\ UNCHANGED <<scope, retired, doc, runs, next, effect, up>>

\* The socket's own 90 s timer ends the call under the request.
CallTimesOut(i) ==
  /\ req[i].pc = "running"
  /\ pending' = pending \ {req[i].call}
  /\ req' = [req EXCEPT ![i] = Answer(i, "timeout")]
  /\ UNCHANGED <<scope, retired, doc, runs, next, effect, up>>

\* Every waiting call is rejected with the socket.
close ==
  /\ up /\ up' = FALSE
  /\ pending' = {}
  /\ req' = [i \in Ids |-> IF req[i].pc = "running" THEN Answer(i, "unavailable") ELSE req[i]]
  /\ UNCHANGED <<scope, retired, doc, runs, next, effect>>

\* Navigation, a lost renderer: the scope ends with everything it runs.
retire ==
  /\ ~retired /\ doc < MaxDocs /\ retired' = TRUE
  /\ pending' = pending \ {req[i].call : i \in Running}
  /\ req' = [i \in Ids |-> Aborted(i)]
  /\ UNCHANGED <<scope, doc, runs, next, effect, up>>

\* dom-ready: the next document counts its requests from the start
DomReady ==
  /\ retired /\ retired' = FALSE
  /\ doc' = doc + 1
  /\ scope' = NewScope
  /\ req' = [i \in Ids |-> Fresh]
  /\ runs' = [i \in Ids |-> 0]
  /\ UNCHANGED <<next, pending, effect, up>>

Init ==
  /\ scope = NewScope /\ retired = FALSE /\ doc = 1
  /\ req = [i \in Ids |-> Fresh]
  /\ runs = [i \in Ids |-> 0]
  /\ next = 0 /\ pending = {} /\ up = TRUE
  /\ effect = [c \in 1..MaxCalls |-> "none"]

Next ==
  \/ \E i \in Ids : run(i) \/ Finish(i) \/ TimesOut(i) \/ CallTimesOut(i) \/ \E t \in Ids : cancel(i, t)
  \/ \E c \in 1..MaxCalls : dispatch(c) \/ \E h \in {"applied", "refused"} : CoreExecutes(c, h)
  \/ close \/ retire \/ DomReady

TypeOK ==
  /\ scope.high \in Ids \cup {0} /\ scope.seen \subseteq Ids
  /\ doc \in 1..MaxDocs /\ next \in 0..MaxCalls /\ pending \subseteq 1..next
  /\ {retired, up} \subseteq BOOLEAN
  /\ \A i \in Ids : req[i].pc \in {"none", "running", "finishing", "answered"}

(* A request id runs at most once in a document, however late or often it    *)
(* arrives and however far the window has moved (management-requests.ts      *)
(* #admit).                                                                  *)
RunsOnce == \A i \in Ids : runs[i] <= 1

(* What the renderer is told of a write is true of its own call: "applied"   *)
(* was applied, a refusal was not, through reordered and late answers,       *)
(* cancellations and a change of document (rpc.ts #dispatch,                 *)
(* management-requests.ts #check).                                           *)
AnswerIsItsOwn ==
  \A i \in Ids :
    /\ req[i].answer = "applied" => effect[req[i].call] = "applied"
    /\ req[i].answer = "refused" /\ req[i].call # 0 => effect[req[i].call] = "refused"
=============================================================================
