----------------------------- MODULE AutoConnect -----------------------------
(***************************************************************************)
(* The reconnection engine of networking/internal/autoconnect: for every   *)
(* pair the catalog authorizes it keeps one connection attempt, one        *)
(* scheduled retry or one recorded refusal, whatever the interleaving of   *)
(*                                                                         *)
(*   - callers: the daemon's ticker and the shell's RPCs, which run        *)
(*     Reconcile, RetryNow, Reauthorize and RecoverAuthorization on their  *)
(*     own goroutine;                                                      *)
(*   - workers: the goroutines the engine spawns, one per wake taken by    *)
(*     runWakes and one per scheduled retry;                               *)
(*   - runWakes, Close, and the session manager that moves the stages.     *)
(*                                                                         *)
(* Every critical section of engine.mu is one action; what the code does   *)
(* between two of them (reading the catalog, reading the stage, Connect)   *)
(* is an action of its own, so all interleavings are explored.             *)
(***************************************************************************)
EXTENDS Integers, FiniteSets, Functions, TLC

CONSTANTS
  Pairs,      \* (service, pair) identities, Intent.key()
  Callers,    \* goroutines that call the engine and are not in its WaitGroup
  Workers,    \* goroutines in the WaitGroup; bounds how many live at once
  NoTimer,    \* no entry in the pending map
  BackoffLen, \* length of the Backoff table
  MaxEpoch    \* bound on reauthorizations of one pair

ASSUME AutoConnectAssumption ==
  /\ Pairs # {}
  /\ Callers \cap Workers = {}
  /\ NoTimer \notin Workers
  /\ BackoffLen \in Nat \ {0}
  /\ MaxEpoch \in Nat

VARIABLES
  auth,       \* pairs the catalog records as active
  stage,      \* live stage of a pair in the session manager
  attempts,   \* consecutive failures, the index into Backoff
  terminal,   \* the refusal that stopped a pair, "" when none
  pending,    \* the cancel channel of a scheduled retry, named by its goroutine
  cancelled,  \* closed cancel channels whose goroutine has not ended yet
  inFlight,   \* epoch of the attempt that owns a pair, Absent when none
  epochs,     \* reauthorizations so far
  wakes,      \* coalesced notifications
  wakeToken,  \* the one buffered element of engine.wake
  wakeLoop,   \* where runWakes stands
  closer,     \* how far Close has come
  pc, pair, epoch, result, \* each goroutine's position and locals
  todo,       \* intents a caller's Reconcile has not ensured yet
  untried     \* history: reauthorized pairs not attempted since

engine == <<attempts, terminal, pending, cancelled, inFlight, epochs>>
wakeVars == <<wakes, wakeToken, wakeLoop>>
world == <<auth, stage>>
locals == <<pair, epoch, result>>
vars == <<world, engine, wakeVars, closer, pc, locals, todo, untried>>

Goroutines == Callers \cup Workers
Absent == -1

\* The refusals RecoverAuthorization may clear, and all the others.
AuthorizationCode == "authorization"
OtherCode == "identity"
terminalCodes == {AuthorizationCode, OtherCode}
Results == {"nil", "transient"} \cup terminalCodes

\* What a ConnectionState means to the engine: "partial" is a connection that
\* still owes an explicitly requested workbench, "live" any other live stage.
Stages == {"", "partial", "live"}

closed == closer # "open"
ctxDone == closer \in {"cancelled", "returned"}

\* The steps of ensure and attempt that run while inFlight names the goroutine.
FlightSteps == {"stage", "live", "attempt", "connect", "verify", "settle"}
Flying(g) == pc[g] \in FlightSteps
TimerSteps == {"waiting", "fired", "stopping"}
Steps == FlightSteps \cup TimerSteps \cup
  {"idle", "reconcile", "intents", "forget", "next", "ensure", "schedule", "wake"}

\* Returning from ensure: a Reconcile goes on to its next intent, a worker ends.
Return(g) == IF g \in Callers THEN "next" ELSE "idle"
Go(g, step) == pc' = [pc EXCEPT ![g] = step]
\* A step that moves g and touches nothing else.
Only(g, step) ==
  Go(g, step) /\ UNCHANGED <<world, engine, wakeVars, closer, locals, todo, untried>>
\* attempt's locals die when it returns.
Leave(g) ==
  /\ epoch' = [epoch EXCEPT ![g] = 0]
  /\ result' = [result EXCEPT ![g] = "nil"]

-----------------------------------------------------------------------------
(* Critical sections shared by several operations.                         *)

\* close(cancel); delete(pending, p), for every pair of ps that has a timer.
CancelPending(ps) ==
  /\ cancelled' = cancelled \cup {pending[p] : p \in {q \in ps : pending[q] # NoTimer}}
  /\ pending' = [p \in Pairs |-> IF p \in ps THEN NoTimer ELSE pending[p]]

\* Mutant: a pair in flight is noted but runWakes is not told.
WakeLockedQuietly(p) ==
  IF closed
  THEN UNCHANGED <<engine, wakes, wakeToken>>
  ELSE /\ wakes' = wakes \cup {p}
       /\ wakeToken' = (wakeToken \/ inFlight[p] = Absent)
       /\ attempts' = [attempts EXCEPT ![p] = 0]
       /\ CancelPending({p})
       /\ UNCHANGED <<terminal, inFlight, epochs>>

\* The body of Wake.
WakeLocked(p) ==
  IF closed
  THEN UNCHANGED <<engine, wakes, wakeToken>>
  ELSE /\ wakes' = wakes \cup {p}
       /\ wakeToken' = TRUE
       /\ attempts' = [attempts EXCEPT ![p] = 0]
       /\ CancelPending({p})
       /\ UNCHANGED <<terminal, inFlight, epochs>>

reauthorizeLocked(p) ==
  /\ epochs' = [epochs EXCEPT ![p] = @ + 1]
  /\ terminal' = [terminal EXCEPT ![p] = ""]
  /\ attempts' = [attempts EXCEPT ![p] = 0]
  /\ CancelPending({p})
  /\ UNCHANGED inFlight

-----------------------------------------------------------------------------
(* Reconcile and RetryNow, on a caller's goroutine.                        *)

ReconcileBegin(c) ==
  /\ pc[c] \in {"idle", "reconcile"}
  /\ Only(c, IF closed THEN "idle" ELSE "intents")

ReadIntents(c) ==
  /\ pc[c] = "intents"
  /\ todo' = [todo EXCEPT ![c] = auth]
  /\ Go(c, "forget")
  /\ UNCHANGED <<world, engine, wakeVars, closer, locals, untried>>

UnreadableCatalog(c) ==
  /\ pc[c] = "intents"
  /\ Only(c, "idle")

\* A pair missing from the snapshot loses its backoff and its refusal.
ForgetUnwanted(c) ==
  /\ pc[c] = "forget"
  /\ attempts' = [p \in Pairs |-> IF p \in todo[c] THEN attempts[p] ELSE 0]
  /\ terminal' = [p \in Pairs |-> IF p \in todo[c] THEN terminal[p] ELSE ""]
  /\ Go(c, "next")
  /\ UNCHANGED <<world, pending, cancelled, inFlight, epochs, wakeVars, closer,
                 locals, todo, untried>>

EnsureNext(c) ==
  /\ pc[c] = "next"
  /\ \E p \in todo[c] :
       /\ todo' = [todo EXCEPT ![c] = @ \ {p}]
       /\ pair' = [pair EXCEPT ![c] = p]
  /\ Go(c, "ensure")
  /\ UNCHANGED <<world, engine, wakeVars, closer, epoch, result, untried>>

ReconcileEnd(c) ==
  /\ pc[c] = "next"
  /\ todo[c] = {}
  /\ Only(c, "idle")

RetryNow(c) ==
  /\ pc[c] = "idle"
  /\ attempts' = [p \in Pairs |-> 0]
  /\ CancelPending(Pairs)
  /\ Go(c, "reconcile")
  /\ UNCHANGED <<world, terminal, inFlight, epochs, wakeVars, closer, locals,
                 todo, untried>>

\* The caller has durably published the authorization of p.
Reauthorize(c, p) ==
  /\ pc[c] = "idle"
  /\ p \in auth /\ ~closed
  /\ epochs[p] < MaxEpoch
  /\ reauthorizeLocked(p)
  /\ pair' = [pair EXCEPT ![c] = p]
  /\ Go(c, "wake")
  /\ untried' = untried \cup {p}
  /\ UNCHANGED <<world, wakeVars, closer, epoch, result, todo>>

\* Refuses, changing nothing, while another kind of refusal is on record.
RecoverAuthorization(c, p) ==
  /\ terminal[p] \in {"", AuthorizationCode}
  /\ Reauthorize(c, p)

-----------------------------------------------------------------------------
(* ensure, attempt and schedule, on whichever goroutine runs them.         *)

\* Mutants: a second attempt is admitted beside the first; a pair that is backing
\* off is left alone, by its own fired timer too.
mayEnsureTwice(p) == ~closed /\ pending[p] = NoTimer /\ terminal[p] = ""
mayEnsureFirst(p) ==
  ~closed /\ inFlight[p] = Absent /\ pending[p] = NoTimer /\ terminal[p] = "" /\ attempts[p] = 0
mayEnsure(p) ==
  /\ ~closed
  /\ inFlight[p] = Absent
  /\ pending[p] = NoTimer
  /\ terminal[p] = ""

EnsureSkips(g) ==
  /\ pc[g] = "ensure"
  /\ ~mayEnsure(pair[g])
  /\ Only(g, Return(g))

EnsureAdmits(g) ==
  LET p == pair[g] IN
  /\ pc[g] = "ensure"
  /\ mayEnsure(p)
  /\ inFlight' = [inFlight EXCEPT ![p] = epochs[p]]
  /\ epoch' = [epoch EXCEPT ![g] = epochs[p]]
  /\ untried' = untried \ {p}
  /\ Go(g, "stage")
  /\ UNCHANGED <<world, attempts, terminal, pending, cancelled, epochs, wakeVars,
                 closer, pair, result, todo>>

ReadStage(g) ==
  /\ pc[g] = "stage"
  /\ Only(g, IF stage[pair[g]] = "live" THEN "live" ELSE "attempt")

AlreadyLive(g) ==
  LET p == pair[g] IN
  /\ pc[g] = "live"
  /\ attempts' = [attempts EXCEPT ![p] = 0]
  /\ inFlight' = [inFlight EXCEPT ![p] = Absent]
  /\ Go(g, IF epochs[p] # epoch[g] THEN "wake" ELSE Return(g))
  /\ Leave(g)
  /\ UNCHANGED <<world, terminal, pending, cancelled, epochs, wakeVars, closer,
                 pair, todo, untried>>

AttemptBegins(g) ==
  /\ pc[g] = "attempt"
  /\ ~closed /\ epochs[pair[g]] = epoch[g]
  /\ Only(g, "connect")

\* Mutant: the superseded attempt ends without waking its successor.
abandonSilently(g) == Return(g)
abandon(g) == IF closed THEN Return(g) ELSE "wake"

AttemptAbandoned(g) ==
  LET p == pair[g] IN
  /\ pc[g] = "attempt"
  /\ closed \/ epochs[p] # epoch[g]
  /\ inFlight' = [inFlight EXCEPT ![p] = Absent]
  /\ Go(g, abandon(g))
  /\ Leave(g)
  /\ UNCHANGED <<world, attempts, terminal, pending, cancelled, epochs, wakeVars,
                 closer, pair, todo, untried>>

\* options.Connect returns. A refusal may be older than the authorization.
ConnectSucceeds(g) ==
  LET p == pair[g] IN
  /\ pc[g] = "connect"
  /\ p \in auth
  /\ \E s \in {"partial", "live"} : stage' = [stage EXCEPT ![p] = s]
  /\ result' = [result EXCEPT ![g] = "nil"]
  /\ Go(g, "verify")
  /\ UNCHANGED <<auth, engine, wakeVars, closer, pair, epoch,
                 todo, untried>>

ConnectFails(g) ==
  /\ pc[g] = "connect"
  /\ \E r \in Results \ {"nil"} : result' = [result EXCEPT ![g] = r]
  /\ Go(g, "settle")
  /\ UNCHANGED <<world, engine, wakeVars, closer, pair, epoch, todo, untried>>

\* A requested workbench that is not ready makes the connection a failure, with
\* the state's own error or p2p.runtime_unavailable. The session may have moved
\* since Connect returned; only "partial" tells that the request is still open.
VerifyWorkbench(g) ==
  LET p == pair[g] IN
  /\ pc[g] = "verify"
  /\ \E r \in (IF stage[p] = "partial" THEN Results \ {"nil"} ELSE Results) :
       result' = [result EXCEPT ![g] = r]
  /\ Go(g, "settle")
  /\ UNCHANGED <<world, engine, wakeVars, closer, pair, epoch, todo, untried>>

\* Mutant: every error is recorded as a refusal.
refusesAll(r) == r # "nil"
refuses(r) == r \in terminalCodes

Settle(g) ==
  LET p == pair[g]
      current == ~closed /\ epochs[p] = epoch[g]
      retry == current /\ result[g] = "transient"
  IN
  /\ pc[g] = "settle"
  /\ inFlight' = [inFlight EXCEPT ![p] = Absent]
  /\ attempts' = IF current /\ result[g] = "nil"
                 THEN [attempts EXCEPT ![p] = 0] ELSE attempts
  /\ terminal' = IF current /\ refuses(result[g])
                 THEN [terminal EXCEPT ![p] = result[g]] ELSE terminal
  /\ Go(g, IF closed THEN Return(g)
           ELSE IF epochs[p] # epoch[g] THEN "wake"
           ELSE IF retry THEN "schedule"
           ELSE Return(g))
  /\ result' = [result EXCEPT ![g] = "nil"]
  /\ epoch' = IF retry THEN epoch ELSE [epoch EXCEPT ![g] = 0]
  /\ UNCHANGED <<world, pending, cancelled, epochs, wakeVars, closer, pair,
                 todo, untried>>

\* Mutant: schedule trusts the epoch that attempt has already compared.
mayScheduleStale(g) == ~closed /\ pending[pair[g]] = NoTimer
\* schedule runs after attempt released the lock, so it looks again.
maySchedule(g) ==
  ~closed /\ pending[pair[g]] = NoTimer /\ epochs[pair[g]] = epoch[g]

ScheduleRefused(g) ==
  /\ pc[g] = "schedule"
  /\ ~maySchedule(g)
  /\ Go(g, Return(g))
  /\ Leave(g)
  /\ UNCHANGED <<world, engine, wakeVars, closer, pair, todo, untried>>

\* The new goroutine is an idle worker or, as g ends here, the worker g itself.
Schedule(g) ==
  LET p == pair[g] IN
  /\ pc[g] = "schedule"
  /\ maySchedule(g)
  /\ attempts' = [attempts EXCEPT ![p] = IF @ < BackoffLen THEN @ + 1 ELSE @]
  /\ \E w \in (IF g \in Callers THEN {v \in Workers : pc[v] = "idle"} ELSE {g}) :
       /\ pending' = [pending EXCEPT ![p] = w]
       /\ pair' = [pair EXCEPT ![w] = p]
       /\ pc' = [pc EXCEPT ![g] = Return(g), ![w] = "waiting"]
  /\ Leave(g)
  /\ UNCHANGED <<world, terminal, cancelled, inFlight, epochs, wakeVars, closer,
                 todo, untried>>

\* The engine waking the pair itself, after an epoch moved under an attempt, and
\* the last step of Reauthorize.
WakeSelf(g) ==
  /\ pc[g] = "wake"
  /\ WakeLocked(pair[g])
  /\ Go(g, Return(g))
  /\ UNCHANGED <<world, wakeLoop, closer, locals, todo, untried>>

-----------------------------------------------------------------------------
(* The goroutine of a scheduled retry.                                     *)

\* select picks any ready case, so a cancelled wait may still fire.
TimerFires(w) ==
  /\ pc[w] = "waiting"
  /\ Only(w, "fired")

TimerCancelled(w) ==
  /\ pc[w] = "waiting"
  /\ w \in cancelled
  /\ cancelled' = cancelled \ {w}
  /\ Go(w, "idle")
  /\ UNCHANGED <<world, attempts, terminal, pending, inFlight, epochs, wakeVars,
                 closer, locals, todo, untried>>

TimerStopped(w) ==
  /\ pc[w] = "waiting"
  /\ ctxDone
  /\ Only(w, "stopping")

\* Mutant: the entry is cleared whichever wait it belongs to.
ownsAnyPending(w) == TRUE
ownsPending(w) == pending[pair[w]] = w

\* The wait clears its own entry only. A fired timer then runs ensure, whose
\* test of closed subsumes the one made here.
clearPending(w) ==
  /\ pc[w] \in {"fired", "stopping"}
  /\ pending' = IF ownsPending(w)
                THEN [pending EXCEPT ![pair[w]] = NoTimer] ELSE pending
  /\ cancelled' = cancelled \ {w}
  /\ Go(w, IF pc[w] = "fired" THEN "ensure" ELSE "idle")
  /\ UNCHANGED <<world, attempts, terminal, inFlight, epochs, wakeVars, closer,
                 locals, todo, untried>>

-----------------------------------------------------------------------------
(* runWakes and Close.                                                     *)

TakeWake ==
  /\ wakeLoop = "select" /\ wakeToken
  /\ wakeToken' = FALSE
  /\ wakeLoop' = "swap"
  /\ UNCHANGED <<world, engine, wakes, closer, pc, locals, todo, untried>>

\* One goroutine per pair; S are the idle workers that run them.
SpawnWakes ==
  /\ wakeLoop = "swap" /\ ~closed
  /\ \E S \in SUBSET {w \in Workers : pc[w] = "idle"} : \E f \in Bijection(S, wakes) :
       /\ pair' = [g \in Goroutines |-> IF g \in S THEN f[g] ELSE pair[g]]
       /\ pc' = [g \in Goroutines |-> IF g \in S THEN "ensure" ELSE pc[g]]
  /\ wakes' = {}
  /\ wakeLoop' = "select"
  /\ UNCHANGED <<world, engine, wakeToken, closer, epoch, result, todo, untried>>

\* Mutant: runWakes looks for the end only after a notification.
WakesStopOnWake ==
  /\ wakeLoop = "swap" /\ closed /\ wakes' = {}
  /\ wakeLoop' = "done"
  /\ UNCHANGED <<world, engine, wakeToken, closer, pc, locals, todo, untried>>

WakesStop ==
  /\ \/ wakeLoop = "swap" /\ closed /\ wakes' = {}
     \/ wakeLoop = "select" /\ ctxDone /\ UNCHANGED wakes
  /\ wakeLoop' = "done"
  /\ UNCHANGED <<world, engine, wakeToken, closer, pc, locals, todo, untried>>

CloseMarks ==
  /\ closer = "open"
  /\ closer' = "closed"
  /\ UNCHANGED <<world, engine, wakeVars, pc, locals, todo, untried>>

CloseCancels ==
  /\ closer = "closed"
  /\ closer' = "cancelled"
  /\ UNCHANGED <<world, engine, wakeVars, pc, locals, todo, untried>>

\* wait.Wait(): runWakes and every worker have ended.
CloseReturns ==
  /\ closer = "cancelled"
  /\ wakeLoop = "done"
  /\ \A w \in Workers : pc[w] = "idle"
  /\ closer' = "returned"
  /\ UNCHANGED <<world, engine, wakeVars, pc, locals, todo, untried>>

-----------------------------------------------------------------------------
(* The world: the catalog and the session manager.                         *)

Authorize(p) ==
  /\ auth' = auth \cup {p}
  /\ UNCHANGED <<stage, engine, wakeVars, closer, pc, locals,
                 todo, untried>>

\* Revocation ends the session.
Revoke(p) ==
  /\ auth' = auth \ {p}
  /\ stage' = [stage EXCEPT ![p] = ""]
  /\ UNCHANGED <<engine, wakeVars, closer, pc, locals, todo, untried>>

\* A session comes up by itself (the peer connected to us) or advances.
SessionMoves(p) ==
  /\ p \in auth
  /\ \E s \in Stages \ {""} : stage' = [stage EXCEPT ![p] = s]
  /\ UNCHANGED <<auth, engine, wakeVars, closer, pc, locals,
                 todo, untried>>

SessionDrops(p) ==
  /\ stage[p] # ""
  /\ stage' = [stage EXCEPT ![p] = ""]
  /\ UNCHANGED <<auth, engine, wakeVars, closer, pc, locals, todo, untried>>

\* config.Wake: the manager reports a cleanup or a returning peer, at any time
\* after the change it reports.
Wake(p) ==
  /\ WakeLocked(p)
  /\ UNCHANGED <<auth, stage, wakeLoop, closer, pc, locals, todo, untried>>

-----------------------------------------------------------------------------
Init ==
  /\ auth \in SUBSET Pairs
  /\ stage = [p \in Pairs |-> ""]
  /\ attempts = [p \in Pairs |-> 0]
  /\ terminal = [p \in Pairs |-> ""]
  /\ pending = [p \in Pairs |-> NoTimer]
  /\ cancelled = {}
  /\ inFlight = [p \in Pairs |-> Absent]
  /\ epochs = [p \in Pairs |-> 0]
  /\ wakes = {} /\ wakeToken = FALSE /\ wakeLoop = "select"
  /\ closer = "open"
  /\ pc = [g \in Goroutines |-> "idle"]
  /\ pair = [g \in Goroutines |-> CHOOSE p \in Pairs : TRUE]
  /\ epoch = [g \in Goroutines |-> 0]
  /\ result = [g \in Goroutines |-> "nil"]
  /\ todo = [c \in Callers |-> {}]
  /\ untried = {}

CallerStep(c) ==
  \/ ReconcileBegin(c) \/ ReadIntents(c) \/ UnreadableCatalog(c)
  \/ ForgetUnwanted(c) \/ EnsureNext(c) \/ ReconcileEnd(c)
  \/ RetryNow(c)
  \/ \E p \in Pairs : Reauthorize(c, p) \/ RecoverAuthorization(c, p)

EnsureStep(g) ==
  \/ EnsureSkips(g) \/ EnsureAdmits(g) \/ ReadStage(g) \/ AlreadyLive(g)
  \/ AttemptBegins(g) \/ AttemptAbandoned(g)
  \/ ConnectSucceeds(g) \/ ConnectFails(g) \/ VerifyWorkbench(g) \/ Settle(g)
  \/ ScheduleRefused(g) \/ Schedule(g) \/ WakeSelf(g)

TimerStep(w) ==
  TimerFires(w) \/ TimerCancelled(w) \/ TimerStopped(w) \/ clearPending(w)

WorldStep(p) ==
  Authorize(p) \/ Revoke(p) \/ SessionMoves(p) \/ SessionDrops(p) \/ Wake(p)

Next ==
  \/ \E c \in Callers : CallerStep(c)
  \/ \E g \in Goroutines : EnsureStep(g)
  \/ \E w \in Workers : TimerStep(w)
  \/ TakeWake \/ SpawnWakes \/ WakesStop
  \/ CloseMarks \/ CloseCancels \/ CloseReturns
  \/ \E p \in Pairs : WorldStep(p)

Spec == Init /\ [][Next]_vars

\* The Go scheduler runs every goroutine that can run; Connect and the timers
\* end because each has a deadline.
\* Nothing obliges a caller to start an operation, or Close to be called.
Fairness ==
  /\ \A g \in Goroutines : WF_vars(EnsureStep(g))
  /\ \A w \in Workers : WF_vars(TimerStep(w))
  /\ \A c \in Callers :
       WF_vars(/\ pc[c] # "idle"
               /\ \/ ReconcileBegin(c) \/ ReadIntents(c) \/ UnreadableCatalog(c)
                  \/ ForgetUnwanted(c) \/ EnsureNext(c) \/ ReconcileEnd(c))
  /\ WF_vars(TakeWake \/ SpawnWakes \/ WakesStop)
  /\ WF_vars(CloseCancels \/ CloseReturns)

FairSpec == Spec /\ Fairness

\* The daemon's ticker keeps calling Reconcile, and the catalog is readable
\* again and again.
Ticker ==
  /\ WF_vars(\E c \in Callers : ~closed /\ pc[c] = "idle" /\ ReconcileBegin(c))
  /\ SF_vars(\E c \in Callers : ReadIntents(c))

-----------------------------------------------------------------------------
(* Properties.                                                             *)

\* Every variable has its type.
TypeOK ==
  /\ auth \in SUBSET Pairs
  /\ stage \in [Pairs -> Stages]
  /\ attempts \in [Pairs -> 0 .. BackoffLen]
  /\ terminal \in [Pairs -> terminalCodes \cup {""}]
  /\ pending \in [Pairs -> Workers \cup {NoTimer}]
  /\ cancelled \in SUBSET Workers
  /\ inFlight \in [Pairs -> Nat \cup {Absent}]
  /\ epochs \in [Pairs -> Nat]
  /\ wakes \in SUBSET Pairs
  /\ wakeToken \in BOOLEAN
  /\ wakeLoop \in {"select", "swap", "done"}
  /\ closer \in {"open", "closed", "cancelled", "returned"}
  /\ pc \in [Goroutines -> Steps]
  /\ pair \in [Goroutines -> Pairs]
  /\ epoch \in [Goroutines -> Nat]
  /\ result \in [Goroutines -> Results]
  /\ todo \in [Callers -> SUBSET Pairs]
  /\ untried \in SUBSET Pairs

\* At most one goroutine drives a pair between ensure's admission and the end of
\* attempt, although ticker, RPCs, wakes and timers all call ensure, and a
\* reauthorization replaces the epoch under a running attempt.
SingleFlight ==
  \A g, h \in Goroutines :
    Flying(g) /\ Flying(h) /\ pair[g] = pair[h] => g = h

\* A scheduled retry has exactly one owner: the channel in the pending map is
\* open and its goroutine still holds it (closing it twice would panic), and a
\* goroutine that still waits on an open channel is the one in the map, so no
\* pair has two retries running.
TimerOwnership ==
  /\ \A p \in Pairs : pending[p] # NoTimer =>
       /\ pending[p] \notin cancelled
       /\ pc[pending[p]] \in TimerSteps
       /\ pair[pending[p]] = p
  /\ \A w \in Workers : pc[w] = "waiting" /\ w \notin cancelled => pending[pair[w]] = w

\* The wake channel holds one element and a send that finds it full is dropped,
\* yet no notification is stranded: as long as one is recorded, runWakes has a
\* token to take or is about to take the whole map.
WakeNotStranded ==
  wakes # {} /\ ~closed => wakeToken \/ wakeLoop = "swap"

\* "Results from its former scope cannot restore an old refusal or backoff": once
\* a pair is reauthorized, an attempt admitted before never records a refusal
\* and never arms a retry, not even in the window between attempt and schedule.
StaleAttemptLeavesNoTrace ==
  [][\A g \in Goroutines : LET p == pair[g] IN
       pc[g] \in {"settle", "schedule"} /\ pc'[g] # pc[g] /\ epoch[g] < epochs[p]
         => terminal'[p] = terminal[p] /\ pending'[p] = pending[p]
              /\ attempts'[p] = attempts[p]]_vars

\* After Close marked the engine closed nothing new starts: no attempt is
\* admitted, no retry armed, no refusal recorded, no notification queued, so
\* wait.Wait() only has to wait for what already ran.
ClosedAdmitsNothing ==
  [][closed => /\ \A p \in Pairs : /\ inFlight'[p] \in {inFlight[p], Absent}
                                   /\ pending'[p] \in {pending[p], NoTimer}
                                   /\ terminal'[p] \in {terminal[p], ""}
               /\ wakes' \subseteq wakes]_vars

\* Close's comment: it "waits for in-flight attempts to settle".
CloseJoinsAttempts ==
  closer = "returned" => \A p \in Pairs : inFlight[p] = Absent

\* The comment of terminalCodes: "Only exact durable Reauthorize publication
\* resets a stop", for a pair that is authorized.
OnlyReauthorizeResetsStop ==
  [][\A p \in Pairs : p \in auth /\ terminal[p] # "" /\ terminal'[p] = ""
       => epochs'[p] > epochs[p]]_vars

\* A reauthorization is never lost: whatever was in flight, the pair is
\* attempted under the new epoch.  The ticker is not assumed: in the behaviours
\* where nobody calls Reconcile again, wakes and timers alone carry it through.
ReauthorizedIsTried ==
  \A p \in Pairs : p \in untried ~> p \notin untried \/ closed

\* "A drop is followed by a retry": while the ticker runs, an authorized pair
\* that is down and not refused is attempted again.
DropIsRetried ==
  Ticker =>
    \A p \in Pairs :
      (p \in auth /\ stage[p] = "" /\ terminal[p] = "" /\ ~closed)
        ~> \/ \E g \in Goroutines : pc[g] = "connect" /\ pair[g] = p
           \/ stage[p] # "" \/ terminal[p] # "" \/ p \notin auth \/ closed

\* Close terminates: neither a timer nor runWakes nor an attempt holds the
\* WaitGroup forever.
CloseTerminates == closed ~> closer = "returned"

-----------------------------------------------------------------------------
(* For the small instances TLC checks.                                       *)

\* Goroutines of one kind are interchangeable; used only where no liveness
\* property is checked.
Symmetric == Permutations(Workers) \cup Permutations(Callers)

\* The liveness run.  Goroutines beside the first one run only in behaviours in
\* which nobody closes the engine, calls Reconcile or RetryNow or revokes a pair:
\* there wakes and timers alone must carry a reauthorization through.  With one
\* at a time, all of these may happen at any moment.
Untouched(G) == \A g \in G : pc[g] = "idle" /\ epoch[g] = 0 /\ result[g] = "nil"
Beside == Workers \ {CHOOSE w \in Workers : TRUE}
Alone ==
  /\ closer' = "open"
  /\ auth' = auth
  /\ \A c \in Callers : pc'[c] \notin {"intents", "reconcile"}
BoundedSpec ==
  Init /\ [][Next /\ ((Alone /\ Untouched(Callers)') \/ Untouched(Beside)')]_vars /\ Fairness
=============================================================================
