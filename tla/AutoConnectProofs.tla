-------------------------- MODULE AutoConnectProofs --------------------------
(***************************************************************************)
(* Proofs about the reconnection engine, for any number of pairs, callers  *)
(* and worker goroutines.                                                  *)
(***************************************************************************)
EXTENDS AutoConnect, TLAPS

\* The goroutine that drives a pair holds its in-flight mark, with its epoch.
FlightMarked == \A g \in Goroutines : Flying(g) => inFlight[pair[g]] = epoch[g]

-----------------------------------------------------------------------------
\* The backoff index starts in range.
LEMMA ZeroBackoff == 0 \in 0 .. BackoffLen
BY AutoConnectAssumption

\* A failure moves the backoff index to the next delay, or keeps it at the last.
LEMMA NextBackoff ==
  \A n \in 0 .. BackoffLen : (IF n < BackoffLen THEN n + 1 ELSE n) \in 0 .. BackoffLen
BY AutoConnectAssumption

\* A reauthorization starts another epoch.
LEMMA NextEpoch == \A n \in Nat : n + 1 \in Nat
OBVIOUS

\* No attempt's epoch can be mistaken for the absence of an attempt.
LEMMA AbsentIsNoEpoch == Absent \notin Nat
BY DEF Absent

\* New leaves the engine in a typed state.
LEMMA InitTypeOK == Init => TypeOK
<1> SUFFICES ASSUME Init PROVE TypeOK
  OBVIOUS
<1>1. (CHOOSE p \in Pairs : TRUE) \in Pairs
  BY AutoConnectAssumption
<1>2. attempts \in [Pairs -> 0 .. BackoffLen]
  BY ZeroBackoff DEF Init
<1>3. pc \in [Goroutines -> Steps] /\ pair \in [Goroutines -> Pairs]
  BY <1>1 DEF Init, Steps
<1> QED
  BY <1>2, <1>3 DEF Init, TypeOK, Stages, terminalCodes, Results, Absent

\* Cancelling retries only moves their goroutines to the closed channels.
LEMMA CancelPendingType ==
  ASSUME TypeOK, NEW ps \in SUBSET Pairs, CancelPending(ps)
  PROVE  /\ cancelled' \in SUBSET Workers
         /\ pending' \in [Pairs -> Workers \cup {NoTimer}]
BY DEF TypeOK, CancelPending

\* A notification keeps the types of all that it resets.
LEMMA WakeLockedType ==
  ASSUME TypeOK, NEW p \in Pairs, WakeLocked(p)
  PROVE  /\ cancelled' \in SUBSET Workers
         /\ pending' \in [Pairs -> Workers \cup {NoTimer}]
         /\ attempts' \in [Pairs -> 0 .. BackoffLen]
         /\ wakes' \in SUBSET Pairs
         /\ wakeToken' \in BOOLEAN
         /\ UNCHANGED <<terminal, inFlight, epochs>>
<1>1. CASE closed
  BY <1>1 DEF WakeLocked, engine, TypeOK
<1>2. CASE ~closed
  <2>1. CancelPending({p})
    BY <1>2 DEF WakeLocked
  <2> QED
    BY <1>2, <2>1, ZeroBackoff, CancelPendingType DEF WakeLocked, TypeOK
<1> QED
  BY <1>1, <1>2

\* A goroutine that leaves ensure is at a step of its own program.
LEMMA ReturnType == \A g \in Goroutines : Return(g) \in Steps
BY DEF Return, Steps

\* SpawnWakes only moves idle workers, to the start of ensure.
LEMMA SpawnEffect ==
  ASSUME TypeOK, SpawnWakes
  PROVE  /\ pair' \in [Goroutines -> Pairs]
         /\ pc' \in [Goroutines -> Steps]
         /\ \A g \in Goroutines :
              \/ pc'[g] = pc[g] /\ pair'[g] = pair[g]
              \/ g \in Workers /\ pc[g] = "idle" /\ pc'[g] = "ensure"
<1>1. PICK S \in SUBSET {w \in Workers : pc[w] = "idle"} :
        \E f \in Bijection(S, wakes) :
          /\ pair' = [g \in Goroutines |-> IF g \in S THEN f[g] ELSE pair[g]]
          /\ pc' = [g \in Goroutines |-> IF g \in S THEN "ensure" ELSE pc[g]]
  BY DEF SpawnWakes
<1>2. PICK f \in Bijection(S, wakes) :
        /\ pair' = [g \in Goroutines |-> IF g \in S THEN f[g] ELSE pair[g]]
        /\ pc' = [g \in Goroutines |-> IF g \in S THEN "ensure" ELSE pc[g]]
  BY <1>1
<1>3. f \in [S -> wakes]
  BY <1>2 DEF Bijection, Injection, IsInjective
<1>4. \A g \in S : f[g] \in Pairs /\ g \in Workers /\ pc[g] = "idle"
  BY <1>1, <1>3 DEF TypeOK
<1> QED
  BY <1>2, <1>4 DEF TypeOK, Steps

\* Every step of a caller, a worker, runWakes, Close or the world keeps the types.
LEMMA TypeStep == TypeOK /\ [Next]_vars => TypeOK'
<1> SUFFICES ASSUME TypeOK, [Next]_vars PROVE TypeOK'
  OBVIOUS
<1> USE ReturnType, ZeroBackoff DEF TypeOK
<1>1. ASSUME NEW c \in Callers, CallerStep(c) PROVE TypeOK'
  <2>0. c \in Goroutines
    BY DEF Goroutines
  <2>1. CASE ReconcileBegin(c)
    BY <2>0, <2>1 DEF ReconcileBegin, Only, Go, world, engine, wakeVars, locals, Steps
  <2>2. CASE ReadIntents(c)
    BY <2>0, <2>2 DEF ReadIntents, Go, world, engine, wakeVars, locals, Steps
  <2>3. CASE UnreadableCatalog(c)
    BY <2>0, <2>3 DEF UnreadableCatalog, Only, Go, world, engine, wakeVars, locals, Steps
  <2>4. CASE ForgetUnwanted(c)
    BY <2>0, <2>4 DEF ForgetUnwanted, Go, world, wakeVars, locals, Steps
  <2>5. CASE EnsureNext(c)
    <3>1. PICK p \in todo[c] : /\ todo' = [todo EXCEPT ![c] = @ \ {p}]
                               /\ pair' = [pair EXCEPT ![c] = p]
      BY <2>5 DEF EnsureNext
    <3>2. p \in Pairs
      BY <3>1
    <3> QED
      BY <2>0, <2>5, <3>1, <3>2 DEF EnsureNext, Go, world, engine, wakeVars, Steps
  <2>6. CASE ReconcileEnd(c)
    BY <2>0, <2>6 DEF ReconcileEnd, Only, Go, world, engine, wakeVars, locals, Steps
  <2>7. CASE RetryNow(c)
    <3>1. CancelPending(Pairs)
      BY <2>7 DEF RetryNow
    <3> QED
      BY <2>0, <2>7, <3>1, CancelPendingType DEF RetryNow, Go, world, wakeVars, locals, Steps
  <2>8. ASSUME NEW p \in Pairs, Reauthorize(c, p) PROVE TypeOK'
    <3>1. CancelPending({p})
      BY <2>8 DEF Reauthorize, reauthorizeLocked
    <3>2. /\ cancelled' \in SUBSET Workers
          /\ pending' \in [Pairs -> Workers \cup {NoTimer}]
      BY <3>1, CancelPendingType
    <3>3. /\ attempts' \in [Pairs -> 0 .. BackoffLen]
          /\ terminal' \in [Pairs -> terminalCodes \cup {""}]
          /\ UNCHANGED inFlight
      BY <2>8 DEF Reauthorize, reauthorizeLocked
    <3>4. epochs' \in [Pairs -> Nat]
      <4>1. epochs' = [epochs EXCEPT ![p] = epochs[p] + 1]
        BY <2>8 DEF Reauthorize, reauthorizeLocked
      <4>2. epochs[p] \in Nat
        OBVIOUS
      <4>3. epochs[p] + 1 \in Nat
        BY <4>2, NextEpoch
      <4> QED
        BY <4>1, <4>3
    <3> QED
      BY <2>0, <2>8, <3>2, <3>3, <3>4 DEF Reauthorize, Go, world, wakeVars, Steps
  <2>9. ASSUME NEW p \in Pairs, RecoverAuthorization(c, p) PROVE TypeOK'
    BY <2>8, <2>9 DEF RecoverAuthorization
  <2> QED
    BY <1>1, <2>1, <2>2, <2>3, <2>4, <2>5, <2>6, <2>7, <2>8, <2>9 DEF CallerStep
<1>2. ASSUME NEW g \in Goroutines, EnsureStep(g) PROVE TypeOK'
  <2>1. CASE EnsureSkips(g)
    BY <2>1 DEF EnsureSkips, Only, Go, world, engine, wakeVars, locals
  <2>2. CASE EnsureAdmits(g)
    BY <2>2 DEF EnsureAdmits, Go, world, wakeVars, Steps, FlightSteps
  <2>3. CASE ReadStage(g)
    BY <2>3 DEF ReadStage, Only, Go, world, engine, wakeVars, locals, Steps, FlightSteps
  <2>4. CASE AlreadyLive(g)
    BY <2>4 DEF AlreadyLive, Go, Leave, world, wakeVars, Steps, Results
  <2>5. CASE AttemptBegins(g)
    BY <2>5 DEF AttemptBegins, Only, Go, world, engine, wakeVars, locals, Steps, FlightSteps
  <2>6. CASE AttemptAbandoned(g)
    BY <2>6 DEF AttemptAbandoned, abandon, Go, Leave, world, wakeVars, Steps, Results
  <2>7. CASE ConnectSucceeds(g)
    <3>1. PICK s \in {"partial", "live"} : stage' = [stage EXCEPT ![pair[g]] = s]
      BY <2>7 DEF ConnectSucceeds
    <3> QED
      BY <2>7, <3>1
      DEF ConnectSucceeds, Go, engine, wakeVars, Steps, FlightSteps, Results, Stages
  <2>8. CASE ConnectFails(g)
    <3>1. PICK r \in Results : result' = [result EXCEPT ![g] = r]
      BY <2>8 DEF ConnectFails
    <3> QED
      BY <2>8, <3>1 DEF ConnectFails, Go, world, engine, wakeVars, Steps, FlightSteps
  <2>9. CASE VerifyWorkbench(g)
    BY <2>9 DEF VerifyWorkbench, Go, world, engine, wakeVars, Steps, FlightSteps, Results
  <2>10. CASE Settle(g)
    <3>1. attempts' \in [Pairs -> 0 .. BackoffLen]
      BY <2>10 DEF Settle
    <3>2. terminal' \in [Pairs -> terminalCodes \cup {""}]
      BY <2>10 DEF Settle, refuses
    <3>3. pc' \in [Goroutines -> Steps]
      BY <2>10 DEF Settle, Go, Steps
    <3>4. epoch' \in [Goroutines -> Nat] /\ result' \in [Goroutines -> Results]
      BY <2>10 DEF Settle, Results
    <3>5. inFlight' \in [Pairs -> Nat \cup {Absent}]
      BY <2>10 DEF Settle
    <3> QED
      BY <2>10, <3>1, <3>2, <3>3, <3>4, <3>5 DEF Settle, world, wakeVars
  <2>11. CASE ScheduleRefused(g)
    BY <2>11 DEF ScheduleRefused, Go, Leave, world, engine, wakeVars, Results
  <2>12. CASE Schedule(g)
    <3>1. PICK w \in (IF g \in Callers THEN {v \in Workers : pc[v] = "idle"} ELSE {g}) :
            /\ pending' = [pending EXCEPT ![pair[g]] = w]
            /\ pair' = [pair EXCEPT ![w] = pair[g]]
            /\ pc' = [pc EXCEPT ![g] = Return(g), ![w] = "waiting"]
      BY <2>12 DEF Schedule
    <3>2. w \in Workers /\ w \in Goroutines
      BY DEF Goroutines
    <3>3. attempts' \in [Pairs -> 0 .. BackoffLen]
      <4> DEFINE n == attempts[pair[g]]
      <4>1. n \in 0 .. BackoffLen
        OBVIOUS
      <4>2. (IF n < BackoffLen THEN n + 1 ELSE n) \in 0 .. BackoffLen
        BY <4>1, NextBackoff
      <4>3. attempts' = [attempts EXCEPT ![pair[g]] = IF n < BackoffLen THEN n + 1 ELSE n]
        BY <2>12 DEF Schedule
      <4> QED
        BY <4>2, <4>3
    <3>4. pc' \in [Goroutines -> Steps] /\ pair' \in [Goroutines -> Pairs]
      BY <3>1, <3>2 DEF Steps, TimerSteps
    <3> QED
      BY <2>12, <3>1, <3>2, <3>3, <3>4 DEF Schedule, Leave, world, wakeVars, Results
  <2>13. CASE WakeSelf(g)
    <3>1. pair[g] \in Pairs /\ WakeLocked(pair[g])
      BY <2>13 DEF WakeSelf
    <3> QED
      BY <2>13, <3>1, WakeLockedType DEF WakeSelf, Go, world, locals
  <2> QED
    BY <1>2, <2>1, <2>2, <2>3, <2>4, <2>5, <2>6, <2>7, <2>8, <2>9, <2>10, <2>11, <2>12,
       <2>13 DEF EnsureStep
<1>3. ASSUME NEW w \in Workers, TimerStep(w) PROVE TypeOK'
  <2>0. w \in Goroutines
    BY DEF Goroutines
  <2>1. CASE TimerFires(w)
    BY <2>0, <2>1 DEF TimerFires, Only, Go, world, engine, wakeVars, locals, Steps, TimerSteps
  <2>2. CASE TimerCancelled(w)
    BY <2>0, <2>2 DEF TimerCancelled, Go, world, wakeVars, locals, Steps
  <2>3. CASE TimerStopped(w)
    BY <2>0, <2>3 DEF TimerStopped, Only, Go, world, engine, wakeVars, locals, Steps, TimerSteps
  <2>4. CASE clearPending(w)
    BY <2>0, <2>4 DEF clearPending, Go, world, wakeVars, locals, Steps
  <2> QED
    BY <1>3, <2>1, <2>2, <2>3, <2>4 DEF TimerStep
<1>4. CASE TakeWake \/ SpawnWakes \/ WakesStop
  <2>1. CASE TakeWake
    BY <2>1 DEF TakeWake, world, engine, locals
  <2>2. CASE SpawnWakes
    BY <2>2, SpawnEffect DEF SpawnWakes, world, engine, Steps
  <2>3. CASE WakesStop
    BY <2>3 DEF WakesStop, world, engine, locals
  <2> QED
    BY <1>4, <2>1, <2>2, <2>3
<1>5. CASE CloseMarks \/ CloseCancels \/ CloseReturns
  BY <1>5 DEF CloseMarks, CloseCancels, CloseReturns, world, engine, wakeVars, locals
<1>6. ASSUME NEW p \in Pairs, WorldStep(p) PROVE TypeOK'
  <2>1. CASE Authorize(p)
    BY <2>1 DEF Authorize, engine, wakeVars, locals
  <2>2. CASE Revoke(p)
    BY <2>2 DEF Revoke, engine, wakeVars, locals, Stages
  <2>3. CASE SessionMoves(p)
    <3>1. PICK s \in Stages : stage' = [stage EXCEPT ![p] = s]
      BY <2>3 DEF SessionMoves
    <3> QED
      BY <2>3, <3>1 DEF SessionMoves, engine, wakeVars, locals
  <2>4. CASE SessionDrops(p)
    BY <2>4 DEF SessionDrops, engine, wakeVars, locals, Stages
  <2>5. CASE Wake(p)
    BY <2>5, WakeLockedType DEF Wake, locals
  <2> QED
    BY <1>6, <2>1, <2>2, <2>3, <2>4, <2>5 DEF WorldStep
<1>7. CASE UNCHANGED vars
  BY <1>7 DEF vars, world, engine, wakeVars, locals
<1> QED
  BY <1>1, <1>2, <1>3, <1>4, <1>5, <1>6, <1>7 DEF Next

\* The state of the engine has its type in every reachable state.
THEOREM TypeCorrect == Spec => []TypeOK
BY InitTypeOK, TypeStep, PTL DEF Spec

-----------------------------------------------------------------------------
(* Single flight.  Every step either leaves a goroutine's flight alone,    *)
(* starts one on a pair whose mark is absent, or ends it and clears the    *)
(* mark.                                                                   *)

FlightInv == TypeOK /\ FlightMarked /\ SingleFlight

\* What the flights may be read from is unchanged.
SameFlights ==
  /\ UNCHANGED inFlight
  /\ \A g \in Goroutines :
       Flying(g)' => Flying(g) /\ pair'[g] = pair[g] /\ epoch'[g] = epoch[g]

\* A step that starts and ends no attempt keeps SingleFlight.
LEMMA SameFlightsKeep ==
  ASSUME FlightInv, SameFlights PROVE FlightMarked' /\ SingleFlight'
BY DEF FlightInv, SameFlights, FlightMarked, SingleFlight, Flying

\* A goroutine that ends its flight clears the mark of its own pair.
EndsFlight(g) ==
  /\ Flying(g)
  /\ inFlight' = [inFlight EXCEPT ![pair[g]] = Absent]
  /\ \A h \in Goroutines : h # g => epoch'[h] = epoch[h]
  /\ UNCHANGED pair
  /\ \A h \in Goroutines : Flying(h)' => h # g /\ Flying(h)

\* The end of an attempt frees its own pair and no other.
LEMMA EndsFlightKeep ==
  ASSUME FlightInv, NEW g \in Goroutines, EndsFlight(g)
  PROVE  FlightMarked' /\ SingleFlight'
<1>1. \A h \in Goroutines : Flying(h)' => pair[h] # pair[g]
  BY DEF FlightInv, SingleFlight, EndsFlight, Flying
<1>2. FlightMarked'
  BY <1>1 DEF FlightInv, TypeOK, FlightMarked, EndsFlight, Flying
<1>3. SingleFlight'
  BY DEF FlightInv, SingleFlight, EndsFlight, Flying
<1> QED
  BY <1>2, <1>3

\* ensure admits an attempt only for a pair without one.
LEMMA AdmitKeeps ==
  ASSUME FlightInv, NEW g \in Goroutines, EnsureAdmits(g)
  PROVE  FlightMarked' /\ SingleFlight'
<1> USE DEF FlightInv
<1>0. /\ pair' = pair
      /\ pair[g] \in Pairs
      /\ inFlight[pair[g]] = Absent
      /\ inFlight' = [inFlight EXCEPT ![pair[g]] = epochs[pair[g]]]
      /\ epoch' = [epoch EXCEPT ![g] = epochs[pair[g]]]
      /\ pc' = [pc EXCEPT ![g] = "stage"]
  BY DEF EnsureAdmits, mayEnsure, Go, TypeOK
<1>1. \A h \in Goroutines : epoch[h] # Absent
  BY AbsentIsNoEpoch DEF TypeOK
<1>2. \A h \in Goroutines : Flying(h) => pair[h] # pair[g]
  BY <1>0, <1>1 DEF FlightMarked
<1>3. \A h \in Goroutines : Flying(h)' => h = g \/ Flying(h)
  BY <1>0 DEF Flying, TypeOK
<1>4. FlightMarked'
  BY <1>0, <1>2, <1>3 DEF FlightMarked, TypeOK
<1>5. SingleFlight'
  BY <1>0, <1>2, <1>3 DEF SingleFlight
<1> QED
  BY <1>4, <1>5

\* Every step keeps the marks and SingleFlight.
LEMMA FlightStep == FlightInv /\ [Next]_vars => FlightMarked' /\ SingleFlight'
<1> SUFFICES ASSUME FlightInv, [Next]_vars PROVE FlightMarked' /\ SingleFlight'
  OBVIOUS
<1> USE DEF FlightInv
<1>0. \A g \in Goroutines : Return(g) \notin FlightSteps
  BY DEF Return, FlightSteps
<1>1. ASSUME NEW c \in Callers, CallerStep(c) PROVE SameFlights
  <2>1. c \in Goroutines
    BY DEF Goroutines
  <2>2. /\ \E s \in Steps \ FlightSteps : pc' = [pc EXCEPT ![c] = s]
        /\ pc[c] \notin FlightSteps
    BY <1>1 DEF CallerStep, ReconcileBegin, ReadIntents, UnreadableCatalog, ForgetUnwanted,
         EnsureNext, ReconcileEnd, RetryNow, Reauthorize, RecoverAuthorization, Only, Go,
         Steps, FlightSteps
  <2>3. UNCHANGED <<inFlight, epoch>>
    BY <1>1 DEF CallerStep, ReconcileBegin, ReadIntents, UnreadableCatalog, ForgetUnwanted,
         EnsureNext, ReconcileEnd, RetryNow, Reauthorize, RecoverAuthorization, Only,
         reauthorizeLocked, engine, locals
  <2>4. \A g \in Goroutines : g # c => pair'[g] = pair[g]
    BY <1>1, <2>1 DEF CallerStep, ReconcileBegin, ReadIntents, UnreadableCatalog,
         ForgetUnwanted, EnsureNext, ReconcileEnd, RetryNow, Reauthorize,
         RecoverAuthorization, Only, locals, TypeOK
  <2> QED
    BY <2>1, <2>2, <2>3, <2>4 DEF SameFlights, Flying, TypeOK
<1>2. ASSUME NEW g \in Goroutines, EnsureStep(g)
      PROVE  SameFlights \/ EndsFlight(g) \/ EnsureAdmits(g)
  <2>1. CASE EnsureSkips(g)
    BY <2>1, <1>0 DEF EnsureSkips, Only, Go, engine, locals, SameFlights, Flying, TypeOK
  <2>2. CASE EnsureAdmits(g)
    BY <2>2
  <2>3. CASE ReadStage(g)
    BY <2>3 DEF ReadStage, Only, Go, engine, locals, SameFlights, Flying, TypeOK, FlightSteps
  <2>4. CASE AlreadyLive(g)
    BY <2>4, <1>0 DEF AlreadyLive, Go, Leave, EndsFlight, Flying, TypeOK, FlightSteps
  <2>5. CASE AttemptBegins(g)
    BY <2>5 DEF AttemptBegins, Only, Go, engine, locals, SameFlights, Flying, TypeOK, FlightSteps
  <2>6. CASE AttemptAbandoned(g)
    BY <2>6, <1>0 DEF AttemptAbandoned, abandon, Go, Leave, EndsFlight, Flying, TypeOK, FlightSteps
  <2>7. CASE ConnectSucceeds(g)
    BY <2>7 DEF ConnectSucceeds, Go, engine, SameFlights, Flying, TypeOK, FlightSteps
  <2>8. CASE ConnectFails(g)
    BY <2>8 DEF ConnectFails, Go, engine, SameFlights, Flying, TypeOK, FlightSteps
  <2>9. CASE VerifyWorkbench(g)
    BY <2>9 DEF VerifyWorkbench, Go, engine, SameFlights, Flying, TypeOK, FlightSteps
  <2>10. CASE Settle(g)
    BY <2>10, <1>0 DEF Settle, Go, EndsFlight, Flying, TypeOK, FlightSteps
  <2>11. CASE ScheduleRefused(g)
    BY <2>11, <1>0 DEF ScheduleRefused, Go, Leave, engine, SameFlights, Flying, TypeOK
  <2>12. CASE Schedule(g)
    <3>1. PICK w \in (IF g \in Callers THEN {v \in Workers : pc[v] = "idle"} ELSE {g}) :
            /\ pair' = [pair EXCEPT ![w] = pair[g]]
            /\ pc' = [pc EXCEPT ![g] = Return(g), ![w] = "waiting"]
      BY <2>12 DEF Schedule
    <3>2. "waiting" \notin FlightSteps
      BY DEF FlightSteps
    <3>3. \A h \in Goroutines : pc'[h] \in FlightSteps => h # g /\ h # w /\ pc'[h] = pc[h]
      BY <1>0, <3>1, <3>2 DEF TypeOK
    <3>4. \A h \in Goroutines : h # w => pair'[h] = pair[h]
      BY <3>1 DEF TypeOK
    <3> QED
      BY <2>12, <3>3, <3>4 DEF Schedule, Leave, SameFlights, Flying, TypeOK
  <2>13. CASE WakeSelf(g)
    BY <2>13, <1>0, WakeLockedType DEF WakeSelf, Go, locals, SameFlights, Flying, TypeOK
  <2> QED
    BY <1>2, <2>1, <2>2, <2>3, <2>4, <2>5, <2>6, <2>7, <2>8, <2>9, <2>10, <2>11, <2>12,
       <2>13 DEF EnsureStep
<1>3. ASSUME NEW w \in Workers, TimerStep(w) PROVE SameFlights
  BY <1>3 DEF TimerStep, TimerFires, TimerCancelled, TimerStopped, clearPending, Only, Go,
       engine, locals, SameFlights, Flying, FlightSteps, TypeOK, Goroutines
<1>4. CASE TakeWake \/ SpawnWakes \/ WakesStop
  <2>1. UNCHANGED <<inFlight, epoch>>
    BY <1>4 DEF TakeWake, SpawnWakes, WakesStop, engine, locals
  <2>2. \A g \in Goroutines :
          \/ pc'[g] = pc[g] /\ pair'[g] = pair[g]
          \/ pc'[g] = "ensure"
    BY <1>4, SpawnEffect DEF TakeWake, WakesStop, locals
  <2> QED
    BY <2>1, <2>2, SameFlightsKeep DEF SameFlights, Flying, FlightSteps
<1>5. CASE \/ CloseMarks \/ CloseCancels \/ CloseReturns \/ UNCHANGED vars
  BY <1>5, SameFlightsKeep DEF CloseMarks, CloseCancels, CloseReturns, vars, engine, locals,
     SameFlights, Flying
<1>6. ASSUME NEW p \in Pairs, WorldStep(p) PROVE SameFlights
  BY <1>6, WakeLockedType DEF WorldStep, Authorize, Revoke, SessionMoves, SessionDrops, Wake,
     engine, locals, SameFlights, Flying
<1> QED
  BY <1>1, <1>2, <1>3, <1>4, <1>5, <1>6, SameFlightsKeep, EndsFlightKeep, AdmitKeeps DEF Next

\* For any number of pairs, callers and workers, no two goroutines ever drive
\* the same pair at once (ensure and attempt of engine.go).
THEOREM SingleFlightHolds == Spec => []SingleFlight
<1>1. Init => FlightInv
  BY InitTypeOK DEF FlightInv, Init, FlightMarked, SingleFlight, Flying, FlightSteps
<1>2. FlightInv /\ [Next]_vars => FlightInv'
  BY TypeStep, FlightStep DEF FlightInv
<1> QED
  BY <1>1, <1>2, PTL DEF Spec, FlightInv

-----------------------------------------------------------------------------
(* Wakes.  The token and the map change together, and only runWakes takes  *)
(* either.                                                                 *)

KeepsWakes == UNCHANGED wakeVars /\ (closed => closed')

\* A step that does not touch the notifications strands none.
LEMMA KeepsWakesKeep ==
  ASSUME WakeNotStranded, KeepsWakes PROVE WakeNotStranded'
BY DEF WakeNotStranded, KeepsWakes, wakeVars

\* A recorded notification comes with a token, also when the channel was full.
LEMMA WakeLockedKeeps ==
  ASSUME NEW p \in Pairs, WakeNotStranded, WakeLocked(p), UNCHANGED <<wakeLoop, closer>>
  PROVE  WakeNotStranded'
BY DEF WakeNotStranded, WakeLocked, closed

\* Every step keeps WakeNotStranded.
LEMMA WakeStep == TypeOK /\ WakeNotStranded /\ [Next]_vars => WakeNotStranded'
<1> SUFFICES ASSUME TypeOK, WakeNotStranded, [Next]_vars PROVE WakeNotStranded'
  OBVIOUS
<1>1. ASSUME NEW c \in Callers, CallerStep(c) PROVE KeepsWakes
  BY <1>1 DEF CallerStep, ReconcileBegin, ReadIntents, UnreadableCatalog, ForgetUnwanted,
       EnsureNext, ReconcileEnd, RetryNow, Reauthorize, RecoverAuthorization, Only,
       KeepsWakes, closed
<1>2. ASSUME NEW g \in Goroutines, EnsureStep(g) PROVE WakeNotStranded'
  <2>1. CASE WakeSelf(g)
    <3>1. pair[g] \in Pairs
      BY DEF TypeOK
    <3> QED
      BY <2>1, <3>1, WakeLockedKeeps DEF WakeSelf
  <2>2. CASE ~WakeSelf(g)
    <3>1. KeepsWakes
      BY <1>2, <2>2 DEF EnsureStep, EnsureSkips, EnsureAdmits, ReadStage, AlreadyLive,
           AttemptBegins, AttemptAbandoned, ConnectSucceeds, ConnectFails, VerifyWorkbench,
           Settle, ScheduleRefused, Schedule, Only, KeepsWakes, closed
    <3> QED
      BY <3>1, KeepsWakesKeep
  <2> QED
    BY <2>1, <2>2
<1>3. ASSUME NEW w \in Workers, TimerStep(w) PROVE KeepsWakes
  BY <1>3 DEF TimerStep, TimerFires, TimerCancelled, TimerStopped, clearPending, Only,
       KeepsWakes, closed
<1>4. CASE TakeWake
  BY <1>4 DEF TakeWake, WakeNotStranded
<1>5. CASE SpawnWakes
  BY <1>5 DEF SpawnWakes, WakeNotStranded
<1>6. CASE WakesStop
  BY <1>6 DEF WakesStop, WakeNotStranded, closed, ctxDone
<1>7. CASE CloseMarks \/ CloseCancels \/ CloseReturns \/ UNCHANGED vars
  BY <1>7, KeepsWakesKeep DEF CloseMarks, CloseCancels, CloseReturns, vars, KeepsWakes, closed
<1>8. ASSUME NEW p \in Pairs, WorldStep(p) PROVE WakeNotStranded'
  <2>1. CASE Wake(p)
    BY <2>1, WakeLockedKeeps DEF Wake
  <2>2. CASE ~Wake(p)
    BY <1>8, <2>2, KeepsWakesKeep DEF WorldStep, Authorize, Revoke, SessionMoves,
       SessionDrops, KeepsWakes, closed
  <2> QED
    BY <2>1, <2>2
<1> QED
  BY <1>1, <1>2, <1>3, <1>4, <1>5, <1>6, <1>7, <1>8, KeepsWakesKeep DEF Next

\* Whatever the interleaving of senders with the loop, a recorded notification is
\* never without a token or a reader (Wake and runWakes of wake.go).
THEOREM WakeNotStrandedHolds == Spec => []WakeNotStranded
<1>1. Init => TypeOK /\ WakeNotStranded
  BY InitTypeOK DEF Init, WakeNotStranded
<1>2. TypeOK /\ WakeNotStranded /\ [Next]_vars => (TypeOK /\ WakeNotStranded)'
  BY TypeStep, WakeStep
<1> QED
  BY <1>1, <1>2, PTL DEF Spec

-----------------------------------------------------------------------------
(* A superseded attempt.  Only the goroutine itself moves out of settle    *)
(* and schedule, and both compare the epoch under the lock.                *)

Concluding(g) == pc[g] \in {"settle", "schedule"}

\* Only the goroutine itself takes the steps that settle its attempt.
LEMMA OnlyItselfConcludes ==
  ASSUME TypeOK, [Next]_vars, NEW g \in Goroutines, Concluding(g), pc'[g] # pc[g]
  PROVE  EnsureStep(g)
<1>1. ASSUME NEW c \in Callers, CallerStep(c) PROVE FALSE
  <2>1. c \in Goroutines /\ pc[c] \notin {"settle", "schedule"}
    BY <1>1 DEF CallerStep, ReconcileBegin, ReadIntents, UnreadableCatalog, ForgetUnwanted,
         EnsureNext, ReconcileEnd, RetryNow, Reauthorize, RecoverAuthorization, Goroutines
  <2>2. \E s \in Steps : pc' = [pc EXCEPT ![c] = s]
    BY <1>1 DEF CallerStep, ReconcileBegin, ReadIntents, UnreadableCatalog, ForgetUnwanted,
         EnsureNext, ReconcileEnd, RetryNow, Reauthorize, RecoverAuthorization, Only, Go,
         Steps
  <2> QED
    BY <2>1, <2>2 DEF Concluding, TypeOK
<1>2. ASSUME NEW h \in Goroutines, EnsureStep(h), h # g PROVE FALSE
  <2>1. CASE Schedule(h)
    <3>1. PICK w \in (IF h \in Callers THEN {v \in Workers : pc[v] = "idle"} ELSE {h}) :
            pc' = [pc EXCEPT ![h] = Return(h), ![w] = "waiting"]
      BY <2>1 DEF Schedule
    <3>2. w # g
      BY <3>1, <1>2 DEF Concluding
    <3> QED
      BY <3>1, <3>2, <1>2 DEF TypeOK
  <2>2. CASE ~Schedule(h)
    <3>1. \A k \in Goroutines : k # h => pc'[k] = pc[k]
      BY <1>2, <2>2 DEF TypeOK, EnsureStep, EnsureSkips, EnsureAdmits, ReadStage, AlreadyLive,
           AttemptBegins, AttemptAbandoned, abandon, ConnectSucceeds, ConnectFails,
           VerifyWorkbench, Settle, ScheduleRefused, WakeSelf, Only, Go, Return
    <3> QED
      BY <3>1, <1>2 DEF TypeOK
  <2> QED
    BY <2>1, <2>2
<1>3. ASSUME NEW w \in Workers, TimerStep(w) PROVE FALSE
  <2>1. w \in Goroutines /\ pc[w] \notin {"settle", "schedule"}
    BY <1>3 DEF TimerStep, TimerFires, TimerCancelled, TimerStopped, clearPending, Goroutines
  <2>2. \E s \in Steps : pc' = [pc EXCEPT ![w] = s]
    BY <1>3 DEF TimerStep, TimerFires, TimerCancelled, TimerStopped, clearPending, Only, Go,
         Steps, TimerSteps
  <2> QED
    BY <2>1, <2>2 DEF Concluding, TypeOK
<1>4. CASE SpawnWakes
  <2>1. PICK S \in SUBSET {w \in Workers : pc[w] = "idle"} :
          pc' = [h \in Goroutines |-> IF h \in S THEN "ensure" ELSE pc[h]]
    BY <1>4 DEF SpawnWakes
  <2> QED
    BY <2>1 DEF Concluding
<1>5. CASE \/ TakeWake \/ WakesStop \/ CloseMarks \/ CloseCancels \/ CloseReturns
           \/ UNCHANGED vars
  BY <1>5 DEF TakeWake, WakesStop, CloseMarks, CloseCancels, CloseReturns, vars
<1>6. ASSUME NEW p \in Pairs, WorldStep(p) PROVE FALSE
  BY <1>6 DEF WorldStep, Authorize, Revoke, SessionMoves, SessionDrops, Wake
<1> QED
  BY <1>1, <1>2, <1>3, <1>4, <1>5, <1>6 DEF Next

\* An attempt of a superseded epoch leaves refusals, retries and backoff alone.
LEMMA StaleStep ==
  ASSUME TypeOK, NEW g \in Goroutines, EnsureStep(g), Concluding(g),
         epoch[g] < epochs[pair[g]]
  PROVE  UNCHANGED <<terminal, pending, attempts>>
<1>1. epochs[pair[g]] # epoch[g]
  <2>1. epoch[g] \in Nat /\ epochs[pair[g]] \in Nat
    BY DEF TypeOK
  <2> QED
    BY <2>1
<1>2. CASE Settle(g)
  BY <1>1, <1>2 DEF Settle
<1>3. CASE ScheduleRefused(g)
  BY <1>3 DEF ScheduleRefused, engine
<1>4. CASE Schedule(g)
  BY <1>1, <1>4 DEF Schedule, maySchedule
<1> QED
  BY <1>2, <1>3, <1>4 DEF EnsureStep, EnsureSkips, EnsureAdmits, ReadStage, AlreadyLive,
     AttemptBegins, AttemptAbandoned, ConnectSucceeds, ConnectFails, VerifyWorkbench,
     WakeSelf, Concluding

\* An attempt whose pair has been reauthorized meanwhile records no refusal and
\* arms no retry, also in the window between the two locks (attempt and schedule).
THEOREM StaleAttemptLeavesNoTraceHolds == Spec => StaleAttemptLeavesNoTrace
<1>1. TypeOK /\ [Next]_vars =>
        [\A g \in Goroutines : LET p == pair[g] IN
           pc[g] \in {"settle", "schedule"} /\ pc'[g] # pc[g] /\ epoch[g] < epochs[p]
             => terminal'[p] = terminal[p] /\ pending'[p] = pending[p]
                  /\ attempts'[p] = attempts[p]]_vars
  BY OnlyItselfConcludes, StaleStep DEF Concluding
<1> QED
  BY <1>1, TypeCorrect, PTL DEF Spec, StaleAttemptLeavesNoTrace

-----------------------------------------------------------------------------
(* Retry timers.  A goroutine in the pending map is known to wait for that *)
(* pair, and a closed channel is still held by the one that will see it:   *)
(* so a goroutine chosen for a new wait holds no closed channel.           *)

CancelledHeld == \A w \in cancelled : pc[w] \in TimerSteps
TimerInv == TypeOK /\ CancelledHeld /\ TimerOwnership

\* Waiting goroutines stay what they are and no new one appears.
SameWaits ==
  \A w \in Workers :
    /\ pc[w] \in TimerSteps => pc'[w] \in TimerSteps /\ pair'[w] = pair[w]
    /\ pc'[w] = "waiting" => pc[w] = "waiting"

\* What the invariant says of a goroutine in the map.
LEMMA PendingWaits ==
  ASSUME TimerInv, NEW p \in Pairs, pending[p] # NoTimer
  PROVE  /\ pending[p] \in Workers /\ pending[p] \notin cancelled
         /\ pc[pending[p]] \in TimerSteps /\ pair[pending[p]] = p
<1>1. pending[p] \in Workers
  <2>1. pending[p] \in Workers \cup {NoTimer}
    BY DEF TimerInv, TypeOK
  <2> QED
    BY <2>1
<1> QED
  BY <1>1 DEF TimerInv, TimerOwnership

\* A step that touches no retry keeps their ownership.
LEMMA SameTimersKeep ==
  ASSUME TimerInv, SameWaits, UNCHANGED <<pending, cancelled>>
  PROVE  CancelledHeld' /\ TimerOwnership'
<1>1. CancelledHeld'
  BY DEF TimerInv, CancelledHeld, SameWaits, TypeOK
<1>2. ASSUME NEW p \in Pairs, pending'[p] # NoTimer
      PROVE  pending'[p] \notin cancelled' /\ pc'[pending'[p]] \in TimerSteps
               /\ pair'[pending'[p]] = p
  <2>1. pending[p] \in Workers /\ pc[pending[p]] \in TimerSteps /\ pair[pending[p]] = p
    BY <1>2, PendingWaits
  <2> QED
    BY <1>2, <2>1 DEF TimerInv, TimerOwnership, SameWaits
<1>3. ASSUME NEW w \in Workers, pc'[w] = "waiting", w \notin cancelled'
      PROVE  pending'[pair'[w]] = w
  <2>1. pc[w] = "waiting" /\ pair'[w] = pair[w]
    BY <1>3 DEF SameWaits, TimerSteps
  <2> QED
    BY <1>3, <2>1 DEF TimerInv, TimerOwnership
<1> QED
  BY <1>1, <1>2, <1>3 DEF TimerOwnership

\* Closing the channels of some pairs removes them from the map: none is closed twice.
LEMMA CancelKeeps ==
  ASSUME TimerInv, SameWaits, NEW ps \in SUBSET Pairs, CancelPending(ps)
  PROVE  CancelledHeld' /\ TimerOwnership'
<1>1. \A p \in Pairs : pending[p] # NoTimer =>
        /\ pending[p] \in Workers /\ pending[p] \notin cancelled
        /\ pc[pending[p]] \in TimerSteps /\ pair[pending[p]] = p
  BY PendingWaits
<1>2. \A w : w \in cancelled' <=>
        w \in cancelled \/ \E p \in ps : pending[p] # NoTimer /\ w = pending[p]
  BY DEF CancelPending
<1>3. \A p \in Pairs : pending'[p] = IF p \in ps THEN NoTimer ELSE pending[p]
  BY DEF CancelPending
<1>4. CancelledHeld'
  <2> SUFFICES ASSUME NEW w \in cancelled' PROVE pc'[w] \in TimerSteps
    BY DEF CancelledHeld
  <2>1. w \in cancelled => w \in Workers /\ pc[w] \in TimerSteps
    BY DEF TimerInv, CancelledHeld, TypeOK
  <2>2. w \notin cancelled => w \in Workers /\ pc[w] \in TimerSteps
    BY <1>1, <1>2
  <2> QED
    BY <2>1, <2>2 DEF SameWaits
<1>5. ASSUME NEW p \in Pairs, pending'[p] # NoTimer
      PROVE  pending'[p] \notin cancelled' /\ pc'[pending'[p]] \in TimerSteps
               /\ pair'[pending'[p]] = p
  <2>1. p \notin ps /\ pending'[p] = pending[p]
    BY <1>3, <1>5
  <2>2. pending[p] \notin cancelled'
    BY <1>1, <1>2, <1>5, <2>1
  <2> QED
    BY <1>1, <1>5, <2>1, <2>2 DEF SameWaits
<1>6. ASSUME NEW w \in Workers, pc'[w] = "waiting", w \notin cancelled'
      PROVE  pending'[pair'[w]] = w
  <2>1. pc[w] = "waiting" /\ pair'[w] = pair[w] /\ pair[w] \in Pairs
    BY <1>6 DEF SameWaits, TimerSteps, TimerInv, TypeOK, Goroutines
  <2>2. pending[pair[w]] = w
    BY <1>2, <1>6, <2>1 DEF TimerInv, TimerOwnership
  <2>3. w # NoTimer
    BY AutoConnectAssumption
  <2> QED
    BY <1>2, <1>3, <1>6, <2>1, <2>2, <2>3
<1> QED
  BY <1>4, <1>5, <1>6 DEF TimerOwnership

\* A notification cancels the pair's own retry only.
LEMMA WakeLockedKeepsTimers ==
  ASSUME TimerInv, SameWaits, NEW p \in Pairs, WakeLocked(p)
  PROVE  CancelledHeld' /\ TimerOwnership'
<1>1. CASE closed
  BY <1>1, SameTimersKeep DEF WakeLocked, engine
<1>2. CASE ~closed
  <2>1. CancelPending({p})
    BY <1>2 DEF WakeLocked
  <2> QED
    BY <2>1, CancelKeeps
<1> QED
  BY <1>1, <1>2

\* The goroutine that starts to wait: an idle worker, or the worker that schedules.
LEMMA ScheduleKeeps ==
  ASSUME TimerInv, NEW g \in Goroutines, Schedule(g)
  PROVE  CancelledHeld' /\ TimerOwnership'
<1> DEFINE p == pair[g]
<1>1. PICK w \in (IF g \in Callers THEN {v \in Workers : pc[v] = "idle"} ELSE {g}) :
        /\ pending' = [pending EXCEPT ![p] = w]
        /\ pair' = [pair EXCEPT ![w] = p]
        /\ pc' = [pc EXCEPT ![g] = Return(g), ![w] = "waiting"]
  BY DEF Schedule
<1>2. w \in Workers /\ w \in Goroutines /\ pc[w] \notin TimerSteps /\ p \in Pairs
  BY <1>1 DEF Goroutines, Schedule, TimerSteps, TimerInv, TypeOK
<1>3. w \notin cancelled /\ UNCHANGED cancelled /\ pending[p] = NoTimer
  BY <1>2 DEF TimerInv, CancelledHeld, Schedule, maySchedule
<1>4. pc'[w] = "waiting" /\ pair'[w] = p
  BY <1>1, <1>2 DEF TimerInv, TypeOK
<1>5. Return(g) # "waiting" /\ "waiting" \in TimerSteps /\ pc[g] \notin TimerSteps
  BY DEF Return, TimerSteps, Schedule
<1>6. \A v \in Workers : v # w /\ pc[v] \in TimerSteps =>
        v \in Goroutines /\ pc'[v] = pc[v] /\ pair'[v] = pair[v]
  BY <1>1, <1>5 DEF Goroutines, TimerInv, TypeOK
<1>7. \A v \in Workers : v # w /\ pc'[v] = "waiting" => pc[v] = "waiting"
  BY <1>1, <1>5 DEF Goroutines, TimerInv, TypeOK
<1>8. CancelledHeld'
  <2> SUFFICES ASSUME NEW v \in cancelled PROVE pc'[v] \in TimerSteps
    BY <1>3 DEF CancelledHeld
  <2>1. v \in Workers /\ pc[v] \in TimerSteps
    BY DEF TimerInv, CancelledHeld, TypeOK
  <2> QED
    BY <1>3, <1>6, <2>1
<1>9. ASSUME NEW q \in Pairs, pending'[q] # NoTimer
      PROVE  pending'[q] \notin cancelled' /\ pc'[pending'[q]] \in TimerSteps
               /\ pair'[pending'[q]] = q
  <2>1. CASE q = p
    <3>1. pending'[q] = w
      BY <1>1, <1>2, <2>1 DEF TimerInv, TypeOK
    <3> QED
      BY <1>3, <1>4, <1>5, <2>1, <3>1
  <2>2. CASE q # p
    <3>1. pending'[q] = pending[q]
      BY <1>1, <2>2 DEF TimerInv, TypeOK
    <3>2. pending[q] # w
      BY <1>2, <1>9, <3>1, PendingWaits
    <3> QED
      BY <1>3, <1>6, <1>9, <3>1, <3>2, PendingWaits
  <2> QED
    BY <2>1, <2>2
<1>10. ASSUME NEW v \in Workers, pc'[v] = "waiting", v \notin cancelled'
       PROVE  pending'[pair'[v]] = v
  <2>1. CASE v = w
    BY <1>1, <1>2, <1>4, <2>1 DEF TimerInv, TypeOK
  <2>2. CASE v # w
    <3>1. pc[v] = "waiting" /\ pair'[v] = pair[v] /\ pair[v] \in Pairs
      BY <1>5, <1>6, <1>7, <1>10, <2>2 DEF TimerInv, TypeOK, Goroutines
    <3>2. pending[pair[v]] = v
      BY <1>3, <1>10, <3>1 DEF TimerInv, TimerOwnership
    <3>3. pair[v] # p
      BY <1>3, <3>2, AutoConnectAssumption
    <3> QED
      BY <1>1, <3>1, <3>2, <3>3 DEF TimerInv, TypeOK
  <2> QED
    BY <2>1, <2>2
<1> QED
  BY <1>8, <1>9, <1>10 DEF TimerOwnership

\* A wait ends: its goroutine leaves the map and the closed channels with it.
LEMMA WaitEndsKeep ==
  ASSUME TimerInv, NEW w \in Workers, TimerCancelled(w) \/ clearPending(w)
  PROVE  CancelledHeld' /\ TimerOwnership'
<1>1. /\ UNCHANGED pair
      /\ cancelled' = cancelled \ {w}
      /\ \A v \in Workers : v # w => pc'[v] = pc[v]
      /\ pc'[w] # "waiting"
  BY DEF TimerCancelled, clearPending, Go, locals, TimerInv, TypeOK, Goroutines
<1>2. \A p \in Pairs : pending'[p] = IF pending[p] = w THEN NoTimer ELSE pending[p]
  <2>1. CASE TimerCancelled(w)
    BY <2>1, PendingWaits DEF TimerCancelled
  <2>2. CASE clearPending(w) /\ ownsPending(w)
    <3>1. pair[w] \in Pairs /\ pending[pair[w]] = w /\ w # NoTimer
      BY <2>2, AutoConnectAssumption DEF ownsPending, TimerInv, TypeOK, Goroutines
    <3>2. \A p \in Pairs : pending[p] = w => p = pair[w]
      BY <3>1, PendingWaits
    <3>3. \A p \in Pairs : pending'[p] = IF p = pair[w] THEN NoTimer ELSE pending[p]
      BY <2>2 DEF clearPending, TimerInv, TypeOK
    <3> QED
      BY <3>1, <3>2, <3>3
  <2>3. CASE clearPending(w) /\ ~ownsPending(w)
    BY <2>3, PendingWaits, AutoConnectAssumption DEF clearPending, ownsPending
  <2> QED
    BY <2>1, <2>2, <2>3
<1>3. CancelledHeld'
  BY <1>1 DEF TimerInv, CancelledHeld, TypeOK
<1>4. ASSUME NEW p \in Pairs, pending'[p] # NoTimer
      PROVE  pending'[p] \notin cancelled' /\ pc'[pending'[p]] \in TimerSteps
               /\ pair'[pending'[p]] = p
  BY <1>1, <1>2, <1>4, PendingWaits
<1>5. ASSUME NEW v \in Workers, pc'[v] = "waiting", v \notin cancelled'
      PROVE  pending'[pair'[v]] = v
  <2>1. v # w /\ pc[v] = "waiting" /\ pair[v] \in Pairs
    BY <1>1, <1>5 DEF TimerInv, TypeOK, Goroutines
  <2>2. pending[pair[v]] = v
    BY <1>1, <1>5, <2>1 DEF TimerInv, TimerOwnership
  <2> QED
    BY <1>1, <1>2, <2>1, <2>2
<1> QED
  BY <1>3, <1>4, <1>5 DEF TimerOwnership

\* Every step keeps the ownership of the retries.
LEMMA TimerStepKeeps == TimerInv /\ [Next]_vars => CancelledHeld' /\ TimerOwnership'
<1> SUFFICES ASSUME TimerInv, [Next]_vars PROVE CancelledHeld' /\ TimerOwnership'
  OBVIOUS
<1>0. \A g \in Goroutines : Return(g) \notin TimerSteps
  BY DEF Return, TimerSteps
<1>1. ASSUME NEW c \in Callers, CallerStep(c) PROVE CancelledHeld' /\ TimerOwnership'
  <2>1. \A w \in Workers : w # c /\ w \in Goroutines
    BY AutoConnectAssumption DEF Goroutines
  <2>2. \A w \in Workers : pc'[w] = pc[w]
    BY <1>1, <2>1 DEF CallerStep, ReconcileBegin, ReadIntents, UnreadableCatalog,
         ForgetUnwanted, EnsureNext, ReconcileEnd, RetryNow, Reauthorize,
         RecoverAuthorization, Only, Go, TimerInv, TypeOK
  <2>3. \A w \in Workers : pair'[w] = pair[w]
    BY <1>1, <2>1 DEF CallerStep, ReconcileBegin, ReadIntents, UnreadableCatalog,
         ForgetUnwanted, EnsureNext, ReconcileEnd, RetryNow, Reauthorize,
         RecoverAuthorization, Only, locals, TimerInv, TypeOK
  <2>4. SameWaits
    BY <2>2, <2>3 DEF SameWaits
  <2>5. \/ UNCHANGED <<pending, cancelled>>
        \/ \E ps \in SUBSET Pairs : CancelPending(ps)
    <3>1. CASE RetryNow(c)
      <4>1. CancelPending(Pairs)
        BY <3>1 DEF RetryNow
      <4> QED
        BY <4>1
    <3>2. ASSUME NEW p \in Pairs, Reauthorize(c, p)
          PROVE  \E ps \in SUBSET Pairs : CancelPending(ps)
      <4>1. CancelPending({p})
        BY <3>2 DEF Reauthorize, reauthorizeLocked
      <4> QED
        BY <4>1
    <3> QED
      BY <1>1, <3>1, <3>2 DEF CallerStep, ReconcileBegin, ReadIntents, UnreadableCatalog,
         ForgetUnwanted, EnsureNext, ReconcileEnd, RecoverAuthorization, Only, engine
  <2> QED
    BY <2>4, <2>5, SameTimersKeep, CancelKeeps
<1>2. ASSUME NEW g \in Goroutines, EnsureStep(g) PROVE CancelledHeld' /\ TimerOwnership'
  <2>1. CASE Schedule(g)
    BY <2>1, ScheduleKeeps
  <2>2. CASE ~Schedule(g)
    <3>1. /\ pc[g] \notin TimerSteps /\ UNCHANGED pair
          /\ \A h \in Goroutines : h # g => pc'[h] = pc[h]
      BY <1>2, <2>2 DEF EnsureStep, EnsureSkips, EnsureAdmits, ReadStage, AlreadyLive,
           AttemptBegins, AttemptAbandoned, ConnectSucceeds, ConnectFails, VerifyWorkbench,
           Settle, ScheduleRefused, WakeSelf, Only, Go, locals, TimerSteps, TimerInv, TypeOK
    <3>2. pc'[g] # "waiting"
      BY <1>0, <1>2, <2>2 DEF EnsureStep, EnsureSkips, EnsureAdmits, ReadStage, AlreadyLive,
           AttemptBegins, AttemptAbandoned, abandon, ConnectSucceeds, ConnectFails,
           VerifyWorkbench, Settle, ScheduleRefused, WakeSelf, Only, Go, TimerSteps,
           TimerInv, TypeOK
    <3>3. SameWaits
      BY <3>1, <3>2 DEF SameWaits, Goroutines
    <3>4. CASE WakeSelf(g)
      <4>1. pair[g] \in Pairs
        BY DEF TimerInv, TypeOK
      <4> QED
        BY <3>3, <3>4, <4>1, WakeLockedKeepsTimers DEF WakeSelf
    <3>5. CASE ~WakeSelf(g)
      <4>1. UNCHANGED <<pending, cancelled>>
        BY <1>2, <2>2, <3>5 DEF EnsureStep, EnsureSkips, EnsureAdmits, ReadStage,
             AlreadyLive, AttemptBegins, AttemptAbandoned, ConnectSucceeds, ConnectFails,
             VerifyWorkbench, Settle, ScheduleRefused, Only, engine
      <4> QED
        BY <3>3, <4>1, SameTimersKeep
    <3> QED
      BY <3>4, <3>5
  <2> QED
    BY <2>1, <2>2
<1>3. ASSUME NEW w \in Workers, TimerStep(w) PROVE CancelledHeld' /\ TimerOwnership'
  <2>1. CASE TimerCancelled(w) \/ clearPending(w)
    BY <2>1, WaitEndsKeep
  <2>2. CASE TimerFires(w) \/ TimerStopped(w)
    <3>1. SameWaits
      BY <2>2 DEF TimerFires, TimerStopped, Only, Go, locals, SameWaits, TimerSteps,
         TimerInv, TypeOK, Goroutines
    <3> QED
      BY <2>2, <3>1, SameTimersKeep DEF TimerFires, TimerStopped, Only, engine
  <2> QED
    BY <1>3, <2>1, <2>2 DEF TimerStep
<1>4. CASE TakeWake \/ SpawnWakes \/ WakesStop
  <2>1. \A g \in Goroutines :
          \/ pc'[g] = pc[g] /\ pair'[g] = pair[g]
          \/ pc[g] = "idle" /\ pc'[g] = "ensure"
    <3>1. CASE SpawnWakes
      BY <3>1, SpawnEffect DEF TimerInv
    <3>2. CASE TakeWake \/ WakesStop
      BY <3>2 DEF TakeWake, WakesStop, locals
    <3> QED
      BY <1>4, <3>1, <3>2
  <2>2. SameWaits
    BY <2>1 DEF SameWaits, TimerSteps, Goroutines
  <2> QED
    BY <1>4, <2>2, SameTimersKeep DEF TakeWake, SpawnWakes, WakesStop, engine
<1>5. CASE CloseMarks \/ CloseCancels \/ CloseReturns \/ UNCHANGED vars
  <2>1. UNCHANGED <<pc, pair, pending, cancelled>>
    BY <1>5 DEF CloseMarks, CloseCancels, CloseReturns, vars, engine, locals
  <2> QED
    BY <2>1, SameTimersKeep DEF SameWaits
<1>6. ASSUME NEW p \in Pairs, WorldStep(p) PROVE CancelledHeld' /\ TimerOwnership'
  <2>1. SameWaits
    BY <1>6 DEF WorldStep, Authorize, Revoke, SessionMoves, SessionDrops, Wake, locals,
       SameWaits
  <2> QED
    BY <1>6, <2>1, SameTimersKeep, WakeLockedKeepsTimers DEF WorldStep, Authorize, Revoke,
       SessionMoves, SessionDrops, Wake, engine
<1> QED
  BY <1>1, <1>2, <1>3, <1>4, <1>5, <1>6 DEF Next

\* A retry's channel has one owner at all times and is closed at most once, for any
\* number of pairs and goroutines (schedule, clearPending, Wake, RetryNow).
THEOREM TimerOwnershipHolds == Spec => []TimerOwnership
<1>1. Init => TimerInv
  <2> SUFFICES ASSUME Init PROVE TimerInv
    OBVIOUS
  <2>1. \A w \in Workers : pc[w] = "idle"
    BY DEF Init, Goroutines
  <2>2. \A p \in Pairs : pending[p] = NoTimer
    BY DEF Init
  <2>3. CancelledHeld /\ TimerOwnership
    BY <2>1, <2>2 DEF Init, CancelledHeld, TimerOwnership
  <2> QED
    BY <2>3, InitTypeOK DEF TimerInv
<1>2. TimerInv /\ [Next]_vars => TimerInv'
  BY TypeStep, TimerStepKeeps DEF TimerInv
<1> QED
  BY <1>1, <1>2, PTL DEF Spec, TimerInv
=============================================================================
