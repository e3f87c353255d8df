------------------------------ MODULE Candidate ------------------------------
(***************************************************************************)
(* Make-before-break replacement of a peer session, as implemented by the  *)
(* peer session manager in networking/internal/peersession: both ends of   *)
(* one directed pair ("from" dials, "to" answers) and the coordinator.     *)
(*                                                                         *)
(* A candidate is prepared at the coordinator, its carrier is established  *)
(* next to the primary's, both ends report Ready, the source commits, and  *)
(* each end promotes the candidate into its primary slot. Every critical   *)
(* section of manager.mu is an action and so is every call to the          *)
(* coordinator; a call may take effect and lose its reply.                 *)
(***************************************************************************)
EXTENDS Integers, Sequences, FiniteSets

-----------------------------------------------------------------------------
(* The coordinator: the control server as the peer session manager sees it,  *)
(* for one directed pair.  The server is another program: what follows is    *)
(* what the calls in networking/internal/peersession rely on, its seven      *)
(* operations on candidates and the ordered event stream of each             *)
(* subscription.  Attempts are numbered by their generation.                 *)

CONSTANT MaxAttempt  \* bound on the attempts of the pair

ASSUME CoordinatorAssumption == MaxAttempt \in Nat \ {0}

Attempts == 1 .. MaxAttempt
None == 0
Sides == {"from", "to"}

VARIABLES
  status,    \* the immutable decision on each attempt, or "none", or "pending"
  ready,     \* the sides that reported Ready
  previous,  \* the active attempt a pending one means to replace
  active,    \* the attempt the directed pair is using
  inbox      \* events sent to the target's subscription and not received yet

serverVars == <<status, ready, previous, active, inbox>>

Statuses == {"none", "pending", "committed", "cancelled"}
Pending == {a \in Attempts : status[a] = "pending"}
Decided(a) == status[a] \in {"committed", "cancelled"}

Event(kind, a, decision, current) ==
  [kind |-> kind, attempt |-> a, status |-> decision, active |-> current]
Events == [kind : {"candidate", "decision"}, attempt : Attempts,
           status : Statuses, active : Attempts \cup {None}]

\* What the target is told, in order. The source is told too: see
\* SourceDecisionReceived below, for which the order makes no difference.
Tell(event) == inbox' = Append(inbox, event)

\* Prepare is a compare-and-swap on the active attempt and idempotent by id.
Admits(a, wanted) == status[a] = "none" /\ Pending = {} /\ active = wanted

Prepare(a, wanted) ==
  IF Admits(a, wanted)
  THEN /\ status' = [status EXCEPT ![a] = "pending"]
       /\ previous' = [previous EXCEPT ![a] = wanted]
       /\ Tell(Event("candidate", a, "pending", wanted))
       /\ UNCHANGED <<ready, active>>
  ELSE UNCHANGED serverVars

Ready(s, a) ==
  /\ ready' = [ready EXCEPT ![a] = IF status[a] = "pending" THEN @ \cup {s} ELSE @]
  /\ UNCHANGED <<status, previous, active, inbox>>

\* What a cancelled attempt had gathered is of no use any more.
Forget(attempts) ==
  /\ ready' = [a \in Attempts |-> IF a \in attempts THEN {} ELSE ready[a]]
  /\ previous' = [a \in Attempts |-> IF a \in attempts THEN None ELSE previous[a]]

\* Commit and Cancel share one decision: whichever comes first stands.
Committable(a) ==
  status[a] = "pending" /\ ready[a] = Sides /\ active = previous[a]

Commit(a) ==
  IF Committable(a)
  THEN /\ status' = [status EXCEPT ![a] = "committed"]
       /\ active' = a
       /\ Tell(Event("decision", a, "committed", a))
       /\ UNCHANGED <<ready, previous>>
  ELSE UNCHANGED serverVars

Cancel(a) ==
  IF status[a] = "pending"
  THEN /\ status' = [status EXCEPT ![a] = "cancelled"]
       /\ Forget({a})
       /\ Tell(Event("decision", a, "cancelled", active))
       /\ UNCHANGED active
  ELSE UNCHANGED serverVars

\* An active attempt that failed is kept while a successor is pending on it; a
\* disconnect or a removal ends it and cancels that successor.
EndActive(a, reason) ==
  LET successors == {b \in Pending : previous[b] = a} IN
  IF reason = "failed" /\ successors # {}
  THEN UNCHANGED serverVars
  ELSE /\ active' = None
       /\ status' = [b \in Attempts |-> IF b \in successors THEN "cancelled" ELSE status[b]]
       /\ inbox' = Append(inbox, Event("decision", a, "committed", None)) \o
            IF successors = {} THEN <<>>
            ELSE <<Event("decision", CHOOSE b \in successors : TRUE, "cancelled", None)>>
       /\ Forget(successors)

End(a, reason) == IF active = a THEN EndActive(a, reason) ELSE Cancel(a)

\* A new subscription of the target replays a candidate still pending for it and
\* nothing else: decisions published in between are lost to it.
Subscribe ==
  /\ inbox' = IF Pending = {} THEN <<>>
              ELSE LET a == CHOOSE b \in Pending : TRUE
                   IN  <<Event("candidate", a, "pending", previous[a])>>
  /\ UNCHANGED <<status, ready, previous, active>>

ServerInit ==
  /\ status = [a \in Attempts |-> "none"]
  /\ ready = [a \in Attempts |-> {}]
  /\ previous = [a \in Attempts |-> None]
  /\ active = None
  /\ inbox = <<>>

ServerTypeOK ==
  /\ status \in [Attempts -> Statuses]
  /\ ready \in [Attempts -> SUBSET Sides]
  /\ previous \in [Attempts -> Attempts \cup {None}]
  /\ active \in Attempts \cup {None}
  /\ inbox \in Seq(Events)

-----------------------------------------------------------------------------
(* The session manager, on both ends of the pair.                            *)

CONSTANT MaxFaults  \* bound on what goes wrong in one behaviour

ASSUME CandidateAssumption == MaxFaults \in Nat

VARIABLES
  cand, primary,    \* each side's candidate slot and primary slot
  queue,            \* the target's queued admission and the attempt it waits for
  pinned,           \* whether a side still authorizes the pair
  generation,       \* the newest generation the source reserved
  expected,         \* the active attempt that link-state reported
  pc,               \* where the goroutine of a session stands
  pred, recovers,   \* its predecessor, and whether that one's recovery wins
  stopped,          \* sessions whose context is cancelled
  cancelRequested, commitDispatched, promoted, scopeRetired, \* session marks
  carrier,          \* the live state of a session's transport
  endJob,           \* reason of the running End job of an attempt, or "none"
  faults            \* lost replies, broken carriers, interventions so far

slots == <<cand, primary, queue>>
scope == <<pinned, generation, expected>>
marks == <<pred, recovers, stopped, cancelRequested, commitDispatched, promoted,
           scopeRetired>>
vars == <<serverVars, slots, scope, pc, marks, carrier, endJob, faults>>

Sessions == Sides \X Attempts
Peer(s) == IF s = "from" THEN "to" ELSE "from"
NoQueue == [attempt |-> None, over |-> None]
Steps == {"idle", "link", "prepare", "establish", "grace", "ready", "resolve",
          "dispatch", "commit", "promote", "cancel", "abort", "live", "cleanup",
          "ending", "ended", "queued", "admitPromote", "admitRetire", "admitInstall"}

Go(s, a, step) == pc' = [pc EXCEPT ![<<s, a>>] = step]
Moves(s, a, step) ==
  Go(s, a, step) /\ UNCHANGED <<serverVars, slots, scope, marks, carrier, endJob>>
Only(s, a, step) == Moves(s, a, step) /\ UNCHANGED faults
Stop(sessions) == stopped' = stopped \cup {x \in sessions : pc[x] # "idle"}
StopsOnly(sessions) ==
  /\ Stop(sessions)
  /\ UNCHANGED <<pred, recovers, cancelRequested, commitDispatched, promoted,
                 scopeRetired>>
\* Something goes wrong, or somebody intervenes.
Fault == faults < MaxFaults /\ faults' = faults + 1
FaultUnless(natural) == IF natural THEN UNCHANGED faults ELSE Fault
\* What a call to the coordinator leaves alone on this side.
LocalUnchanged == UNCHANGED <<slots, scope, marks, carrier, endJob>>
SlotSession(s, a) == IF a = None THEN {} ELSE {<<s, a>>}

-----------------------------------------------------------------------------
(* The source reserves and prepares a candidate.                           *)

\* reserveCandidateLocked. Whether the predecessor's recovery will cancel the
\* candidate depends on its live state, its projected stage and the workbench
\* intent, all fixed here.
Connect(a) ==
  /\ pinned["from"]
  /\ cand["from"] = None
  /\ a = generation + 1
  /\ generation' = a
  /\ cand' = [cand EXCEPT !["from"] = a]
  /\ pred' = [pred EXCEPT ![<<"from", a>>] = primary["from"]]
  /\ \E r \in BOOLEAN :
       /\ r => primary["from"] # None
       /\ recovers' = IF r THEN recovers \cup {<<"from", a>>} ELSE recovers
  /\ Go("from", a, "link")
  /\ UNCHANGED <<serverVars, primary, queue, pinned, expected, stopped,
                 cancelRequested, commitDispatched, promoted, scopeRetired, carrier,
                 endJob, faults>>

LinkState(a) ==
  /\ pc[<<"from", a>>] = "link"
  /\ <<"from", a>> \notin stopped
  /\ expected' = [expected EXCEPT ![a] = active]
  /\ Go("from", a, "prepare")
  /\ UNCHANGED <<serverVars, slots, pinned, generation, marks, carrier, endJob, faults>>

\* Without a ticket there is nothing to end at the coordinator.
LinkStateFails(a) ==
  /\ pc[<<"from", a>>] = "link"
  /\ Moves("from", a, "ended")
  /\ FaultUnless(<<"from", a>> \in stopped)

\* The reply, the replay of a lost one or state-by-id names the ticket.
PrepareReplies(a) ==
  LET x == <<"from", a>> IN
  /\ pc[<<"from", a>>] = "prepare"
  /\ Prepare(a, expected[a])
  /\ status'[a] # "none"
  /\ Go("from", a, IF status'[a] = "cancelled" THEN "cleanup"
                   ELSE IF x \in cancelRequested \cup stopped THEN "abort"
                   ELSE "establish")
  /\ LocalUnchanged /\ UNCHANGED faults

PrepareLost(a) ==
  /\ pc[<<"from", a>>] = "prepare"
  /\ Prepare(a, expected[a])
  /\ UNCHANGED pc
  /\ LocalUnchanged /\ Fault

\* Mutant: the refusal of a replay is taken for non-admission.
absentOnRefusal(a) == ~Admits(a, expected[a])
\* An authoritative refusal, confirmed by state-by-id finding no record.
prepareDefinitelyAbsent(a) == status[a] = "none"

PrepareRefused(a) ==
  /\ pc[<<"from", a>>] = "prepare"
  /\ prepareDefinitelyAbsent(a)
  /\ Moves("from", a, "ended")
  /\ FaultUnless(~Admits(a, expected[a]))

-----------------------------------------------------------------------------
(* runCandidate up to the grace wait, on either side.                      *)

ownsCandidateLocked(s, a) == cand[s] = a

\* createCandidateTransport refuses; failUnstartedCandidate ends the ticket.
TransportFails(s, a) ==
  /\ pc[<<s, a>>] = "establish"
  /\ Moves(s, a, "cleanup")
  /\ FaultUnless(<<s, a>> \in stopped \cup cancelRequested \/ ~ownsCandidateLocked(s, a))

\* The other end is establishing the same attempt or has done so.
reachable(s, a) ==
  \/ pc[<<Peer(s), a>>] = "establish"
  \/ carrier[<<Peer(s), a>>] \in {"ready", "suspended"}

\* It has given up, or has nothing left to learn of the attempt from.
absent(s, a) ==
  \/ status[a] = "cancelled" \/ carrier[<<Peer(s), a>>] = "dead"
  \/ pc[<<Peer(s), a>>] \in {"idle", "cleanup", "ending", "ended"} /\ (s = "from" => inbox = <<>>)

\* WaitReady, Establish, stageCandidate and, at the source, the probe.
Establishes(s, a) ==
  /\ pc[<<s, a>>] = "establish"
  /\ <<s, a>> \notin stopped
  /\ ownsCandidateLocked(s, a) /\ pinned[s]
  /\ carrier[<<s, a>>] = "none"
  /\ reachable(s, a)
  /\ carrier' = [carrier EXCEPT ![<<s, a>>] = "ready"]
  /\ Go(s, a, "grace")
  /\ UNCHANGED <<serverVars, slots, scope, marks, endJob, faults>>

\* A deadline, a stop, a lost ownership or a refused workbench.
EstablishFails(s, a) ==
  /\ pc[<<s, a>>] = "establish"
  /\ carrier' = [carrier EXCEPT ![<<s, a>>] = "dead"]
  /\ Go(s, a, "abort")
  /\ FaultUnless(\/ <<s, a>> \in stopped \cup cancelRequested
                 \/ ~ownsCandidateLocked(s, a)
                 \/ absent(s, a))
  /\ UNCHANGED <<serverVars, slots, scope, marks, endJob>>

\* The observer that runs beside establishment: it cancels when asked to and
\* stops the session once the decision is known to be negative.
observeCandidateDecision(s, a) ==
  LET x == <<s, a>> IN
  /\ pc[<<s, a>>] \in {"establish", "grace"}
  /\ x \notin promoted \cup commitDispatched
  /\ IF x \in cancelRequested THEN Cancel(a) ELSE UNCHANGED serverVars
  /\ status'[a] = "cancelled"
  /\ Stop({x})
  /\ UNCHANGED <<slots, scope, pc, pred, recovers, cancelRequested, commitDispatched,
                 promoted, scopeRetired, carrier, endJob, faults>>

predecessorTerminal(s, a) ==
  LET p == pred[<<s, a>>] IN
  pc[<<s, p>>] = "idle" \/ <<s, p>> \in stopped \/ carrier[<<s, p>>] = "dead"

predecessorReady(s, a) ==
  LET p == pred[<<s, a>>] IN pc[<<s, p>>] # "idle" /\ carrier[<<s, p>>] = "ready"

\* A suspended predecessor keeps the candidate waiting until it ends.
graceHolds(s, a) ==
  /\ <<s, a>> \in recovers
  /\ status[a] # "committed"
  /\ ~predecessorTerminal(s, a)

GracePasses(s, a) ==
  /\ pc[<<s, a>>] = "grace"
  /\ ~graceHolds(s, a)
  /\ Only(s, a, IF <<s, a>> \in cancelRequested THEN "cancel" ELSE "ready")

\* The wait ends in an error: the predecessor is back, the deadline has passed,
\* the candidate was stopped or cancelled or its own carrier died.
GraceFails(s, a) ==
  /\ pc[<<s, a>>] = "grace"
  /\ graceHolds(s, a)
  /\ cancelRequested' = IF predecessorReady(s, a)
                        THEN cancelRequested \cup {<<s, a>>} ELSE cancelRequested
  /\ Go(s, a, "abort")
  /\ UNCHANGED <<serverVars, slots, scope, pred, recovers, stopped, commitDispatched,
                 promoted, scopeRetired, carrier, endJob, faults>>

-----------------------------------------------------------------------------
(* Ready, resolution, commit and promotion.                                *)

\* The loop of readyCandidateReceipt gives up before its call.
ReadyGivesUp(s, a) ==
  LET x == <<s, a>> IN
  /\ pc[<<s, a>>] = "ready"
  /\ \/ x \in stopped \cup cancelRequested
     \/ graceHolds(s, a)
  /\ Only(s, a, IF x \in cancelRequested /\ x \notin stopped /\ ~graceHolds(s, a)
                THEN "cancel" ELSE "cleanup")

mayReady(s, a) ==
  /\ pc[<<s, a>>] = "ready"
  /\ <<s, a>> \notin stopped \cup cancelRequested
  /\ ~graceHolds(s, a)

ReadyReplies(s, a) ==
  /\ mayReady(s, a)
  /\ Ready(s, a)
  /\ Go(s, a, IF status[a] = "cancelled" THEN "cleanup"
              ELSE IF <<s, a>> \in promoted THEN "live" ELSE "resolve")
  /\ LocalUnchanged /\ UNCHANGED faults

ReadyLost(s, a) ==
  /\ mayReady(s, a)
  /\ Ready(s, a)
  /\ UNCHANGED pc
  /\ LocalUnchanged /\ Fault

\* Until its commit is dispatched a cancellation wins.
cancelWins(s, a) == <<s, a>> \in cancelRequested \ commitDispatched

ResolveGivesUp(s, a) ==
  /\ pc[<<s, a>>] = "resolve"
  /\ <<s, a>> \in stopped \/ cancelWins(s, a)
  /\ Only(s, a, IF <<s, a>> \in stopped THEN "cleanup" ELSE "cancel")

\* Mutant: two Ready records are taken for the decision.
decidedByReady(a) == status[a] = "committed" \/ ready[a] = Sides
\* The durable decision grants promotion, and only while the attempt is active.
grantsPromotion(a) == status[a] = "committed" /\ active = a

\* One turn of resolveCandidateReceipt.
ResolveReads(s, a) ==
  /\ pc[<<s, a>>] = "resolve"
  /\ <<s, a>> \notin stopped /\ ~cancelWins(s, a)
  /\ \/ Decided(a) \/ ready[a] = Sides
  /\ \/ grantsPromotion(a) /\ Only(s, a, "promote")
     \/ ~grantsPromotion(a) /\ Decided(a) /\ Only(s, a, "cleanup")
     \/ ~grantsPromotion(a) /\ ~Decided(a) /\ s = "from" /\ Only(s, a, "dispatch")

mayDispatch(a) ==
  LET x == <<"from", a>> IN
  /\ ownsCandidateLocked("from", a)
  /\ x \notin stopped
  /\ carrier[<<"from", a>>] = "ready"
  /\ \/ x \in commitDispatched
     \/ /\ ~graceHolds("from", a)
        /\ x \notin cancelRequested
        /\ ~(x \in recovers /\ predecessorReady("from", a))

CommitDispatched(a) ==
  /\ pc[<<"from", a>>] = "dispatch"
  /\ mayDispatch(a)
  /\ commitDispatched' = commitDispatched \cup {<<"from", a>>}
  /\ Go("from", a, "commit")
  /\ UNCHANGED <<serverVars, slots, scope, pred, recovers, stopped, cancelRequested,
                 promoted, scopeRetired, carrier, endJob, faults>>

CommitBarred(a) ==
  LET x == <<"from", a>> IN
  /\ pc[<<"from", a>>] = "dispatch"
  /\ ~mayDispatch(a)
  /\ cancelRequested' = IF x \in recovers /\ predecessorReady("from", a)
                        THEN cancelRequested \cup {x} ELSE cancelRequested
  /\ Go("from", a, IF x \in commitDispatched THEN "resolve" ELSE "cancel")
  /\ UNCHANGED <<serverVars, slots, scope, pred, recovers, stopped, commitDispatched,
                 promoted, scopeRetired, carrier, endJob, faults>>

\* A dispatched commit outlives the caller. Without a positive reply only
\* state-by-id tells.
CommitReplies(a) ==
  /\ pc[<<"from", a>>] = "commit"
  /\ Commit(a)
  /\ Go("from", a, IF status'[a] = "committed"
                   THEN IF active' = a THEN "promote" ELSE "cleanup"
                   ELSE "resolve")
  /\ LocalUnchanged /\ UNCHANGED faults

CommitLost(a) ==
  /\ pc[<<"from", a>>] = "commit"
  /\ Commit(a) \/ UNCHANGED serverVars
  /\ Go("from", a, "resolve")
  /\ LocalUnchanged /\ Fault

\* Mutant: only the carrier counts, not the ownership.
promotableStale(s, a) == pinned[s] /\ carrier[<<s, a>>] = "ready"
promotable(s, a) ==
  /\ ownsCandidateLocked(s, a)
  /\ pinned[s]
  /\ <<s, a>> \notin stopped
  /\ carrier[<<s, a>>] = "ready"

\* The one slot barrier that makes a candidate the primary and stops the old one.
InstallPrimary(s, a) ==
  /\ primary' = [primary EXCEPT ![s] = a]
  /\ cand' = [cand EXCEPT ![s] = None]
  /\ promoted' = promoted \cup {<<s, a>>}
  /\ Stop(SlotSession(s, primary[s]))
  /\ UNCHANGED <<pred, recovers, cancelRequested, commitDispatched, scopeRetired>>

Promotes(s, a) ==
  /\ pc[<<s, a>>] = "promote"
  /\ <<s, a>> \notin promoted
  /\ promotable(s, a)
  /\ InstallPrimary(s, a)
  /\ Go(s, a, "live")
  /\ UNCHANGED <<serverVars, queue, scope, carrier, endJob, faults>>

\* Already promoted by the decision event, or not promotable any more.
PromoteSettles(s, a) ==
  /\ pc[<<s, a>>] = "promote"
  /\ <<s, a>> \in promoted \/ ~promotable(s, a)
  /\ Only(s, a, IF <<s, a>> \in promoted /\ primary[s] = a THEN "live" ELSE "cleanup")

\* resolveCandidateCancellation asks until a decision stands. After a failed
\* establishment ("abort") a committed decision finds no carrier to promote.
CancelReplies(s, a) ==
  /\ pc[<<s, a>>] \in {"cancel", "abort"}
  /\ Cancel(a)
  /\ Go(s, a, IF pc[<<s, a>>] = "cancel" /\ grantsPromotion(a) THEN "promote" ELSE "cleanup")
  /\ LocalUnchanged /\ UNCHANGED faults

CancelLost(s, a) ==
  /\ pc[<<s, a>>] \in {"cancel", "abort"}
  /\ Cancel(a)
  /\ UNCHANGED pc
  /\ LocalUnchanged /\ Fault

-----------------------------------------------------------------------------
(* The end of a session.                                                   *)

\* The wait of a live session is over.
liveEnds(s, a) ==
  pc[<<s, a>>] = "live" /\ (<<s, a>> \in stopped \/ carrier[<<s, a>>] = "dead")

\* Mutants: another session's slot is cleared; the slot is kept.
releasesAny(slot, a) == None
releasesNothing(slot, a) == slot
\* A session gives up a slot only while it is the one in it.
releases(slot, a) == IF slot = a THEN None ELSE slot

\* Mutant: a finished job is kept under another state.
jobAfterKept(s, a, done) == IF done THEN "done" ELSE endJob[<<s, a>>]
\* Mutant: an End that is not confirmed is forgotten with its session.
jobAfterFirst(s, a, done) == "none"
jobAfter(s, a, done) == IF done THEN "none" ELSE endJob[<<s, a>>]

\* cleanupCandidate closes the transport and hands the ticket to an End job. The
\* job of a disconnect may have had its first answer already.
Cleanup(s, a) ==
  LET x == <<s, a>> IN
  /\ pc[<<s, a>>] = "cleanup" \/ liveEnds(s, a)
  /\ Stop({x})
  /\ carrier' = [carrier EXCEPT ![<<s, a>>] = IF @ = "none" THEN @ ELSE "dead"]
  /\ endJob' = [endJob EXCEPT ![<<s, a>>] =
       IF x \in scopeRetired THEN "final" ELSE IF @ = "none" THEN "failed" ELSE @]
  /\ \E step \in {"ending", "ended"} :
       (endJob[<<s, a>>] = "none" => step = "ending") /\ Go(s, a, step)
  /\ UNCHANGED <<serverVars, slots, scope, pred, recovers, cancelRequested,
                 commitDispatched, promoted, scopeRetired, faults>>

\* The first answer to End, an error or not, lets the session finish.
Answered(s, a) == pc' = [pc EXCEPT ![<<s, a>>] = IF @ = "ending" THEN "ended" ELSE @]

\* The job asks again until a reply shows that the attempt is not active.
EndReplies(s, a) ==
  /\ endJob[<<s, a>>] # "none"
  /\ End(a, endJob[<<s, a>>])
  /\ endJob' = [endJob EXCEPT ![<<s, a>>] = jobAfter(s, a, active' # a)]
  /\ Answered(s, a)
  /\ UNCHANGED <<slots, scope, marks, carrier, faults>>

\* The request or the reply is lost.
EndLost(s, a) ==
  /\ endJob[<<s, a>>] # "none"
  /\ Fault
  /\ End(a, endJob[<<s, a>>]) \/ UNCHANGED serverVars
  /\ endJob' = [endJob EXCEPT ![<<s, a>>] = jobAfter(s, a, FALSE)]
  /\ Answered(s, a)
  /\ UNCHANGED <<slots, scope, marks, carrier>>

\* The session leaves exactly the slots that still hold it.
Finish(s, a) ==
  LET x == <<s, a>> IN
  /\ pc[<<s, a>>] = "ended"
  /\ cand' = [cand EXCEPT ![s] = releases(@, a)]
  /\ primary' = [primary EXCEPT ![s] = releases(@, a)]
  /\ queue' = IF s = "to" /\ queue.attempt = a THEN NoQueue ELSE queue
  /\ pred' = [pred EXCEPT ![<<s, a>>] = None]
  /\ recovers' = recovers \ {x}
  /\ stopped' = stopped \ {x}
  /\ cancelRequested' = cancelRequested \ {x}
  /\ commitDispatched' = commitDispatched \ {x}
  /\ promoted' = promoted \ {x}
  /\ scopeRetired' = scopeRetired \ {x}
  /\ carrier' = [carrier EXCEPT ![<<s, a>>] = "none"]
  /\ Go(s, a, "idle")
  /\ UNCHANGED <<serverVars, scope, endJob, faults>>

-----------------------------------------------------------------------------
(* Events of the coordinator.                                              *)

\* The next event of the target's subscription.
Received(kind) == inbox # <<>> /\ Head(inbox).kind = kind /\ inbox' = Tail(inbox)
ServerIdle == UNCHANGED <<status, ready, previous, active>>

\* installInboundCandidateLocked
InstallInbound(a) ==
  LET p == primary["to"] IN
  /\ cand' = [cand EXCEPT !["to"] = a]
  /\ pred' = [pred EXCEPT ![<<"to", a>>] = p]
  /\ recovers' = IF p # None /\ carrier[<<"to", p>>] = "suspended"
                 THEN recovers \cup {<<"to", a>>} ELSE recovers
  /\ UNCHANGED <<stopped, cancelRequested, commitDispatched, promoted, scopeRetired>>

\* A ticket that is already owned, that finds another one queued or no pin.
refusesInbound(a) ==
  \/ ~pinned["to"]
  \/ primary["to"] = a \/ cand["to"] = a
  \/ queue # NoQueue

CandidateIgnored ==
  LET a == Head(inbox).attempt IN
  /\ Received("candidate")
  /\ refusesInbound(a)
  /\ ServerIdle
  /\ UNCHANGED <<slots, scope, pc, marks, carrier, endJob, faults>>

\* A session of the same attempt that is still ending is joined first.
CandidateAccepted ==
  LET a == Head(inbox).attempt IN
  /\ Received("candidate")
  /\ ~refusesInbound(a)
  /\ pc[<<"to", a>>] = "idle"
  /\ IF cand["to"] = None
     THEN InstallInbound(a) /\ Go("to", a, "establish") /\ UNCHANGED queue
     ELSE /\ queue' = [attempt |-> a, over |-> cand["to"]]
          /\ Go("to", a, "queued")
          /\ UNCHANGED <<cand, marks>>
  /\ ServerIdle
  /\ UNCHANGED <<primary, scope, carrier, endJob, faults>>

\* The committed attempt's carrier is gone: the attempt leaves its slot for the
\* retiring set, with the exact predecessor its ticket names.
RetireCommitted(a) ==
  LET p == primary["to"]
      exact == p # None /\ p = previous[a]
  IN
  /\ cand' = [cand EXCEPT !["to"] = None]
  /\ primary' = [primary EXCEPT !["to"] = IF exact THEN None ELSE @]
  /\ Stop({<<"to", a>>} \cup IF exact THEN {<<"to", p>>} ELSE {})
  /\ UNCHANGED <<pred, recovers, cancelRequested, commitDispatched, promoted, scopeRetired>>

\* promoteCandidateFrom with an admission; dead is what the caller counts as a
\* carrier that cannot be promoted any more.
PromoteTarget(a, dead) ==
  IF <<"to", a>> \in promoted \/ ~ownsCandidateLocked("to", a) \/ ~pinned["to"]
  THEN UNCHANGED <<cand, primary, marks>>
  ELSE IF dead THEN RetireCommitted(a)
  ELSE IF promotable("to", a) THEN InstallPrimary("to", a)
  ELSE UNCHANGED <<cand, primary, marks>>

\* retireInboundTerminal releases the slots of the attempt.
VacateTarget(a) ==
  /\ cand' = [cand EXCEPT !["to"] = releases(@, a)]
  /\ primary' = [primary EXCEPT !["to"] = releases(@, a)]

carrierDead(a) == <<"to", a>> \in stopped \/ carrier[<<"to", a>>] = "dead"

\* The session of an attempt in any slot; a retiring one has no owner.
owned(s, a) == a \in {cand[s], primary[s]} \/ (s = "to" /\ queue.attempt = a)

\* What a decision event does to the target's session it names.
DecisionReceived ==
  LET e == Head(inbox)
      a == e.attempt
      x == <<"to", a>>
      current == e.status = "committed" /\ e.active = a
      ended == e.status = "committed" /\ e.active # a
  IN
  /\ Received("decision")
  /\ \/ /\ owned("to", a) /\ x \notin promoted /\ current
        /\ carrier[<<"to", a>>] # "none" \/ x \in stopped
        /\ PromoteTarget(a, carrierDead(a))
     \/ /\ owned("to", a) /\ x \in promoted /\ ended
        /\ UNCHANGED <<cand, primary>>
        /\ StopsOnly({x})
     \/ /\ owned("to", a) /\ e.status = "cancelled"
        /\ VacateTarget(a)
        /\ StopsOnly({x})
     \/ /\ \/ ~owned("to", a)
           \/ x \in promoted /\ current
           \/ x \notin promoted /\ ended
           \/ current /\ carrier[<<"to", a>>] = "none"
        /\ UNCHANGED <<cand, primary, marks>>
  /\ ServerIdle
  /\ UNCHANGED <<queue, scope, pc, carrier, endJob, faults>>

\* The source only ever stops on an event, for good: a cancellation, or the end of
\* the attempt it promoted. Both are final, so that an event delivered late is the
\* same as one about the present and a lost one is an action not taken.
SourceDecisionReceived(a) ==
  LET x == <<"from", a>> IN
  /\ owned("from", a) /\ x \notin stopped
  /\ \/ status[a] = "cancelled"
     \/ x \in promoted /\ status[a] = "committed" /\ active # a
  /\ StopsOnly({x})
  /\ UNCHANGED <<serverVars, slots, scope, pc, carrier, endJob, faults>>

-----------------------------------------------------------------------------
(* The target's queued admission: a successor that found its predecessor   *)
(* still in the candidate slot.                                            *)

admissible(a) ==
  queue.attempt = a /\ <<"to", a>> \notin stopped /\ pinned["to"]

\* resolveInboundAdmission reads the decision on the predecessor.
AdmissionReads(a) ==
  LET b == queue.over IN
  /\ pc[<<"to", a>>] = "queued"
  /\ admissible(a)
  /\ Decided(b)
  /\ Only("to", a, IF grantsPromotion(b) THEN "admitPromote" ELSE "admitRetire")

\* What promoting or retiring the committed predecessor has to find: its carrier
\* is dead, was never rebuilt, or can be promoted.
unrebuilt(b) == carrierDead(b) \/ carrier[<<"to", b>>] = "none"
settles(b) ==
  IF <<"to", b>> \in promoted THEN primary["to"] = b
  ELSE ownsCandidateLocked("to", b) /\ (unrebuilt(b) \/ promotable("to", b))

AdmissionPromotes(a) ==
  LET b == queue.over IN
  /\ pc[<<"to", a>>] = "admitPromote"
  /\ admissible(a) /\ settles(b)
  /\ PromoteTarget(b, unrebuilt(b))
  /\ Go("to", a, "admitInstall")
  /\ UNCHANGED <<serverVars, queue, scope, carrier, endJob, faults>>

\* The read fails, the predecessor is still pending or cannot be settled, or the
\* scope has changed: the successor gives way and its ticket is ended.
AdmissionRefused(a) ==
  /\ \/ pc[<<"to", a>>] = "queued"
     \/ pc[<<"to", a>>] = "admitPromote" /\ ~(admissible(a) /\ settles(queue.over))
     \/ pc[<<"to", a>>] = "admitRetire" /\ ~admissible(a)
     \/ pc[<<"to", a>>] = "admitInstall" /\ ~(admissible(a) /\ cand["to"] = None)
  /\ queue' = IF queue.attempt = a THEN NoQueue ELSE queue
  /\ StopsOnly({<<"to", a>>})
  /\ Go("to", a, "cleanup")
  /\ UNCHANGED <<serverVars, cand, primary, scope, carrier, endJob>>
  /\ FaultUnless(\/ pc[<<"to", a>>] # "queued" \/ ~admissible(a) \/ ~Decided(queue.over))

\* The predecessor was cancelled or has been replaced.
AdmissionRetires(a) ==
  LET b == queue.over IN
  /\ pc[<<"to", a>>] = "admitRetire"
  /\ admissible(a)
  /\ VacateTarget(b)
  /\ StopsOnly({<<"to", b>>})
  /\ Go("to", a, "admitInstall")
  /\ UNCHANGED <<serverVars, queue, scope, carrier, endJob, faults>>

AdmissionInstalls(a) ==
  /\ pc[<<"to", a>>] = "admitInstall"
  /\ admissible(a)
  /\ cand["to"] = None
  /\ InstallInbound(a)
  /\ queue' = NoQueue
  /\ Go("to", a, "establish")
  /\ UNCHANGED <<serverVars, primary, scope, carrier, endJob, faults>>

-----------------------------------------------------------------------------
(* The user, the network and the coordinator's clock.                      *)

\* waitCandidate's caller gives up.
CallerGivesUp ==
  /\ cand["from"] # None
  /\ cancelRequested' = cancelRequested \cup {<<"from", cand["from"]>>}
  /\ UNCHANGED <<serverVars, slots, scope, pc, pred, recovers, stopped,
                 commitDispatched, promoted, scopeRetired, carrier, endJob>>
  /\ Fault

\* Both slots are stopped and whatever has a ticket is ended for good.
Disconnect ==
  LET ends == {a \in {primary["from"], cand["from"]} \ {None} :
                 pc[<<"from", a>>] \notin {"link", "prepare"}}
  IN
  /\ {primary["from"], cand["from"]} # {None}
  /\ Stop(SlotSession("from", primary["from"]) \cup SlotSession("from", cand["from"]))
  /\ endJob' = [x \in Sessions |->
       IF x[1] = "from" /\ x[2] \in ends THEN "final" ELSE endJob[x]]
  /\ Fault
  /\ UNCHANGED <<serverVars, slots, scope, pc, pred, recovers, cancelRequested,
                 commitDispatched, promoted, scopeRetired, carrier>>

\* Mutant: the candidate slot keeps its session.
revokedSlotsPrimary(s) == {primary[s]} \ {None}
revokedSlots(s) == {primary[s], cand[s]} \ {None}

\* revokeExpected: losing authorization loses the slots in the same barrier.
Revoke(s) ==
  LET out == {s} \X revokedSlots(s)
      waiting == IF s = "to" THEN SlotSession(s, queue.attempt) ELSE {}
  IN
  /\ pinned[s]
  /\ Fault
  /\ pinned' = [pinned EXCEPT ![s] = FALSE]
  /\ primary' = [primary EXCEPT ![s] = IF @ \in revokedSlots(s) THEN None ELSE @]
  /\ cand' = [cand EXCEPT ![s] = IF @ \in revokedSlots(s) THEN None ELSE @]
  /\ scopeRetired' = scopeRetired \cup out \cup waiting
  /\ Stop(out \cup waiting)
  /\ UNCHANGED <<serverVars, queue, generation, expected, pc, pred, recovers,
                 cancelRequested, commitDispatched, promoted, carrier, endJob>>

\* CommitScopedPins after a fresh authorization.
Pin(s) ==
  /\ ~pinned[s]
  /\ pinned' = [pinned EXCEPT ![s] = TRUE]
  /\ Fault
  /\ UNCHANGED <<serverVars, slots, generation, expected, pc, marks, carrier, endJob>>

CarrierSuspends(s, a) ==
  /\ carrier[<<s, a>>] = "ready"
  /\ Fault
  /\ carrier' = [carrier EXCEPT ![<<s, a>>] = "suspended"]
  /\ UNCHANGED <<serverVars, slots, scope, pc, marks, endJob>>

CarrierRecovers(s, a) ==
  /\ carrier[<<s, a>>] = "suspended"
  /\ carrier[<<Peer(s), a>>] \in {"ready", "suspended"}
  /\ carrier' = [carrier EXCEPT ![<<s, a>>] = "ready"]
  /\ UNCHANGED <<serverVars, slots, scope, pc, marks, endJob, faults>>

CarrierDies(s, a) ==
  /\ carrier[<<s, a>>] \in {"ready", "suspended"}
  /\ carrier' = [carrier EXCEPT ![<<s, a>>] = "dead"]
  /\ FaultUnless(\/ carrier[<<s, a>>] = "suspended" \/ carrier[<<Peer(s), a>>] = "dead"
                 \/ pc[<<Peer(s), a>>] = "idle")
  /\ UNCHANGED <<serverVars, slots, scope, pc, marks, endJob>>

\* The recovered primary cancels the candidate that was reserved to replace it.
transportChanged(s) ==
  LET p == primary[s]
      c == cand[s]
  IN
  /\ p # None /\ c # None
  /\ carrier[<<s, p>>] = "ready"
  /\ pred[<<s, c>>] = p /\ <<s, c>> \in recovers
  /\ cancelRequested' = cancelRequested \cup {<<s, c>>}
  /\ UNCHANGED <<serverVars, slots, scope, pc, pred, recovers, stopped,
                 commitDispatched, promoted, scopeRetired, carrier, endJob, faults>>

\* The supervisor replaces the target's lost subscription; a queued admission read under
\* the old one is stopped.
Resubscribe ==
  /\ Fault
  /\ Subscribe
  /\ StopsOnly(SlotSession("to", queue.attempt))
  /\ UNCHANGED <<slots, scope, pc, carrier, endJob>>

\* The coordinator's prepare deadline.
Expire(a) ==
  /\ status[a] = "pending"
  /\ Cancel(a)
  /\ FaultUnless(\E s \in Sides : absent(s, a))
  /\ UNCHANGED <<slots, scope, pc, marks, carrier, endJob>>

-----------------------------------------------------------------------------
Init ==
  /\ ServerInit
  /\ cand = [s \in Sides |-> None] /\ primary = [s \in Sides |-> None]
  /\ queue = NoQueue
  /\ pinned = [s \in Sides |-> TRUE]
  /\ generation = 0
  /\ expected = [a \in Attempts |-> None]
  /\ pc = [x \in Sessions |-> "idle"]
  /\ pred = [x \in Sessions |-> None]
  /\ recovers = {} /\ stopped = {} /\ cancelRequested = {}
  /\ commitDispatched = {} /\ promoted = {} /\ scopeRetired = {}
  /\ carrier = [x \in Sessions |-> "none"]
  /\ endJob = [x \in Sessions |-> "none"]
  /\ faults = 0

SourceStep(a) ==
  \/ LinkState(a) \/ LinkStateFails(a)
  \/ PrepareReplies(a) \/ PrepareLost(a) \/ PrepareRefused(a)
  \/ CommitDispatched(a) \/ CommitBarred(a) \/ CommitReplies(a) \/ CommitLost(a)
  \/ SourceDecisionReceived(a)

SessionStep(s, a) ==
  \/ TransportFails(s, a) \/ Establishes(s, a) \/ EstablishFails(s, a)
  \/ observeCandidateDecision(s, a)
  \/ GracePasses(s, a) \/ GraceFails(s, a)
  \/ ReadyGivesUp(s, a) \/ ReadyReplies(s, a) \/ ReadyLost(s, a)
  \/ ResolveGivesUp(s, a) \/ ResolveReads(s, a)
  \/ Promotes(s, a) \/ PromoteSettles(s, a)
  \/ CancelReplies(s, a) \/ CancelLost(s, a)
  \/ Cleanup(s, a)
  \/ EndReplies(s, a) \/ EndLost(s, a) \/ Finish(s, a)

AdmissionStep(a) ==
  \/ AdmissionReads(a) \/ AdmissionRefused(a) \/ AdmissionPromotes(a)
  \/ AdmissionRetires(a) \/ AdmissionInstalls(a)

Receive == DecisionReceived \/ CandidateIgnored \/ CandidateAccepted

Environment ==
  \/ \E a \in Attempts : Connect(a) \/ Expire(a)
  \/ CallerGivesUp \/ Disconnect \/ Resubscribe
  \/ \E s \in Sides : Revoke(s) \/ Pin(s)
  \/ \E s \in Sides, a \in Attempts :
       CarrierSuspends(s, a) \/ CarrierRecovers(s, a) \/ CarrierDies(s, a)

Next ==
  \/ \E a \in Attempts : SourceStep(a) \/ AdmissionStep(a)
  \/ \E s \in Sides, a \in Attempts : SessionStep(s, a)
  \/ Receive \/ \E s \in Sides : transportChanged(s)
  \/ Environment

Spec == Init /\ [][Next]_vars

\* Goroutines run, calls have deadlines and failed Ends are retried; the
\* coordinator expires what nobody decides, and the transport's recovery window
\* ends an interruption. Faults end with their budget.
Fairness ==
  /\ \A a \in Attempts :
       WF_vars(SourceStep(a)) /\ WF_vars(AdmissionStep(a)) /\ WF_vars(Expire(a))
  /\ \A s \in Sides, a \in Attempts : WF_vars(SessionStep(s, a))
  /\ \A s \in Sides, a \in Attempts :
       WF_vars(/\ carrier[<<s, a>>] = "suspended"
               /\ CarrierRecovers(s, a) \/ CarrierDies(s, a))
  /\ WF_vars(Receive)

-----------------------------------------------------------------------------
(* Properties.                                                             *)

\* Every variable has its type.
TypeOK ==
  /\ ServerTypeOK
  /\ cand \in [Sides -> Attempts \cup {None}]
  /\ primary \in [Sides -> Attempts \cup {None}]
  /\ queue \in [attempt : Attempts \cup {None}, over : Attempts \cup {None}]
  /\ pinned \in [Sides -> BOOLEAN]
  /\ generation \in 0 .. MaxAttempt
  /\ expected \in [Attempts -> Attempts \cup {None}]
  /\ pc \in [Sessions -> Steps]
  /\ pred \in [Sessions -> Attempts \cup {None}]
  /\ recovers \subseteq Sessions /\ stopped \subseteq Sessions
  /\ cancelRequested \subseteq Sessions /\ commitDispatched \subseteq Sessions
  /\ promoted \subseteq Sessions /\ scopeRetired \subseteq Sessions
  /\ carrier \in [Sessions -> {"none", "ready", "suspended", "dead"}]
  /\ endJob \in [Sessions -> {"none", "failed", "final"}]
  /\ faults \in 0 .. MaxFaults

\* Only a committed attempt is ever primary, on either side, although replies are
\* lost, cancellations race the commit and the target promotes from an event
\* that may be older than the decision that ended the attempt.
PrimaryIsCommitted ==
  \A s \in Sides : primary[s] # None => status[primary[s]] = "committed"

\* "A dispatched commit belongs to the manager" and "an ended local carrier does
\* not prove server cancellation": while the coordinator holds an attempt
\* pending or active, a session or an End job of one side answers for it.
AuthorityIsOwned ==
  \A a \in Attempts : status[a] = "pending" \/ active = a =>
    \E s \in Sides : pc[<<s, a>>] # "idle" \/ endJob[<<s, a>>] # "none"

\* A side without the pin owns no slot: nothing that was under way when the pair
\* was revoked is staged, promoted or installed afterwards.
RevokedOwnsNothing ==
  \A s \in Sides : ~pinned[s] => cand[s] = None /\ primary[s] = None

\* Late cleanup is exact-owner fenced: every slot names a session that is still
\* running, in the slot its promotion says, and a session that nobody has stopped
\* is in a slot or queued.
SlotsAreLive ==
  \A s \in Sides :
    /\ cand[s] # None => pc[<<s, cand[s]>>] # "idle" /\ <<s, cand[s]>> \notin promoted
    /\ primary[s] # None => pc[<<s, primary[s]>>] # "idle" /\ <<s, primary[s]>> \in promoted
    /\ \A a \in Attempts :
         pc[<<s, a>>] \notin {"idle", "cleanup", "ending", "ended"} /\ ~owned(s, a)
           => <<s, a>> \in stopped

\* A promotion is never undone by an older attempt: no attempt becomes primary
\* once a later one has been committed.
NeverRevived ==
  [][\A s \in Sides, a \in Attempts :
       primary'[s] = a /\ primary[s] # a
         => \A b \in Attempts : b > a => status[b] # "committed"]_vars

\* Make before break: a settled primary that the coordinator still holds active is
\* stopped only by its user, by a revocation, or after its own carrier ended.
MakeBeforeBreak ==
  [][\A s \in Sides : LET p == primary[s] IN
       p # None /\ pc[<<s, p>>] = "live" /\ active = p /\ <<s, p>> \in stopped' \ stopped
         => \/ endJob'[<<s, p>>] = "final" \/ ~pinned'[s]
            \/ carrier[<<s, p>>] = "dead"]_vars

\* No candidate is stuck: whatever is lost, cancelled or revoked meanwhile, every
\* candidate slot is promoted or released in the end, so that the pair can be
\* tried again.
CandidateSettles ==
  \A s \in Sides, a \in Attempts : cand[s] = a ~> cand[s] # a

\* An attempt whose session the source has finished does not stay with the
\* coordinator, where it would refuse every later attempt.
AuthorityIsReleased ==
  \A a \in Attempts :
    (active = a \/ status[a] = "pending") /\ pc[<<"from", a>>] = "idle"
      ~> active # a /\ status[a] # "pending"

\* candidate_connect.go: "Once dispatched, the slot remains occupied until this
\* exact id is resolved."
SlotHeldUntilResolved ==
  [][\A a \in Attempts :
       cand["from"] = a /\ cand'["from"] # a /\ pinned'["from"]
         => status[a] # "pending"]_vars

-----------------------------------------------------------------------------
(* For the small instances TLC checks.                                       *)

FairSpec == Spec /\ Fairness

\* States a connected pair passes through. The first attempt is committed and the
\* sides in settled have made it primary. Where the source is in gone its session
\* has ended since, and with it the coordinator's active attempt.
ConnectedAt(settled, gone) ==
  /\ status = [a \in Attempts |-> IF a = 1 THEN "committed" ELSE "none"]
  /\ ready = [a \in Attempts |-> IF a = 1 THEN Sides ELSE {}]
  /\ previous = [a \in Attempts |-> None]
  /\ active = IF gone = {} THEN 1 ELSE None
  /\ inbox = <<>>
  /\ cand = [s \in Sides |-> IF s \in settled \cup gone THEN None ELSE 1]
  /\ primary = [s \in Sides |-> IF s \in settled THEN 1 ELSE None]
  /\ promoted = settled \X {1}
  /\ \E step \in {"resolve", "promote"} :
       pc = [x \in Sessions |-> IF x[2] # 1 \/ x[1] \in gone THEN "idle"
                                ELSE IF x[1] \in settled THEN "live" ELSE step]
  /\ queue = NoQueue
  /\ pinned = [s \in Sides |-> TRUE]
  /\ generation = 1
  /\ expected = [a \in Attempts |-> None]
  /\ pred = [x \in Sessions |-> None]
  /\ recovers = {} /\ stopped = {} /\ cancelRequested = {}
  /\ commitDispatched = (settled \ {"to"}) \X {1} /\ scopeRetired = {}
  /\ carrier = [x \in Sessions |-> IF x[2] = 1 /\ x[1] \notin gone THEN "ready" ELSE "none"]
  /\ endJob = [x \in Sessions |-> "none"]
  /\ faults = 0

\* The target lost the events of the decision with its subscription, and its
\* session has not read the decision or not acted on it yet. The source is live or
\* has ended.
Lagging == ConnectedAt({"from"}, {}) \/ ConnectedAt({}, {"from"})

\* A second attempt beside a first one that both sides, or the source alone, settled.
SecondSpec == (ConnectedAt(Sides, {}) \/ Lagging) /\ [][Next]_vars

\* Once the way of a session is settled, nobody reads again whom it was to replace,
\* or that it was asked to give up or had dispatched its commit: states that differ
\* only in this are explored once. The first line, which is the same in every state,
\* has TLC evaluate the values it stores.
Settled == {"promote", "cancel", "abort", "live", "cleanup", "ending", "ended"}
HandoverView ==
  <<pred = <<>>, {recovers, cancelRequested, commitDispatched} = {},
    serverVars, slots, scope, pc, stopped, promoted, scopeRetired, carrier, endJob, faults,
    {<<x, pred[x], x \in recovers, x \in cancelRequested, x \in commitDispatched>> :
       x \in {y \in Sessions : pc[y] \notin Settled}}>>
=============================================================================
