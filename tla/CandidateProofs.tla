--------------------------- MODULE CandidateProofs ---------------------------
(***************************************************************************)
(* Proofs about the make-before-break replacement of a session, for any    *)
(* number of attempts and faults. In order: type correctness; the slots of *)
(* a revoked side; what the coordinator's decisions guarantee, and that    *)
(* only a committed attempt is primary; that whatever the coordinator      *)
(* holds is answered for; that every slot is live; the order of attempts   *)
(* on both sides, and from it the two action properties.                   *)
(***************************************************************************)
EXTENDS Candidate, SequenceTheorems, TLAPS

\* TypeOK in parts, as the actions change them. A queued admission names the
\* candidate it waits for.
SlotsOK ==
  /\ cand \in [Sides -> Attempts \cup {None}]
  /\ primary \in [Sides -> Attempts \cup {None}]
QueueOK == queue = NoQueue \/ queue \in [attempt : Attempts, over : Attempts]
ScopeOK ==
  /\ pinned \in [Sides -> BOOLEAN]
  /\ generation \in 0 .. MaxAttempt
  /\ expected \in [Attempts -> Attempts \cup {None}]
StepOK == pc \in [Sessions -> Steps]
PredOK == pred \in [Sessions -> Attempts \cup {None}]
FlagsOK ==
  /\ recovers \subseteq Sessions /\ cancelRequested \subseteq Sessions
  /\ commitDispatched \subseteq Sessions
  /\ promoted \subseteq Sessions /\ scopeRetired \subseteq Sessions
StoppedOK == stopped \subseteq Sessions
MarksOK == PredOK /\ FlagsOK /\ StoppedOK
CarrierOK == carrier \in [Sessions -> {"none", "ready", "suspended", "dead"}]
JobsOK == endJob \in [Sessions -> {"none", "failed", "final"}]
FaultsOK == faults \in 0 .. MaxFaults

TypeInv ==
  /\ ServerTypeOK /\ SlotsOK /\ QueueOK /\ ScopeOK /\ StepOK /\ MarksOK
  /\ CarrierOK /\ JobsOK /\ FaultsOK

\* The parts make up TypeOK, and a queued admission always names the candidate it waits
\* for.
LEMMA TypeInvImplies == TypeInv => TypeOK
BY DEF TypeInv, TypeOK, SlotsOK, QueueOK, ScopeOK, StepOK, MarksOK, PredOK, FlagsOK,
   StoppedOK, CarrierOK, JobsOK, FaultsOK, NoQueue

-----------------------------------------------------------------------------
\* What a step leaves alone keeps its type.
LEMMA ServerSame == ASSUME TypeInv, UNCHANGED serverVars PROVE ServerTypeOK'
BY DEF TypeInv, ServerTypeOK, serverVars
\* A step that leaves slots and queue alone keeps their types.
LEMMA SlotsSame == ASSUME TypeInv, UNCHANGED slots PROVE SlotsOK' /\ QueueOK'
BY DEF TypeInv, SlotsOK, QueueOK, slots
\* A step that leaves pins, generation and link state alone keeps their types.
LEMMA ScopeSame == ASSUME TypeInv, UNCHANGED scope PROVE ScopeOK'
BY DEF TypeInv, ScopeOK, scope
\* A step that leaves the session marks alone keeps their types.
LEMMA MarksSame == ASSUME TypeInv, UNCHANGED marks PROVE MarksOK'
BY DEF TypeInv, MarksOK, PredOK, FlagsOK, StoppedOK, marks
\* The same for the program counters, the carriers, the End jobs and the fault budget.
LEMMA RestSame ==
  ASSUME TypeInv
  PROVE  /\ UNCHANGED pc => StepOK'
         /\ UNCHANGED carrier => CarrierOK'
         /\ UNCHANGED endJob => JobsOK'
         /\ UNCHANGED faults => FaultsOK'
BY DEF TypeInv, StepOK, CarrierOK, JobsOK, FaultsOK

\* A call to the coordinator changes no type of local state but the program counter's.
LEMMA LocalSame ==
  ASSUME TypeInv, LocalUnchanged
  PROVE  SlotsOK' /\ QueueOK' /\ ScopeOK' /\ MarksOK' /\ CarrierOK' /\ JobsOK'
BY SlotsSame, ScopeSame, MarksSame, RestSame DEF LocalUnchanged

\* A goroutine that moves stands at one of the steps.
LEMMA GoTyped ==
  ASSUME TypeInv, NEW s \in Sides, NEW a \in Attempts, NEW step \in Steps, Go(s, a, step)
  PROVE  StepOK'
BY DEF TypeInv, StepOK, Go, Sessions

\* The fault budget is never exceeded.
LEMMA FaultTyped == ASSUME TypeInv, Fault PROVE FaultsOK'
BY CandidateAssumption DEF TypeInv, FaultsOK, Fault

\* Stop marks sessions.
LEMMA StopTyped ==
  ASSUME TypeInv, NEW S \in SUBSET Sessions, Stop(S) PROVE StoppedOK'
BY DEF TypeInv, MarksOK, StoppedOK, Stop

\* An event that only stops sessions keeps the marks typed.
LEMMA StopsOnlyTyped ==
  ASSUME TypeInv, NEW S \in SUBSET Sessions, StopsOnly(S) PROVE MarksOK'
BY StopTyped DEF TypeInv, MarksOK, PredOK, FlagsOK, StopsOnly

\* A goroutine that only moves keeps every type.
LEMMA MovesTyped ==
  ASSUME TypeInv, NEW s \in Sides, NEW a \in Attempts, NEW step \in Steps, Moves(s, a, step),
           FaultsOK'
  PROVE  TypeInv'
BY GoTyped, ServerSame, SlotsSame, ScopeSame, MarksSame, RestSame DEF Moves, TypeInv

\* So does one that moves without a fault.
LEMMA OnlyTyped ==
  ASSUME TypeInv, NEW s \in Sides, NEW a \in Attempts, NEW step \in Steps, Only(s, a, step)
  PROVE  TypeInv'
BY MovesTyped, RestSame DEF Only

-----------------------------------------------------------------------------
(* The coordinator's operations.                                           *)

\* An event of the coordinator keeps the inbox a sequence of events.
LEMMA TellTyped ==
  ASSUME TypeInv, NEW kind \in {"candidate", "decision"}, NEW a \in Attempts,
         NEW st \in Statuses, NEW c \in Attempts \cup {None}
  PROVE  Append(inbox, Event(kind, a, st, c)) \in Seq(Events)
<1>1. Event(kind, a, st, c) \in Events BY DEF Event, Events
<1> QED BY <1>1, AppendProperties DEF TypeInv, ServerTypeOK

\* Prepare keeps the coordinator typed, admitted or not.
LEMMA PrepareTyped ==
  ASSUME TypeInv, NEW a \in Attempts, NEW x \in Attempts \cup {None}, Prepare(a, x)
  PROVE  ServerTypeOK'
<1>1. CASE Admits(a, x)
  <2>1. inbox' \in Seq(Events) BY <1>1, TellTyped DEF Prepare, Tell, Statuses
  <2> QED BY <1>1, <2>1 DEF Prepare, TypeInv, ServerTypeOK, Statuses
<1> QED BY <1>1, ServerSame DEF Prepare

\* Ready keeps the coordinator typed.
LEMMA ReadyTyped ==
  ASSUME TypeInv, NEW s \in Sides, NEW a \in Attempts, Ready(s, a)
  PROVE  ServerTypeOK'
BY DEF Ready, TypeInv, ServerTypeOK

\* Commit keeps the coordinator typed, accepted or not.
LEMMA CommitTyped ==
  ASSUME TypeInv, NEW a \in Attempts, Commit(a) PROVE ServerTypeOK'
<1>1. CASE Committable(a)
  <2>1. inbox' \in Seq(Events) BY <1>1, TellTyped DEF Commit, Tell, Statuses
  <2> QED BY <1>1, <2>1 DEF Commit, TypeInv, ServerTypeOK, Statuses
<1> QED BY <1>1, ServerSame DEF Commit

\* Forgetting what a cancelled attempt gathered keeps the records typed.
LEMMA ForgetTyped ==
  ASSUME TypeInv, NEW S, Forget(S)
  PROVE  ready' \in [Attempts -> SUBSET Sides] /\ previous' \in [Attempts -> Attempts \cup {None}]
BY DEF Forget, TypeInv, ServerTypeOK

\* Cancel keeps the coordinator typed, whichever decision stands.
LEMMA CancelTyped ==
  ASSUME TypeInv, NEW a \in Attempts, Cancel(a) PROVE ServerTypeOK'
<1>1. CASE status[a] = "pending"
  <2>1. inbox' \in Seq(Events) BY <1>1, TellTyped DEF Cancel, Tell, Statuses, TypeInv,
           ServerTypeOK
  <2>2. ready' \in [Attempts -> SUBSET Sides] /\ previous' \in [Attempts -> Attempts \cup {None}]
    BY <1>1, ForgetTyped DEF Cancel
  <2> QED BY <1>1, <2>1, <2>2 DEF Cancel, TypeInv, ServerTypeOK, Statuses
<1> QED BY <1>1, ServerSame DEF Cancel

\* End keeps the coordinator typed: it cancels, ends the active attempt with its
\* successor, or waits.
LEMMA EndTyped ==
  ASSUME TypeInv, NEW a \in Attempts, NEW reason, End(a, reason) PROVE ServerTypeOK'
<1> DEFINE successors == {b \in Pending : previous[b] = a}
<1>1. CASE active = a /\ ~(reason = "failed" /\ successors # {})
  <2> DEFINE e1 == Event("decision", a, "committed", None)
             e2 == Event("decision", CHOOSE b \in successors : TRUE, "cancelled", None)
             more == IF successors = {} THEN <<>> ELSE <<e2>>
  <2>1. EndActive(a, reason) BY <1>1 DEF End
  <2>2. Append(inbox, e1) \in Seq(Events) BY TellTyped DEF Statuses
  <2>3. more \in Seq(Events)
    <3>1. CASE successors = {} BY <3>1, EmptySeq
    <3>2. CASE successors # {}
      <4>1. (CHOOSE b \in successors : TRUE) \in Attempts BY <3>2 DEF Pending
      <4>2. e2 \in Events BY <4>1 DEF Event, Events, Statuses
      <4> QED BY <3>2, <4>2
    <3> QED BY <3>1, <3>2
  <2>4. inbox' = Append(inbox, e1) \o more BY <1>1, <2>1 DEF EndActive
  <2>5. inbox' \in Seq(Events) BY <2>2, <2>3, <2>4, ConcatProperties
  <2>6. Forget(successors) BY <1>1, <2>1 DEF EndActive
  <2>7. ready' \in [Attempts -> SUBSET Sides] /\ previous' \in [Attempts -> Attempts \cup {None}]
    BY <2>6, ForgetTyped
  <2>8. active' = None /\ status' \in [Attempts -> Statuses]
    BY <1>1, <2>1 DEF EndActive, TypeInv, ServerTypeOK, Statuses
  <2> QED BY <2>5, <2>7, <2>8 DEF ServerTypeOK
<1>2. CASE active = a /\ reason = "failed" /\ successors # {}
  BY <1>2, ServerSame DEF End, EndActive
<1>3. CASE active # a BY <1>3, CancelTyped DEF End
<1> QED BY <1>1, <1>2, <1>3

\* A new subscription replays at most one typed event.
LEMMA SubscribeTyped == ASSUME TypeInv, Subscribe PROVE ServerTypeOK'
<1> DEFINE a == CHOOSE b \in Pending : TRUE
<1>1. inbox' \in Seq(Events)
  <2>1. CASE Pending = {} BY <2>1, EmptySeq DEF Subscribe
  <2>2. CASE Pending # {}
    <3>1. a \in Attempts BY <2>2 DEF Pending
    <3>2. previous[a] \in Attempts \cup {None} BY <3>1 DEF TypeInv, ServerTypeOK
    <3>3. Event("candidate", a, "pending", previous[a]) \in Events
      BY <3>1, <3>2 DEF Event, Events, Statuses
    <3> QED BY <2>2, <3>3 DEF Subscribe
  <2> QED BY <2>1, <2>2
<1> QED BY <1>1 DEF Subscribe, TypeInv, ServerTypeOK
-----------------------------------------------------------------------------
(* The slots.                                                              *)

\* The session of a slot, if there is one, is a session.
LEMMA SlotSessionTyped ==
  ASSUME NEW s \in Sides, NEW a \in Attempts \cup {None}
  PROVE  SlotSession(s, a) \in SUBSET Sessions
BY DEF SlotSession, Sessions

\* The promotion barrier keeps slots and marks typed.
LEMMA InstallPrimaryTyped ==
  ASSUME TypeInv, NEW s \in Sides, NEW a \in Attempts, InstallPrimary(s, a)
  PROVE  SlotsOK' /\ MarksOK'
<1>1. SlotSession(s, primary[s]) \in SUBSET Sessions
  BY SlotSessionTyped DEF TypeInv, SlotsOK
<1>2. StoppedOK' BY <1>1, StopTyped DEF InstallPrimary
<1>3. SlotsOK' BY DEF InstallPrimary, TypeInv, SlotsOK
<1>4. promoted' \subseteq Sessions
  BY DEF InstallPrimary, TypeInv, MarksOK, FlagsOK, Sessions
<1> QED BY <1>2, <1>3, <1>4 DEF InstallPrimary, TypeInv, MarksOK, PredOK, FlagsOK

\* So does the installation of an inbound candidate.
LEMMA InstallInboundTyped ==
  ASSUME TypeInv, NEW a \in Attempts, InstallInbound(a), UNCHANGED primary
  PROVE  SlotsOK' /\ MarksOK'
<1>1. "to" \in Sides /\ <<"to", a>> \in Sessions BY DEF Sides, Sessions
<1>2. SlotsOK' BY <1>1 DEF InstallInbound, TypeInv, SlotsOK
<1>3. PredOK' BY <1>1 DEF InstallInbound, TypeInv, SlotsOK, MarksOK, PredOK
<1>4. recovers' \subseteq Sessions BY <1>1 DEF InstallInbound, TypeInv, MarksOK, FlagsOK
<1> QED BY <1>2, <1>3, <1>4 DEF InstallInbound, TypeInv, MarksOK, FlagsOK, StoppedOK

\* So does retiring a committed attempt whose carrier is gone.
LEMMA RetireCommittedTyped ==
  ASSUME TypeInv, NEW a \in Attempts, RetireCommitted(a)
  PROVE  SlotsOK' /\ MarksOK'
<1> DEFINE p == primary["to"]
           exact == p # None /\ p = previous[a]
           S == {<<"to", a>>} \cup IF exact THEN {<<"to", p>>} ELSE {}
<1>1. "to" \in Sides BY DEF Sides
<1>2. S \in SUBSET Sessions BY <1>1 DEF TypeInv, SlotsOK, Sessions
<1>3. Stop(S) BY DEF RetireCommitted
<1>4. StoppedOK' BY <1>2, <1>3, StopTyped
<1>5. SlotsOK' BY <1>1 DEF RetireCommitted, TypeInv, SlotsOK
<1> QED BY <1>4, <1>5 DEF RetireCommitted, TypeInv, MarksOK, PredOK, FlagsOK

\* So does the target's promotion from an event or an admission.
LEMMA PromoteTargetTyped ==
  ASSUME TypeInv, NEW a \in Attempts, NEW dead \in BOOLEAN, PromoteTarget(a, dead)
  PROVE  SlotsOK' /\ MarksOK'
<1>1. "to" \in Sides BY DEF Sides
<1>2. CASE RetireCommitted(a) BY <1>2, RetireCommittedTyped
<1>3. CASE InstallPrimary("to", a) BY <1>1, <1>3, InstallPrimaryTyped
<1>4. CASE UNCHANGED <<cand, primary, marks>>
  <2>1. SlotsOK' BY <1>4 DEF TypeInv, SlotsOK
  <2> QED BY <1>4, <2>1, MarksSame
<1> QED BY <1>2, <1>3, <1>4 DEF PromoteTarget

\* Releasing the slots of a terminal attempt keeps them typed.
LEMMA VacateTyped ==
  ASSUME TypeInv, NEW a, VacateTarget(a) PROVE SlotsOK'
BY DEF VacateTarget, releases, TypeInv, SlotsOK

-----------------------------------------------------------------------------
(* The actions.                                                            *)

\* The source's preparation and commit keep every type.
LEMMA SourceTyped ==
  ASSUME TypeInv, NEW a \in Attempts, SourceStep(a) PROVE TypeInv'
<1>0. "from" \in Sides /\ <<"from", a>> \in Sessions BY DEF Sides, Sessions
<1>1. CASE LinkState(a)
  <2>1. StepOK' BY <1>0, <1>1, GoTyped DEF LinkState, Steps
  <2>2. ScopeOK' BY <1>1 DEF LinkState, TypeInv, ScopeOK, ServerTypeOK
  <2> QED BY <1>1, <2>1, <2>2, ServerSame, SlotsSame, MarksSame, RestSame DEF LinkState, TypeInv
<1>2. CASE LinkStateFails(a)
  <2>1. FaultsOK' BY <1>2, FaultTyped, RestSame DEF LinkStateFails, FaultUnless
  <2> QED BY <1>0, <1>2, <2>1, MovesTyped DEF LinkStateFails, Steps
<1>3. CASE PrepareReplies(a)
  <2>1. ServerTypeOK' BY <1>3, PrepareTyped DEF PrepareReplies, TypeInv, ScopeOK
  <2>2. StepOK' BY <1>0, <1>3, GoTyped DEF PrepareReplies, Steps
  <2> QED BY <1>3, <2>1, <2>2, LocalSame, RestSame DEF PrepareReplies, TypeInv
<1>4. CASE PrepareLost(a)
  <2>1. ServerTypeOK' BY <1>4, PrepareTyped DEF PrepareLost, TypeInv, ScopeOK
  <2> QED BY <1>4, <2>1, LocalSame, RestSame, FaultTyped DEF PrepareLost, TypeInv
<1>5. CASE PrepareRefused(a)
  <2>1. FaultsOK' BY <1>5, FaultTyped, RestSame DEF PrepareRefused, FaultUnless
  <2> QED BY <1>0, <1>5, <2>1, MovesTyped DEF PrepareRefused, Steps
<1>6. CASE CommitDispatched(a)
  <2>1. StepOK' BY <1>0, <1>6, GoTyped DEF CommitDispatched, Steps
  <2>2. MarksOK' BY <1>0, <1>6 DEF CommitDispatched, TypeInv, MarksOK, PredOK, FlagsOK, StoppedOK
  <2> QED BY <1>6, <2>1, <2>2, ServerSame, SlotsSame, ScopeSame, RestSame DEF CommitDispatched,
           TypeInv
<1>7. CASE CommitBarred(a)
  <2>1. StepOK' BY <1>0, <1>7, GoTyped DEF CommitBarred, Steps
  <2>2. MarksOK' BY <1>0, <1>7 DEF CommitBarred, TypeInv, MarksOK, PredOK, FlagsOK, StoppedOK
  <2> QED BY <1>7, <2>1, <2>2, ServerSame, SlotsSame, ScopeSame, RestSame DEF CommitBarred,
           TypeInv
<1>8. CASE CommitReplies(a)
  <2>1. ServerTypeOK' BY <1>8, CommitTyped DEF CommitReplies
  <2>2. StepOK' BY <1>0, <1>8, GoTyped DEF CommitReplies, Steps
  <2> QED BY <1>8, <2>1, <2>2, LocalSame, RestSame DEF CommitReplies, TypeInv
<1>9. CASE CommitLost(a)
  <2>1. ServerTypeOK' BY <1>9, CommitTyped, ServerSame DEF CommitLost
  <2>2. StepOK' BY <1>0, <1>9, GoTyped DEF CommitLost, Steps
  <2> QED BY <1>9, <2>1, <2>2, LocalSame, FaultTyped DEF CommitLost, TypeInv
<1>10. CASE SourceDecisionReceived(a)
  <2>1. MarksOK' BY <1>0, <1>10, StopsOnlyTyped DEF SourceDecisionReceived
  <2> QED BY <1>10, <2>1, ServerSame, SlotsSame, ScopeSame,
           RestSame DEF SourceDecisionReceived, TypeInv
<1> QED BY <1>1, <1>2, <1>3, <1>4, <1>5, <1>6, <1>7, <1>8, <1>9, <1>10 DEF SourceStep

\* The steps of a session, from establishment to its end, keep every type.
LEMMA SessionTyped ==
  ASSUME TypeInv, NEW s \in Sides, NEW a \in Attempts, SessionStep(s, a) PROVE TypeInv'
<1>0. <<s, a>> \in Sessions BY DEF Sessions
<1>1. CASE TransportFails(s, a)
  <2>1. FaultsOK' BY <1>1, FaultTyped, RestSame DEF TransportFails, FaultUnless
  <2> QED BY <1>1, <2>1, MovesTyped DEF TransportFails, Steps
<1>2. CASE Establishes(s, a)
  <2>1. StepOK' BY <1>2, GoTyped DEF Establishes, Steps
  <2>2. CarrierOK' BY <1>0, <1>2 DEF Establishes, TypeInv, CarrierOK
  <2> QED BY <1>2, <2>1, <2>2, ServerSame, SlotsSame, ScopeSame, MarksSame, RestSame
          DEF Establishes, TypeInv
<1>3. CASE EstablishFails(s, a)
  <2>1. StepOK' BY <1>3, GoTyped DEF EstablishFails, Steps
  <2>2. CarrierOK' BY <1>0, <1>3 DEF EstablishFails, TypeInv, CarrierOK
  <2>3. FaultsOK' BY <1>3, FaultTyped, RestSame DEF EstablishFails, FaultUnless
  <2> QED BY <1>3, <2>1, <2>2, <2>3, ServerSame, SlotsSame, ScopeSame, MarksSame, RestSame
          DEF EstablishFails, TypeInv
<1>4. CASE observeCandidateDecision(s, a)
  <2>1. ServerTypeOK' BY <1>4, CancelTyped, ServerSame DEF observeCandidateDecision
  <2>2. StoppedOK' BY <1>0, <1>4, StopTyped DEF observeCandidateDecision
  <2>3. MarksOK' BY <1>4, <2>2 DEF observeCandidateDecision, TypeInv, MarksOK, PredOK, FlagsOK
  <2> QED BY <1>4, <2>1, <2>3, SlotsSame, ScopeSame, RestSame DEF observeCandidateDecision,
           TypeInv
<1>5. CASE GracePasses(s, a)
  BY <1>5, OnlyTyped DEF GracePasses, Steps
<1>6. CASE GraceFails(s, a)
  <2>1. StepOK' BY <1>6, GoTyped DEF GraceFails, Steps
  <2>2. MarksOK' BY <1>0, <1>6 DEF GraceFails, TypeInv, MarksOK, PredOK, FlagsOK, StoppedOK
  <2> QED BY <1>6, <2>1, <2>2, ServerSame, SlotsSame, ScopeSame, RestSame DEF GraceFails, TypeInv
<1>7. CASE ReadyGivesUp(s, a)
  BY <1>7, OnlyTyped DEF ReadyGivesUp, Steps
<1>8. CASE ReadyReplies(s, a)
  <2>1. ServerTypeOK' BY <1>8, ReadyTyped DEF ReadyReplies
  <2>2. StepOK' BY <1>8, GoTyped DEF ReadyReplies, Steps
  <2> QED BY <1>8, <2>1, <2>2, LocalSame, RestSame DEF ReadyReplies, TypeInv
<1>9. CASE ReadyLost(s, a)
  <2>1. ServerTypeOK' BY <1>9, ReadyTyped DEF ReadyLost
  <2> QED BY <1>9, <2>1, LocalSame, RestSame, FaultTyped DEF ReadyLost, TypeInv
<1>10. CASE ResolveGivesUp(s, a)
  BY <1>10, OnlyTyped DEF ResolveGivesUp, Steps
<1>11. CASE ResolveReads(s, a)
  BY <1>11, OnlyTyped DEF ResolveReads, Steps
<1>12. CASE Promotes(s, a)
  <2>1. StepOK' BY <1>12, GoTyped DEF Promotes, Steps
  <2>2. SlotsOK' /\ MarksOK' BY <1>12, InstallPrimaryTyped DEF Promotes
  <2>3. QueueOK' BY <1>12 DEF Promotes, TypeInv, QueueOK
  <2> QED BY <1>12, <2>1, <2>2, <2>3, ServerSame, ScopeSame, RestSame DEF Promotes, TypeInv
<1>13. CASE PromoteSettles(s, a)
  BY <1>13, OnlyTyped DEF PromoteSettles, Steps
<1>14. CASE CancelReplies(s, a)
  <2>1. ServerTypeOK' BY <1>14, CancelTyped DEF CancelReplies
  <2>2. StepOK' BY <1>14, GoTyped DEF CancelReplies, Steps
  <2> QED BY <1>14, <2>1, <2>2, LocalSame, RestSame DEF CancelReplies, TypeInv
<1>15. CASE CancelLost(s, a)
  <2>1. ServerTypeOK' BY <1>15, CancelTyped DEF CancelLost
  <2> QED BY <1>15, <2>1, LocalSame, RestSame, FaultTyped DEF CancelLost, TypeInv
<1>16. CASE Cleanup(s, a)
  <2>1. StepOK' BY <1>16, GoTyped DEF Cleanup, Steps
  <2>2. StoppedOK' BY <1>0, <1>16, StopTyped DEF Cleanup
  <2>3. MarksOK' BY <1>16, <2>2 DEF Cleanup, TypeInv, MarksOK, PredOK, FlagsOK
  <2>4. CarrierOK' BY <1>0, <1>16 DEF Cleanup, TypeInv, CarrierOK
  <2>5. JobsOK' BY <1>0, <1>16 DEF Cleanup, TypeInv, JobsOK
  <2> QED BY <1>16, <2>1, <2>3, <2>4, <2>5, ServerSame, SlotsSame, ScopeSame, RestSame
          DEF Cleanup, TypeInv
<1>17. CASE EndReplies(s, a)
  <2>1. ServerTypeOK' BY <1>17, EndTyped DEF EndReplies
  <2>2. StepOK' BY <1>0, <1>17 DEF EndReplies, Answered, TypeInv, StepOK, Steps
  <2>3. JobsOK' BY <1>0, <1>17 DEF EndReplies, jobAfter, TypeInv, JobsOK
  <2> QED BY <1>17, <2>1, <2>2, <2>3, SlotsSame, ScopeSame, MarksSame, RestSame
          DEF EndReplies, TypeInv
<1>18. CASE EndLost(s, a)
  <2>1. ServerTypeOK' BY <1>18, EndTyped, ServerSame DEF EndLost
  <2>2. StepOK' BY <1>0, <1>18 DEF EndLost, Answered, TypeInv, StepOK, Steps
  <2>3. JobsOK' BY <1>0, <1>18 DEF EndLost, jobAfter, TypeInv, JobsOK
  <2> QED BY <1>18, <2>1, <2>2, <2>3, SlotsSame, ScopeSame, MarksSame, RestSame, FaultTyped
          DEF EndLost, TypeInv
<1>19. CASE Finish(s, a)
  <2>1. StepOK' BY <1>19, GoTyped DEF Finish, Steps
  <2>2. SlotsOK' BY <1>19 DEF Finish, releases, TypeInv, SlotsOK
  <2>3. QueueOK' BY <1>19 DEF Finish, TypeInv, QueueOK
  <2>4. PredOK' BY <1>0, <1>19 DEF Finish, TypeInv, MarksOK, PredOK
  <2>5. FlagsOK' /\ StoppedOK' BY <1>19 DEF Finish, TypeInv, MarksOK, FlagsOK, StoppedOK
  <2>6. CarrierOK' BY <1>0, <1>19 DEF Finish, TypeInv, CarrierOK
  <2> QED BY <1>19, <2>1, <2>2, <2>3, <2>4, <2>5, <2>6, ServerSame, ScopeSame, RestSame
          DEF Finish, TypeInv, MarksOK
<1> QED BY <1>1, <1>2, <1>3, <1>4, <1>5, <1>6, <1>7, <1>8, <1>9, <1>10, <1>11, <1>12, <1>13,
           <1>14, <1>15, <1>16, <1>17, <1>18, <1>19 DEF SessionStep

\* The next event of the subscription names an attempt.
LEMMA InboxTyped ==
  ASSUME TypeInv, NEW kind, Received(kind), ServerIdle
  PROVE  Head(inbox) \in Events /\ Head(inbox).attempt \in Attempts /\ ServerTypeOK'
<1>1. inbox \in Seq(Events) /\ inbox # <<>> BY DEF Received, TypeInv, ServerTypeOK
<1>2. Head(inbox) \in Events /\ Tail(inbox) \in Seq(Events) BY <1>1, HeadTailProperties
<1> QED BY <1>2 DEF Received, ServerIdle, TypeInv, ServerTypeOK, Events

\* The target's events keep every type.
LEMMA ReceiveTyped == ASSUME TypeInv, Receive PROVE TypeInv'
<1> DEFINE e == Head(inbox)
           a == e.attempt
<1>0. "to" \in Sides /\ (a \in Attempts => <<"to", a>> \in Sessions) BY DEF Sides, Sessions
<1>1. CASE DecisionReceived
  <2>1. a \in Attempts /\ ServerTypeOK' BY <1>1, InboxTyped DEF DecisionReceived
  <2>2. SlotsOK' /\ MarksOK'
    <3>1. CASE PromoteTarget(a, carrierDead(a))
      BY <2>1, <3>1, PromoteTargetTyped DEF carrierDead
    <3>2. CASE UNCHANGED <<cand, primary>> /\ StopsOnly({<<"to", a>>})
      BY <1>0, <2>1, <3>2, StopsOnlyTyped DEF TypeInv, SlotsOK
    <3>3. CASE VacateTarget(a) /\ StopsOnly({<<"to", a>>})
      BY <1>0, <2>1, <3>3, StopsOnlyTyped, VacateTyped
    <3>4. CASE UNCHANGED <<cand, primary, marks>>
      BY <3>4, MarksSame DEF TypeInv, SlotsOK
    <3> QED BY <1>1, <3>1, <3>2, <3>3, <3>4 DEF DecisionReceived
  <2>3. QueueOK' BY <1>1 DEF DecisionReceived, TypeInv, QueueOK
  <2> QED BY <1>1, <2>1, <2>2, <2>3, ScopeSame, RestSame DEF DecisionReceived, TypeInv
<1>2. CASE CandidateIgnored
  <2>1. ServerTypeOK' BY <1>2, InboxTyped DEF CandidateIgnored
  <2> QED BY <1>2, <2>1, SlotsSame, ScopeSame, MarksSame, RestSame DEF CandidateIgnored, TypeInv
<1>3. CASE CandidateAccepted
  <2>1. a \in Attempts /\ ServerTypeOK' BY <1>3, InboxTyped DEF CandidateAccepted
  <2>2. StepOK' BY <1>0, <1>3, <2>1, GoTyped DEF CandidateAccepted, Steps
  <2>3. SlotsOK' /\ MarksOK' /\ QueueOK'
    <3>1. CASE cand["to"] = None
      <4>1. InstallInbound(a) /\ UNCHANGED <<primary, queue>> BY <1>3, <3>1 DEF CandidateAccepted
      <4> QED BY <2>1, <4>1, InstallInboundTyped DEF TypeInv, QueueOK
    <3>2. CASE cand["to"] # None
      <4>1. queue' = [attempt |-> a, over |-> cand["to"]] /\ UNCHANGED <<cand, primary, marks>>
        BY <1>3, <3>2 DEF CandidateAccepted
      <4>2. cand["to"] \in Attempts BY <1>0, <3>2 DEF TypeInv, SlotsOK
      <4>3. QueueOK' BY <2>1, <4>1, <4>2 DEF QueueOK
      <4> QED BY <4>1, <4>3, MarksSame DEF TypeInv, SlotsOK
    <3> QED BY <3>1, <3>2
  <2> QED BY <1>3, <2>1, <2>2, <2>3, ScopeSame, RestSame DEF CandidateAccepted, TypeInv
<1> QED BY <1>1, <1>2, <1>3 DEF Receive

\* A queued admission keeps every type.
LEMMA AdmissionTyped ==
  ASSUME TypeInv, NEW a \in Attempts, AdmissionStep(a) PROVE TypeInv'
<1> DEFINE b == queue.over
<1>0. "to" \in Sides /\ <<"to", a>> \in Sessions BY DEF Sides, Sessions
<1>00. admissible(a) => b \in Attempts /\ <<"to", b>> \in Sessions
  BY <1>0 DEF admissible, TypeInv, QueueOK, NoQueue, None, Attempts, Sessions
<1>1. CASE AdmissionReads(a)
  BY <1>0, <1>1, OnlyTyped DEF AdmissionReads, Steps
<1>2. CASE AdmissionRefused(a)
  <2>1. StepOK' BY <1>0, <1>2, GoTyped DEF AdmissionRefused, Steps
  <2>2. MarksOK' BY <1>0, <1>2, StopsOnlyTyped DEF AdmissionRefused
  <2>3. SlotsOK' BY <1>2 DEF AdmissionRefused, TypeInv, SlotsOK
  <2>4. QueueOK' BY <1>2 DEF AdmissionRefused, TypeInv, QueueOK
  <2>5. FaultsOK' BY <1>2, FaultTyped, RestSame DEF AdmissionRefused, FaultUnless
  <2> QED BY <1>2, <2>1, <2>2, <2>3, <2>4, <2>5, ServerSame, ScopeSame, RestSame
          DEF AdmissionRefused, TypeInv
<1>3. CASE AdmissionPromotes(a)
  <2>1. StepOK' BY <1>0, <1>3, GoTyped DEF AdmissionPromotes, Steps
  <2>2. SlotsOK' /\ MarksOK'
    BY <1>00, <1>3, PromoteTargetTyped DEF AdmissionPromotes, unrebuilt, carrierDead
  <2>3. QueueOK' BY <1>3 DEF AdmissionPromotes, TypeInv, QueueOK
  <2> QED BY <1>3, <2>1, <2>2, <2>3, ServerSame, ScopeSame, RestSame DEF AdmissionPromotes,
           TypeInv
<1>4. CASE AdmissionRetires(a)
  <2>1. StepOK' BY <1>0, <1>4, GoTyped DEF AdmissionRetires, Steps
  <2>2. MarksOK' BY <1>00, <1>4, StopsOnlyTyped DEF AdmissionRetires
  <2>3. SlotsOK' BY <1>4, VacateTyped DEF AdmissionRetires
  <2>4. QueueOK' BY <1>4 DEF AdmissionRetires, TypeInv, QueueOK
  <2> QED BY <1>4, <2>1, <2>2, <2>3, <2>4, ServerSame, ScopeSame,
           RestSame DEF AdmissionRetires, TypeInv
<1>5. CASE AdmissionInstalls(a)
  <2>1. StepOK' BY <1>0, <1>5, GoTyped DEF AdmissionInstalls, Steps
  <2>2. SlotsOK' /\ MarksOK' BY <1>5, InstallInboundTyped DEF AdmissionInstalls
  <2>3. QueueOK' BY <1>5 DEF AdmissionInstalls, QueueOK
  <2> QED BY <1>5, <2>1, <2>2, <2>3, ServerSame, ScopeSame, RestSame DEF AdmissionInstalls,
           TypeInv
<1> QED BY <1>1, <1>2, <1>3, <1>4, <1>5 DEF AdmissionStep

\* The user, the network, the pins and the coordinator's clock keep every type.
LEMMA EnvironmentTyped == ASSUME TypeInv, Environment PROVE TypeInv'
<1>0. "from" \in Sides /\ "to" \in Sides BY DEF Sides
<1>1. ASSUME NEW a \in Attempts, Connect(a) PROVE TypeInv'
  <2>0. <<"from", a>> \in Sessions BY <1>0 DEF Sessions
  <2>1. StepOK' BY <1>0, <1>1, GoTyped DEF Connect, Steps
  <2>2. SlotsOK' BY <1>0, <1>1 DEF Connect, TypeInv, SlotsOK
  <2>3. QueueOK' BY <1>1 DEF Connect, TypeInv, QueueOK
  <2>4. ScopeOK' BY <1>1, CoordinatorAssumption DEF Connect, TypeInv, ScopeOK, Attempts
  <2>5. PredOK' BY <1>0, <1>1, <2>0 DEF Connect, TypeInv, SlotsOK, MarksOK, PredOK
  <2>6. FlagsOK' BY <1>1, <2>0 DEF Connect, TypeInv, MarksOK, FlagsOK
  <2>7. StoppedOK' BY <1>1 DEF Connect, TypeInv, MarksOK, StoppedOK
  <2> QED BY <1>1, <2>1, <2>2, <2>3, <2>4, <2>5, <2>6, <2>7, ServerSame, RestSame
          DEF Connect, TypeInv, MarksOK
<1>2. ASSUME NEW a \in Attempts, Expire(a) PROVE TypeInv'
  <2>1. ServerTypeOK' BY <1>2, CancelTyped DEF Expire
  <2>2. FaultsOK' BY <1>2, FaultTyped, RestSame DEF Expire, FaultUnless
  <2> QED BY <1>2, <2>1, <2>2, SlotsSame, ScopeSame, MarksSame, RestSame DEF Expire, TypeInv
<1>3. CASE CallerGivesUp
  <2>1. cand["from"] \in Attempts BY <1>0, <1>3 DEF CallerGivesUp, TypeInv, SlotsOK
  <2>2. <<"from", cand["from"]>> \in Sessions BY <1>0, <2>1 DEF Sessions
  <2>3. MarksOK' BY <1>3, <2>2 DEF CallerGivesUp, TypeInv, MarksOK, PredOK, FlagsOK, StoppedOK
  <2> QED BY <1>3, <2>3, ServerSame, SlotsSame, ScopeSame, RestSame, FaultTyped
          DEF CallerGivesUp, TypeInv
<1>4. CASE Disconnect
  <2> DEFINE S == SlotSession("from", primary["from"]) \cup SlotSession("from", cand["from"])
  <2>1. S \in SUBSET Sessions BY <1>0, SlotSessionTyped DEF TypeInv, SlotsOK
  <2>2. Stop(S) BY <1>4 DEF Disconnect
  <2>3. StoppedOK' BY <2>1, <2>2, StopTyped
  <2>4. MarksOK' BY <1>4, <2>3 DEF Disconnect, TypeInv, MarksOK, PredOK, FlagsOK
  <2>5. JobsOK' BY <1>4 DEF Disconnect, TypeInv, JobsOK
  <2> QED BY <1>4, <2>4, <2>5, ServerSame, SlotsSame, ScopeSame, RestSame, FaultTyped
          DEF Disconnect, TypeInv
<1>5. CASE Resubscribe
  <2>1. ServerTypeOK' BY <1>5, SubscribeTyped DEF Resubscribe
  <2>2. queue.attempt \in Attempts \cup {None}
    BY DEF TypeInv, QueueOK, NoQueue
  <2>3. MarksOK' BY <1>0, <1>5, <2>2, SlotSessionTyped, StopsOnlyTyped DEF Resubscribe
  <2> QED BY <1>5, <2>1, <2>3, SlotsSame, ScopeSame, RestSame, FaultTyped DEF Resubscribe, TypeInv
<1>6. ASSUME NEW s \in Sides, Revoke(s) PROVE TypeInv'
  <2> DEFINE out == {s} \X revokedSlots(s)
             waiting == IF s = "to" THEN SlotSession(s, queue.attempt) ELSE {}
  <2>1. revokedSlots(s) \subseteq Attempts BY DEF revokedSlots, TypeInv, SlotsOK
  <2>2. out \in SUBSET Sessions BY <2>1 DEF Sessions
  <2>3. queue.attempt \in Attempts \cup {None}
    BY DEF TypeInv, QueueOK, NoQueue
  <2>4. waiting \in SUBSET Sessions BY <2>3, SlotSessionTyped
  <2>5. Stop(out \cup waiting) /\ scopeRetired' = scopeRetired \cup out \cup waiting
    BY <1>6 DEF Revoke
  <2> HIDE DEF out, waiting
  <2>6. out \cup waiting \in SUBSET Sessions BY <2>2, <2>4
  <2>7. StoppedOK' BY <2>5, <2>6, StopTyped
  <2>8. FlagsOK' BY <1>6, <2>2, <2>4, <2>5 DEF Revoke, TypeInv, MarksOK, FlagsOK
  <2>9. PredOK' BY <1>6 DEF Revoke, TypeInv, MarksOK, PredOK
  <2>10. SlotsOK' BY <1>6 DEF Revoke, TypeInv, SlotsOK
  <2>11. QueueOK' BY <1>6 DEF Revoke, TypeInv, QueueOK
  <2>12. ScopeOK' BY <1>6 DEF Revoke, TypeInv, ScopeOK
  <2> QED BY <1>6, <2>7, <2>8, <2>9, <2>10, <2>11, <2>12, ServerSame, RestSame, FaultTyped
          DEF Revoke, TypeInv, MarksOK
<1>7. ASSUME NEW s \in Sides, Pin(s) PROVE TypeInv'
  <2>1. ScopeOK' BY <1>7 DEF Pin, TypeInv, ScopeOK
  <2> QED BY <1>7, <2>1, ServerSame, SlotsSame, MarksSame, RestSame, FaultTyped DEF Pin, TypeInv
<1>8. ASSUME NEW s \in Sides, NEW a \in Attempts,
             CarrierSuspends(s, a) \/ CarrierRecovers(s, a) \/ CarrierDies(s, a)
      PROVE  TypeInv'
  <2>1. <<s, a>> \in Sessions BY DEF Sessions
  <2>2. CarrierOK' BY <1>8, <2>1 DEF CarrierSuspends, CarrierRecovers, CarrierDies, TypeInv,
           CarrierOK
  <2>3. FaultsOK' BY <1>8, FaultTyped, RestSame
        DEF CarrierSuspends, CarrierRecovers, CarrierDies, FaultUnless
  <2> QED BY <1>8, <2>2, <2>3, ServerSame, SlotsSame, ScopeSame, MarksSame, RestSame
          DEF CarrierSuspends, CarrierRecovers, CarrierDies, TypeInv
<1> QED BY <1>1, <1>2, <1>3, <1>4, <1>5, <1>6, <1>7, <1>8 DEF Environment

\* A recovered primary cancels a candidate that exists.
LEMMA RecoveryTyped == ASSUME TypeInv, NEW s \in Sides, transportChanged(s) PROVE TypeInv'
<1>1. <<s, cand[s]>> \in Sessions BY DEF transportChanged, TypeInv, SlotsOK, Sessions
<1>2. MarksOK' BY <1>1 DEF transportChanged, TypeInv, MarksOK, PredOK, FlagsOK, StoppedOK
<1> QED BY <1>2, ServerSame, SlotsSame, ScopeSame, RestSame DEF transportChanged, TypeInv

\* A manager without sessions is typed.
LEMMA InitTyped == Init => TypeInv
<1> SUFFICES ASSUME Init PROVE TypeInv OBVIOUS
<1>1. ServerTypeOK
  <2>1. inbox \in Seq(Events) BY EmptySeq DEF Init, ServerInit
  <2> QED BY <2>1 DEF Init, ServerInit, ServerTypeOK, Statuses
<1>2. SlotsOK /\ QueueOK BY DEF Init, SlotsOK, QueueOK
<1>3. ScopeOK BY CoordinatorAssumption DEF Init, ScopeOK
<1>4. StepOK BY DEF Init, StepOK, Steps
<1>5. MarksOK BY DEF Init, MarksOK, PredOK, FlagsOK, StoppedOK
<1>6. CarrierOK /\ JobsOK BY DEF Init, CarrierOK, JobsOK
<1>7. FaultsOK BY CandidateAssumption DEF Init, FaultsOK
<1> QED BY <1>1, <1>2, <1>3, <1>4, <1>5, <1>6, <1>7 DEF TypeInv

\* Every step keeps every type.
LEMMA NextTyped == ASSUME TypeInv, [Next]_vars PROVE TypeInv'
<1>1. CASE UNCHANGED vars
  BY <1>1, ServerSame, SlotsSame, ScopeSame, MarksSame, RestSame DEF vars, TypeInv
<1> QED BY <1>1, SourceTyped, AdmissionTyped, SessionTyped, ReceiveTyped, RecoveryTyped,
           EnvironmentTyped DEF Next

\* The typed invariant holds throughout; the later proofs start from it.
LEMMA AlwaysTyped == Spec => []TypeInv
BY InitTyped, NextTyped, PTL DEF Spec

\* Every variable of the two managers and of the coordinator has its type in every
\* reachable state, for any number of attempts and faults.
THEOREM TypeCorrect == Spec => []TypeOK
BY AlwaysTyped, TypeInvImplies, PTL

-----------------------------------------------------------------------------
(* RevokedOwnsNothing.                                                     *)

\* The slots belong to the two sides, whatever is in them.
SlotsTyped ==
  /\ DOMAIN cand = Sides /\ DOMAIN primary = Sides
  /\ pinned \in [Sides -> BOOLEAN]
RevokeInv == SlotsTyped /\ RevokedOwnsNothing

\* A slot is kept or emptied while its side is not authorized.
SlotsOnlyEmpty ==
  /\ DOMAIN cand' = Sides /\ DOMAIN primary' = Sides
  /\ UNCHANGED pinned
  /\ \A s \in Sides : ~pinned[s] =>
       cand'[s] \in {cand[s], None} /\ primary'[s] \in {primary[s], None}

\* A step that at most empties the slots of an unauthorized side keeps the invariant.
LEMMA SlotsOnlyEmptyKeeps == ASSUME RevokeInv, SlotsOnlyEmpty PROVE RevokeInv'
BY DEF RevokeInv, SlotsTyped, RevokedOwnsNothing, SlotsOnlyEmpty

\* So does one that leaves the slots and the pins alone.
LEMMA SlotsUnchangedKeep == ASSUME RevokeInv, UNCHANGED <<cand, primary, pinned>> PROVE RevokeInv'
BY DEF RevokeInv, SlotsTyped, RevokedOwnsNothing

-----------------------------------------------------------------------------
\* The source's calls to the coordinator fill no slot.
LEMMA SourceStepKeeps ==
  ASSUME RevokeInv, NEW a \in Attempts, SourceStep(a) PROVE RevokeInv'
<1>1. UNCHANGED <<cand, primary, pinned>>
  BY DEF SourceStep, LinkState, LinkStateFails, PrepareReplies, PrepareLost, PrepareRefused,
     CommitDispatched, CommitBarred, CommitReplies, CommitLost, SourceDecisionReceived,
     Moves, LocalUnchanged, slots, scope
<1> QED
  BY <1>1, SlotsUnchangedKeep

\* A session enters the primary slot only while its side is authorized, and finish empties slots.
LEMMA SessionStepKeeps ==
  ASSUME RevokeInv, NEW s \in Sides, NEW a \in Attempts, SessionStep(s, a) PROVE RevokeInv'
<1>1. CASE Promotes(s, a)
  <2>1. /\ pinned[s] /\ UNCHANGED pinned
        /\ primary' = [primary EXCEPT ![s] = a] /\ cand' = [cand EXCEPT ![s] = None]
    BY <1>1 DEF Promotes, promotable, InstallPrimary, scope
  <2> QED
    BY <2>1, SlotsOnlyEmptyKeeps DEF RevokeInv, SlotsTyped, SlotsOnlyEmpty
<1>2. CASE Finish(s, a)
  <2>1. /\ UNCHANGED pinned
        /\ primary' = [primary EXCEPT ![s] = releases(@, a)]
        /\ cand' = [cand EXCEPT ![s] = releases(@, a)]
    BY <1>2 DEF Finish, scope
  <2> QED
    BY <2>1, SlotsOnlyEmptyKeeps DEF RevokeInv, SlotsTyped, SlotsOnlyEmpty, releases
<1>3. CASE ~Promotes(s, a) /\ ~Finish(s, a)
  <2>1. UNCHANGED <<cand, primary, pinned>>
    BY <1>3 DEF SessionStep, TransportFails, Establishes, EstablishFails,
       observeCandidateDecision, GracePasses, GraceFails, ReadyGivesUp, ReadyReplies, ReadyLost,
       ResolveGivesUp, ResolveReads, PromoteSettles, CancelReplies, CancelLost, Cleanup,
       EndReplies, EndLost, Only, Moves, LocalUnchanged, slots, scope
  <2> QED
    BY <2>1, SlotsUnchangedKeep
<1> QED
  BY <1>1, <1>2, <1>3

\* The target's promotion from an event needs the pin.
LEMMA PromoteTargetEmpties ==
  ASSUME RevokeInv, NEW a, NEW dead, PromoteTarget(a, dead), UNCHANGED pinned
  PROVE  SlotsOnlyEmpty
<1>1. CASE <<"to", a>> \in promoted \/ ~ownsCandidateLocked("to", a) \/ ~pinned["to"]
  BY <1>1 DEF PromoteTarget, RevokeInv, SlotsTyped, SlotsOnlyEmpty
<1>2. CASE ~(<<"to", a>> \in promoted \/ ~ownsCandidateLocked("to", a) \/ ~pinned["to"])
  <2>1. CASE RetireCommitted(a)
    BY <2>1 DEF RetireCommitted, RevokeInv, SlotsTyped, SlotsOnlyEmpty
  <2>2. CASE InstallPrimary("to", a)
    BY <1>2, <2>2 DEF InstallPrimary, RevokeInv, SlotsTyped, SlotsOnlyEmpty, Sides
  <2>3. CASE UNCHANGED <<cand, primary>>
    BY <2>3 DEF RevokeInv, SlotsTyped, SlotsOnlyEmpty
  <2> QED
    BY <1>2, <2>1, <2>2, <2>3 DEF PromoteTarget
<1> QED
  BY <1>1, <1>2

\* Retiring a decided candidate empties its slot.
LEMMA VacateEmpties ==
  ASSUME RevokeInv, NEW a, VacateTarget(a), UNCHANGED pinned PROVE SlotsOnlyEmpty
BY DEF VacateTarget, releases, RevokeInv, SlotsTyped, SlotsOnlyEmpty

\* An inbound candidate is installed only under the pin.
LEMMA InstallEmpties ==
  ASSUME RevokeInv, NEW a, InstallInbound(a), pinned["to"], UNCHANGED <<primary, pinned>>
  PROVE  SlotsOnlyEmpty
BY DEF InstallInbound, RevokeInv, SlotsTyped, SlotsOnlyEmpty, Sides

\* No event fills a slot of a target without the pin.
LEMMA ReceiveKeeps == ASSUME RevokeInv, Receive PROVE RevokeInv'
<1>1. CASE DecisionReceived
  <2>1. UNCHANGED pinned
    BY <1>1 DEF DecisionReceived, scope
  <2>2. \/ UNCHANGED <<cand, primary>>
        \/ \E a, dead : PromoteTarget(a, dead)
        \/ \E a : VacateTarget(a)
    BY <1>1 DEF DecisionReceived
  <2> QED
    BY <2>1, <2>2, PromoteTargetEmpties, VacateEmpties, SlotsOnlyEmptyKeeps, SlotsUnchangedKeep
<1>2. CASE CandidateIgnored
  BY <1>2, SlotsUnchangedKeep DEF CandidateIgnored, slots, scope
<1>3. CASE CandidateAccepted
  <2>1. pinned["to"] /\ UNCHANGED <<primary, pinned>>
    BY <1>3 DEF CandidateAccepted, refusesInbound, scope
  <2>2. UNCHANGED cand \/ \E a : InstallInbound(a)
    BY <1>3 DEF CandidateAccepted
  <2> QED
    BY <2>1, <2>2, InstallEmpties, SlotsOnlyEmptyKeeps, SlotsUnchangedKeep
<1> QED
  BY <1>1, <1>2, <1>3 DEF Receive

\* Nor does the admission of a queued candidate.
LEMMA AdmissionStepKeeps ==
  ASSUME RevokeInv, NEW a \in Attempts, AdmissionStep(a) PROVE RevokeInv'
<1>1. CASE AdmissionReads(a) \/ AdmissionRefused(a)
  BY <1>1, SlotsUnchangedKeep DEF AdmissionReads, AdmissionRefused, Only, Moves, slots, scope
<1>2. CASE AdmissionPromotes(a)
  BY <1>2, PromoteTargetEmpties, SlotsOnlyEmptyKeeps DEF AdmissionPromotes, scope
<1>3. CASE AdmissionRetires(a)
  BY <1>3, VacateEmpties, SlotsOnlyEmptyKeeps DEF AdmissionRetires, scope
<1>4. CASE AdmissionInstalls(a)
  BY <1>4, InstallEmpties, SlotsOnlyEmptyKeeps DEF AdmissionInstalls, admissible, scope
<1> QED
  BY <1>1, <1>2, <1>3, <1>4 DEF AdmissionStep

\* Revoke empties both slots as it takes the pin; Connect needs the pin.
LEMMA EnvironmentKeeps == ASSUME RevokeInv, Environment PROVE RevokeInv'
<1>1. ASSUME NEW a \in Attempts, Connect(a) PROVE RevokeInv'
  <2>1. /\ pinned["from"] /\ UNCHANGED <<primary, pinned>>
        /\ cand' = [cand EXCEPT !["from"] = a]
    BY <1>1 DEF Connect
  <2> QED
    BY <2>1, SlotsOnlyEmptyKeeps DEF RevokeInv, SlotsTyped, SlotsOnlyEmpty, Sides
<1>2. ASSUME NEW s \in Sides, Revoke(s) PROVE RevokeInv'
  <2>1. \A x : x \in revokedSlots(s) <=> x # None /\ x \in {primary[s], cand[s]}
    BY DEF revokedSlots
  <2>2. /\ pinned' = [pinned EXCEPT ![s] = FALSE]
        /\ primary' = [primary EXCEPT ![s] = IF @ \in revokedSlots(s) THEN None ELSE @]
        /\ cand' = [cand EXCEPT ![s] = IF @ \in revokedSlots(s) THEN None ELSE @]
    BY <1>2 DEF Revoke
  <2>3. primary'[s] = None /\ cand'[s] = None
    BY <2>1, <2>2 DEF RevokeInv, SlotsTyped
  <2> QED
    BY <2>2, <2>3 DEF RevokeInv, SlotsTyped, RevokedOwnsNothing
<1>3. ASSUME NEW s \in Sides, Pin(s) PROVE RevokeInv'
  <2>1. pinned' = [pinned EXCEPT ![s] = TRUE] /\ UNCHANGED <<cand, primary>>
    BY <1>3 DEF Pin, slots
  <2> QED
    BY <2>1 DEF RevokeInv, SlotsTyped, RevokedOwnsNothing
<1>4. CASE CallerGivesUp \/ Disconnect \/ Resubscribe
  BY <1>4, SlotsUnchangedKeep DEF CallerGivesUp, Disconnect, Resubscribe, slots, scope
<1>5. ASSUME NEW s \in Sides, NEW a \in Attempts,
             CarrierSuspends(s, a) \/ CarrierRecovers(s, a) \/ CarrierDies(s, a) \/ Expire(a)
      PROVE  RevokeInv'
  BY <1>5, SlotsUnchangedKeep DEF CarrierSuspends, CarrierRecovers, CarrierDies, Expire,
     slots, scope
<1> QED
  BY <1>1, <1>2, <1>3, <1>4, <1>5 DEF Environment, Sides

\* Nothing that was under way when a side lost its authorization is staged,
\* promoted or installed there afterwards: the barrier of revokeExpected holds
\* against every other critical section of the manager.
THEOREM RevokedOwnsNothingHolds == Spec => []RevokedOwnsNothing
<1>1. Init => RevokeInv
  BY DEF Init, RevokeInv, SlotsTyped, RevokedOwnsNothing
<1>2. RevokeInv /\ [Next]_vars => RevokeInv'
  <2> SUFFICES ASSUME RevokeInv, [Next]_vars PROVE RevokeInv'
    OBVIOUS
  <2>1. ASSUME NEW s \in Sides, transportChanged(s) PROVE RevokeInv'
    BY <2>1, SlotsUnchangedKeep DEF transportChanged, slots, scope
  <2>2. CASE UNCHANGED vars
    BY <2>2, SlotsUnchangedKeep DEF vars, slots, scope
  <2> QED
    BY <2>1, <2>2, SourceStepKeeps, AdmissionStepKeeps, SessionStepKeeps, ReceiveKeeps,
       EnvironmentKeeps DEF Next
<1> QED
  BY <1>1, <1>2, PTL DEF Spec, RevokeInv

-----------------------------------------------------------------------------
(* What a step does at the coordinator.                                    *)

\* The call, the event or the new subscription of a step.
ServerStep ==
  \/ UNCHANGED serverVars
  \/ Subscribe
  \/ inbox # <<>> /\ inbox' = Tail(inbox) /\ ServerIdle
  \/ \E a \in Attempts :
       \/ Prepare(a, expected[a]) /\ pc[<<"from", a>>] = "prepare"
       \/ \E s \in Sides : Ready(s, a) /\ pc[<<s, a>>] = "ready"
       \/ Commit(a) /\ pc[<<"from", a>>] = "commit"
       \/ Cancel(a)
       \/ \E reason : End(a, reason)

\* Every step of the system is one call, one event or nothing at the coordinator; Prepare
\* and Commit are only called from their own step of the source.
LEMMA ServerSteps == ASSUME [Next]_vars PROVE ServerStep
<1>1. ASSUME NEW a \in Attempts, SourceStep(a) PROVE ServerStep
  BY <1>1 DEF SourceStep, ServerStep, LinkState, LinkStateFails, PrepareReplies, PrepareLost,
     PrepareRefused, CommitDispatched, CommitBarred, CommitReplies, CommitLost,
     SourceDecisionReceived, Moves
<1>2. ASSUME NEW s \in Sides, NEW a \in Attempts, SessionStep(s, a) PROVE ServerStep
  BY <1>2 DEF SessionStep, ServerStep, TransportFails, Establishes, EstablishFails,
     observeCandidateDecision, GracePasses, GraceFails, ReadyGivesUp, mayReady, ReadyReplies,
              ReadyLost,
     ResolveGivesUp, ResolveReads, Promotes, PromoteSettles, CancelReplies, CancelLost, Cleanup,
     EndReplies, EndLost, Finish, Only, Moves
<1>3. ASSUME NEW a \in Attempts, AdmissionStep(a) PROVE ServerStep
  BY <1>3 DEF AdmissionStep, ServerStep, AdmissionReads, AdmissionRefused, AdmissionPromotes,
     AdmissionRetires, AdmissionInstalls, Only, Moves
<1>4. CASE Receive
  BY <1>4 DEF Receive, ServerStep, DecisionReceived, CandidateIgnored, CandidateAccepted, Received
<1>5. CASE Environment
  BY <1>5 DEF Environment, ServerStep, Connect, Expire, CallerGivesUp, Disconnect, Resubscribe,
     Revoke, Pin, CarrierSuspends, CarrierRecovers, CarrierDies
<1>6. ASSUME NEW s \in Sides, transportChanged(s) PROVE ServerStep
  BY <1>6 DEF transportChanged, ServerStep
<1>7. CASE UNCHANGED vars
  BY <1>7 DEF vars, ServerStep
<1> QED BY <1>1, <1>2, <1>3, <1>4, <1>5, <1>6, <1>7 DEF Next

\* A decision the target has been told of, or will be, stands.
EventTrue(e) ==
  e.kind = "decision" =>
    /\ e.status = "cancelled" => status[e.attempt] = "cancelled"
    /\ e.status = "committed" =>
         status[e.attempt] = "committed" /\ (e.active # e.attempt => active # e.attempt)
\* The same after the step, for an event sent by it.
TrueNext(e) ==
  e.kind = "decision" =>
    /\ e.status = "cancelled" => status'[e.attempt] = "cancelled"
    /\ e.status = "committed" =>
         status'[e.attempt] = "committed" /\ (e.active # e.attempt => active' # e.attempt)
\* The events on their way agree with the coordinator, and what is in use was committed.
InboxTrue == \A i \in 1 .. Len(inbox) : EventTrue(inbox[i])
ActiveIsCommitted == active # None => status[active] = "committed"
ServerInv == InboxTrue /\ ActiveIsCommitted

\* Commit and Cancel share one decision, and nothing that ended comes back.
DecisionStays ==
  \A a \in Attempts :
    /\ Decided(a) => status'[a] = status[a]
    /\ status[a] = "committed" /\ active # a => active' # a

\* A true event is appended to a true inbox.
LEMMA AppendTrue ==
  ASSUME TypeInv, ServerInv, DecisionStays, NEW e \in Events, TrueNext(e),
         inbox' = Append(inbox, e)
  PROVE  InboxTrue'
<1>1. inbox \in Seq(Events) BY DEF TypeInv, ServerTypeOK
<1> SUFFICES ASSUME NEW i \in 1 .. Len(inbox') PROVE EventTrue(inbox[i])' BY DEF InboxTrue
<1>2. Len(inbox') = Len(inbox) + 1 /\ inbox'[Len(inbox) + 1] = e
      /\ (i <= Len(inbox) => inbox'[i] = inbox[i])
  BY <1>1, AppendProperties
<1>3. CASE i <= Len(inbox)
  <2>1. i \in 1 .. Len(inbox) BY <1>1, <1>3
  <2>2. inbox[i] \in Events BY <1>1, <2>1, ElementOfSeq
  <2>3. EventTrue(inbox[i]) BY <2>1 DEF ServerInv, InboxTrue
  <2> QED BY <1>2, <1>3, <2>2, <2>3 DEF EventTrue, DecisionStays, Decided, Events
<1>4. CASE i = Len(inbox) + 1
  BY <1>2, <1>4 DEF EventTrue, TrueNext
<1> QED BY <1>1, <1>2, <1>3, <1>4

\* An inbox nobody touches stays true, since decisions stand.
LEMMA SameInboxTrue ==
  ASSUME TypeInv, ServerInv, DecisionStays, UNCHANGED inbox PROVE InboxTrue'
<1>1. inbox \in Seq(Events) BY DEF TypeInv, ServerTypeOK
<1> SUFFICES ASSUME NEW i \in 1 .. Len(inbox) PROVE EventTrue(inbox[i])' BY DEF InboxTrue
<1>2. inbox[i] \in Events BY <1>1, ElementOfSeq
<1>3. EventTrue(inbox[i]) BY DEF ServerInv, InboxTrue
<1> QED BY <1>2, <1>3 DEF EventTrue, DecisionStays, Decided, Events

\* Cancel overrides no decision and announces what it decided.
LEMMA CancelStands ==
  ASSUME TypeInv, ServerInv, NEW a \in Attempts, Cancel(a)
  PROVE  ServerInv' /\ DecisionStays
<1>1. CASE status[a] = "pending"
  <2>1. DecisionStays BY <1>1 DEF Cancel, DecisionStays, Decided, TypeInv, ServerTypeOK
  <2>2. Event("decision", a, "cancelled", active) \in Events
    BY DEF Event, Events, Statuses, TypeInv, ServerTypeOK
  <2>3. TrueNext(Event("decision", a, "cancelled", active))
    BY <1>1 DEF TrueNext, Event, Cancel, TypeInv, ServerTypeOK
  <2>4. InboxTrue' BY <1>1, <2>1, <2>2, <2>3, AppendTrue DEF Cancel, Tell
  <2> QED BY <1>1, <2>1, <2>4 DEF Cancel, ServerInv, ActiveIsCommitted, DecisionStays, Decided,
          TypeInv, ServerTypeOK
<1>2. CASE status[a] # "pending"
  <2>1. DecisionStays BY <1>2 DEF Cancel, DecisionStays, Decided, serverVars
  <2> QED BY <1>2, <2>1, SameInboxTrue DEF Cancel, ServerInv, ActiveIsCommitted, serverVars
<1> QED BY <1>1, <1>2

\* Commit overrides no decision and announces what it decided.
LEMMA CommitStands ==
  ASSUME TypeInv, ServerInv, NEW a \in Attempts, Commit(a)
  PROVE  ServerInv' /\ DecisionStays
<1>1. CASE Committable(a)
  <2>1. DecisionStays /\ status'[a] = "committed"
    BY <1>1 DEF Commit, Committable, DecisionStays, Decided, TypeInv, ServerTypeOK
  <2>2. Event("decision", a, "committed", a) \in Events BY DEF Event, Events, Statuses
  <2>3. TrueNext(Event("decision", a, "committed", a))
    BY <1>1, <2>1 DEF TrueNext, Event, Commit
  <2>4. InboxTrue' BY <1>1, <2>1, <2>2, <2>3, AppendTrue DEF Commit, Tell
  <2> QED BY <1>1, <2>1, <2>4 DEF Commit, ServerInv, ActiveIsCommitted
<1>2. CASE ~Committable(a)
  <2>1. DecisionStays BY <1>2 DEF Commit, DecisionStays, Decided, serverVars
  <2> QED BY <1>2, <2>1, SameInboxTrue DEF Commit, ServerInv, ActiveIsCommitted, serverVars
<1> QED BY <1>1, <1>2

\* Prepare touches no decided attempt.
LEMMA PrepareStands ==
  ASSUME TypeInv, ServerInv, NEW a \in Attempts, NEW x \in Attempts \cup {None}, Prepare(a, x)
  PROVE  ServerInv' /\ DecisionStays
<1>1. CASE Admits(a, x)
  <2>1. DecisionStays BY <1>1 DEF Prepare, Admits, DecisionStays, Decided, TypeInv, ServerTypeOK
  <2>2. Event("candidate", a, "pending", x) \in Events BY DEF Event, Events, Statuses
  <2>3. TrueNext(Event("candidate", a, "pending", x)) BY DEF TrueNext, Event
  <2>4. InboxTrue' BY <1>1, <2>1, <2>2, <2>3, AppendTrue DEF Prepare, Tell
  <2> QED BY <1>1, <2>1, <2>4 DEF Prepare, ServerInv, ActiveIsCommitted, DecisionStays, Decided,
          TypeInv, ServerTypeOK
<1>2. CASE ~Admits(a, x)
  <2>1. DecisionStays BY <1>2 DEF Prepare, DecisionStays, Decided, serverVars
  <2> QED BY <1>2, <2>1, SameInboxTrue DEF Prepare, ServerInv, ActiveIsCommitted, serverVars
<1> QED BY <1>1, <1>2

\* End leaves the commitment of the attempt it ends standing, cancels only what is
\* pending and announces both.
LEMMA EndStands ==
  ASSUME TypeInv, ServerInv, NEW a \in Attempts, NEW reason, End(a, reason)
  PROVE  ServerInv' /\ DecisionStays
<1> DEFINE successors == {b \in Pending : previous[b] = a}
           e1 == Event("decision", a, "committed", None)
           e2 == Event("decision", CHOOSE b \in successors : TRUE, "cancelled", None)
<1>1. CASE active = a /\ ~(reason = "failed" /\ successors # {})
  <2>1. EndActive(a, reason) BY <1>1 DEF End
  <2>2. /\ active' = None
        /\ status' = [b \in Attempts |-> IF b \in successors THEN "cancelled" ELSE status[b]]
        /\ inbox' = Append(inbox, e1) \o IF successors = {} THEN <<>> ELSE <<e2>>
    BY <1>1, <2>1 DEF EndActive
  <2>3. DecisionStays BY <2>2 DEF DecisionStays, Decided, Pending, None, Attempts
  <2>4. e1 \in Events /\ e1.attempt = a /\ e1.status = "committed"
    BY DEF Event, Events, Statuses
  <2>5. status'[a] = "committed"
    BY <1>1, <2>3 DEF ServerInv, ActiveIsCommitted, DecisionStays, Decided, None, Attempts
  <2>6. successors # {} =>
          e2 \in Events /\ e2.status = "cancelled" /\ e2.attempt \in successors
    <3> SUFFICES ASSUME successors # {}
                 PROVE  e2 \in Events /\ e2.status = "cancelled" /\ e2.attempt \in successors
      OBVIOUS
    <3>1. (CHOOSE b \in successors : TRUE) \in successors OBVIOUS
    <3>2. (CHOOSE b \in successors : TRUE) \in Attempts BY <3>1 DEF Pending
    <3> QED BY <3>1, <3>2 DEF Event, Events, Statuses
  <2>7. inbox \in Seq(Events) BY DEF TypeInv, ServerTypeOK
  <2>8. ASSUME NEW i \in 1 .. Len(inbox') PROVE EventTrue(inbox[i])'
    <3> DEFINE n == Len(inbox)
    <3> HIDE DEF e1, e2
    <3>1. Append(inbox, e1) \in Seq(Events) /\ Len(Append(inbox, e1)) = n + 1
          /\ Append(inbox, e1)[n + 1] = e1
          /\ \A j \in 1 .. n : Append(inbox, e1)[j] = inbox[j]
      BY <2>4, <2>7, AppendProperties
    <3>2. /\ Len(inbox') = IF successors = {} THEN n + 1 ELSE n + 2
          /\ \A j \in 1 .. n : inbox'[j] = inbox[j]
          /\ inbox'[n + 1] = e1
          /\ successors # {} => inbox'[n + 2] = e2
      <4>1. CASE successors = {}
        <5>1. inbox' = Append(inbox, e1) BY <2>2, <3>1, <4>1, ConcatEmptySeq
        <5> QED BY <3>1, <4>1, <5>1
      <4>2. CASE successors # {}
        <5>1. inbox' = Append(inbox, e1) \o <<e2>> BY <2>2, <4>2
        <5>2. <<e2>> \in Seq(Events) /\ Len(<<e2>>) = 1 /\ <<e2>>[1] = e2 BY <2>6, <4>2
        <5>3. n \in Nat BY <2>7, LenProperties
        <5> HIDE DEF n
        <5> QED BY <3>1, <4>2, <5>1, <5>2, <5>3, ConcatProperties
      <4> QED BY <4>1, <4>2
    <3>3. n \in Nat BY <2>7, LenProperties
    <3>4. i \in 1 .. n \/ i = n + 1 \/ (successors # {} /\ i = n + 2) BY <3>2, <3>3
    <3>5. CASE i \in 1 .. n
      <4>1. inbox[i] \in Events BY <2>7, <3>5, ElementOfSeq
      <4>2. EventTrue(inbox[i]) BY <3>5 DEF ServerInv, InboxTrue
      <4> QED BY <2>3, <3>2, <3>5, <4>1, <4>2 DEF EventTrue, DecisionStays, Decided, Events
    <3>6. CASE i = n + 1
      <4>1. active' # a BY <2>2 DEF None, Attempts
      <4> QED BY <2>4, <2>5, <3>2, <3>6, <4>1 DEF EventTrue
    <3>7. CASE successors # {} /\ i = n + 2
      <4>1. e2.attempt \in Attempts /\ status'[e2.attempt] = "cancelled"
        BY <2>2, <2>6, <3>7 DEF Pending
      <4> QED BY <2>6, <3>2, <3>7, <4>1 DEF EventTrue
    <3> QED BY <3>4, <3>5, <3>6, <3>7
  <2> QED BY <2>2, <2>3, <2>8 DEF ServerInv, InboxTrue, ActiveIsCommitted
<1>2. CASE active = a /\ reason = "failed" /\ successors # {}
  <2>1. UNCHANGED serverVars BY <1>2 DEF End, EndActive
  <2>2. DecisionStays BY <2>1 DEF DecisionStays, Decided, serverVars
  <2> QED BY <2>1, <2>2, SameInboxTrue DEF ServerInv, ActiveIsCommitted, serverVars
<1>3. CASE active # a BY <1>3, CancelStands DEF End
<1> QED BY <1>1, <1>2, <1>3

\* Decisions are immutable, an ended attempt is never active again, and no event
\* contradicts either, whatever is lost, delayed or replayed.
LEMMA ServerStands ==
  ASSUME TypeInv, ServerInv, [Next]_vars PROVE ServerInv' /\ DecisionStays
<1>0. ServerStep BY ServerSteps
<1>1. CASE UNCHANGED serverVars
  <2>1. DecisionStays BY <1>1 DEF DecisionStays, Decided, serverVars
  <2> QED BY <1>1, <2>1, SameInboxTrue DEF ServerInv, ActiveIsCommitted, serverVars
<1>2. CASE Subscribe
  <2>1. DecisionStays BY <1>2 DEF DecisionStays, Decided, Subscribe
  <2>2. InboxTrue'
    <3>1. CASE Pending = {} BY <1>2, <3>1 DEF Subscribe, InboxTrue
    <3>2. CASE Pending # {}
      <4> DEFINE a == CHOOSE b \in Pending : TRUE
                 e == Event("candidate", a, "pending", previous[a])
      <4>1. inbox' = <<e>> BY <1>2, <3>2 DEF Subscribe
      <4>2. e.kind = "candidate" BY DEF Event
      <4> HIDE DEF e
      <4> QED BY <4>1, <4>2 DEF InboxTrue, EventTrue
    <3> QED BY <3>1, <3>2
  <2> QED BY <1>2, <2>1, <2>2 DEF Subscribe, ServerInv, ActiveIsCommitted
<1>3. CASE inbox # <<>> /\ inbox' = Tail(inbox) /\ ServerIdle
  <2>1. DecisionStays BY <1>3 DEF DecisionStays, Decided, ServerIdle
  <2>2. inbox \in Seq(Events) BY DEF TypeInv, ServerTypeOK
  <2>3. ASSUME NEW i \in 1 .. Len(inbox') PROVE EventTrue(inbox[i])'
    <3>1. i + 1 \in 1 .. Len(inbox) /\ inbox'[i] = inbox[i + 1] BY <1>3, <2>2
    <3>2. EventTrue(inbox[i + 1]) BY <3>1 DEF ServerInv, InboxTrue
    <3> QED BY <1>3, <3>1, <3>2 DEF EventTrue, ServerIdle
  <2> QED BY <1>3, <2>1, <2>3 DEF ServerInv, InboxTrue, ActiveIsCommitted, ServerIdle
<1>4. ASSUME NEW a \in Attempts, NEW s \in Sides, Ready(s, a) PROVE ServerInv' /\ DecisionStays
  <2>1. DecisionStays /\ UNCHANGED <<status, active, inbox>> BY <1>4 DEF Ready, DecisionStays,
           Decided
  <2> QED BY <2>1, SameInboxTrue DEF ServerInv, ActiveIsCommitted
<1>5. ASSUME NEW a \in Attempts, Prepare(a, expected[a]) PROVE ServerInv' /\ DecisionStays
  BY <1>5, PrepareStands DEF TypeInv, ScopeOK
<1> QED BY <1>0, <1>1, <1>2, <1>3, <1>4, <1>5, CommitStands, CancelStands,
         EndStands DEF ServerStep

-----------------------------------------------------------------------------
(* PrimaryIsCommitted.                                                     *)

\* A session about to be promoted, and one whose successor waits to promote it.
PromotesCommitted ==
  \A s \in Sides, a \in Attempts : pc[<<s, a>>] = "promote" => status[a] = "committed"
AdmitsCommitted ==
  \A a \in Attempts :
    pc[<<"to", a>>] = "admitPromote" /\ queue.attempt = a => status[queue.over] = "committed"
\* The inductive invariant of PrimaryIsCommitted.
CommittedInv == ServerInv /\ PromotesCommitted /\ AdmitsCommitted /\ PrimaryIsCommitted

\* A session goes on to promotion only on a committed decision.
LEMMA EntersPromote ==
  ASSUME TypeInv, [Next]_vars, NEW s \in Sides, NEW a \in Attempts, pc'[<<s, a>>] = "promote"
  PROVE  pc[<<s, a>>] = "promote" \/ status[a] = "committed" \/ status'[a] = "committed"
<1> USE DEF Sessions
<1>1. ASSUME NEW b \in Attempts, SourceStep(b)
      PROVE  pc[<<s, a>>] = "promote" \/ status'[a] = "committed"
  BY <1>1 DEF SourceStep, LinkState, LinkStateFails, PrepareReplies, PrepareLost,
     PrepareRefused, CommitDispatched, CommitBarred, CommitReplies, CommitLost,
     SourceDecisionReceived, Moves, Go, TypeInv, StepOK, Sides
<1>2. ASSUME NEW t \in Sides, NEW b \in Attempts, SessionStep(t, b)
      PROVE  pc[<<s, a>>] = "promote" \/ status[a] = "committed"
  BY <1>2 DEF SessionStep, TransportFails, Establishes, EstablishFails,
     observeCandidateDecision, GracePasses, GraceFails, ReadyGivesUp, ReadyReplies, ReadyLost,
     ResolveGivesUp, ResolveReads, Promotes, PromoteSettles, CancelReplies, CancelLost, Cleanup,
     EndReplies, EndLost, Finish, Only, Moves, Go, Answered, grantsPromotion, TypeInv, StepOK
<1>3. ASSUME NEW b \in Attempts, AdmissionStep(b) PROVE pc[<<s, a>>] = "promote"
  BY <1>3 DEF AdmissionStep, AdmissionReads, AdmissionRefused, AdmissionPromotes,
     AdmissionRetires, AdmissionInstalls, Only, Moves, Go, TypeInv, StepOK, Sides
<1>4. CASE Receive
  BY <1>4, InboxTyped DEF Receive, DecisionReceived, CandidateIgnored, CandidateAccepted, Go,
     TypeInv, StepOK, Sides
<1>5. CASE Environment
  BY <1>5 DEF Environment, Connect, Expire, CallerGivesUp, Disconnect, Resubscribe,
     Revoke, Pin, CarrierSuspends, CarrierRecovers, CarrierDies, Go, TypeInv, StepOK, Sides
<1>6. CASE (\E t \in Sides : transportChanged(t)) \/ UNCHANGED vars
  BY <1>6 DEF transportChanged, vars
<1> QED BY <1>1, <1>2, <1>3, <1>4, <1>5, <1>6 DEF Next

\* An admission goes on to promote its predecessor only on a committed decision.
LEMMA EntersAdmitPromote ==
  ASSUME TypeInv, [Next]_vars, NEW a \in Attempts, pc'[<<"to", a>>] = "admitPromote"
  PROVE  \/ pc[<<"to", a>>] = "admitPromote"
         \/ queue.attempt = a /\ status[queue.over] = "committed" /\ UNCHANGED queue
<1> USE DEF Sessions, Sides
<1>1. ASSUME NEW b \in Attempts, SourceStep(b) PROVE pc[<<"to", a>>] = "admitPromote"
  BY <1>1 DEF SourceStep, LinkState, LinkStateFails, PrepareReplies, PrepareLost,
     PrepareRefused, CommitDispatched, CommitBarred, CommitReplies, CommitLost,
     SourceDecisionReceived, Moves, Go, TypeInv, StepOK
<1>2. ASSUME NEW t \in Sides, NEW b \in Attempts, SessionStep(t, b)
      PROVE  pc[<<"to", a>>] = "admitPromote"
  BY <1>2 DEF SessionStep, TransportFails, Establishes, EstablishFails,
     observeCandidateDecision, GracePasses, GraceFails, ReadyGivesUp, ReadyReplies, ReadyLost,
     ResolveGivesUp, ResolveReads, Promotes, PromoteSettles, CancelReplies, CancelLost, Cleanup,
     EndReplies, EndLost, Finish, Only, Moves, Go, Answered, TypeInv, StepOK
<1>3. ASSUME NEW b \in Attempts, AdmissionStep(b)
      PROVE  \/ pc[<<"to", a>>] = "admitPromote"
             \/ queue.attempt = a /\ status[queue.over] = "committed" /\ UNCHANGED queue
  BY <1>3 DEF AdmissionStep, AdmissionReads, AdmissionRefused, AdmissionPromotes,
     AdmissionRetires, AdmissionInstalls, Only, Moves, Go, TypeInv, StepOK, admissible,
     grantsPromotion, slots
<1>4. CASE Receive
  BY <1>4, InboxTyped DEF Receive, DecisionReceived, CandidateIgnored, CandidateAccepted, Go,
     TypeInv, StepOK
<1>5. CASE Environment
  BY <1>5 DEF Environment, Connect, Expire, CallerGivesUp, Disconnect, Resubscribe,
     Revoke, Pin, CarrierSuspends, CarrierRecovers, CarrierDies, Go, TypeInv, StepOK
<1>6. CASE (\E t \in Sides : transportChanged(t)) \/ UNCHANGED vars
  BY <1>6 DEF transportChanged, vars
<1> QED BY <1>1, <1>2, <1>3, <1>4, <1>5, <1>6 DEF Next

\* The queue is emptied, or taken by a session that was idle until then.
LEMMA QueueSteps ==
  ASSUME TypeInv, [Next]_vars
  PROVE  \/ UNCHANGED queue
         \/ queue' = NoQueue
         \/ \E a \in Attempts :
              /\ queue = NoQueue /\ queue' = [attempt |-> a, over |-> cand["to"]]
              /\ cand["to"] \notin {None, a} /\ primary["to"] # a
              /\ UNCHANGED <<cand, primary, marks>>
              /\ pc[<<"to", a>>] = "idle" /\ pc' = [pc EXCEPT ![<<"to", a>>] = "queued"]
<1> DEFINE Goal ==
         \/ UNCHANGED queue
         \/ queue' = NoQueue
         \/ \E a \in Attempts :
              /\ queue = NoQueue /\ queue' = [attempt |-> a, over |-> cand["to"]]
              /\ cand["to"] \notin {None, a} /\ primary["to"] # a
              /\ UNCHANGED <<cand, primary, marks>>
              /\ pc[<<"to", a>>] = "idle" /\ pc' = [pc EXCEPT ![<<"to", a>>] = "queued"]
<1>1. ASSUME NEW b \in Attempts, SourceStep(b) PROVE Goal
  BY <1>1 DEF SourceStep, LinkState, LinkStateFails, PrepareReplies, PrepareLost,
     PrepareRefused, CommitDispatched, CommitBarred, CommitReplies, CommitLost,
     SourceDecisionReceived, Moves, LocalUnchanged, slots
<1>2. ASSUME NEW t \in Sides, NEW b \in Attempts, SessionStep(t, b) PROVE Goal
  BY <1>2 DEF SessionStep, TransportFails, Establishes, EstablishFails,
     observeCandidateDecision, GracePasses, GraceFails, ReadyGivesUp, ReadyReplies, ReadyLost,
     ResolveGivesUp, ResolveReads, Promotes, PromoteSettles, CancelReplies, CancelLost, Cleanup,
     EndReplies, EndLost, Finish, Only, Moves, LocalUnchanged, slots
<1>3. ASSUME NEW b \in Attempts, AdmissionStep(b) PROVE Goal
  BY <1>3 DEF AdmissionStep, AdmissionReads, AdmissionRefused, AdmissionPromotes,
     AdmissionRetires, AdmissionInstalls, Only, Moves, slots
<1>4. CASE CandidateAccepted
  <2> DEFINE a == Head(inbox).attempt
  <2>1. a \in Attempts BY <1>4, InboxTyped DEF CandidateAccepted
  <2>2. ~refusesInbound(a) /\ pc[<<"to", a>>] = "idle" BY <1>4 DEF CandidateAccepted
  <2>3. CASE cand["to"] = None BY <1>4, <2>3 DEF CandidateAccepted
  <2>4. CASE cand["to"] # None
    <3>1. /\ queue' = [attempt |-> a, over |-> cand["to"]]
          /\ UNCHANGED <<cand, primary, marks>> /\ Go("to", a, "queued")
      BY <1>4, <2>4 DEF CandidateAccepted
    <3> HIDE DEF a
    <3> QED BY <2>1, <2>2, <2>4, <3>1 DEF refusesInbound, Go
  <2> QED BY <2>3, <2>4
<1>5. CASE DecisionReceived \/ CandidateIgnored
  BY <1>5 DEF DecisionReceived, CandidateIgnored, slots
<1>6. CASE Environment
  BY <1>6 DEF Environment, Connect, Expire, CallerGivesUp, Disconnect, Resubscribe,
     Revoke, Pin, CarrierSuspends, CarrierRecovers, CarrierDies, slots
<1>7. CASE (\E t \in Sides : transportChanged(t)) \/ UNCHANGED vars
  BY <1>7 DEF transportChanged, vars, slots
<1> QED BY <1>1, <1>2, <1>3, <1>4, <1>5, <1>6, <1>7 DEF Next, Receive

\* The target's promotion fills the primary slot with the attempt it names or not at all.
LEMMA PromoteTargetFills ==
  ASSUME TypeInv, NEW a \in Attempts, NEW dead, PromoteTarget(a, dead), NEW s \in Sides
  PROVE  primary'[s] \in {primary[s], None, a}
<1>1. CASE RetireCommitted(a) BY <1>1 DEF RetireCommitted, TypeInv, SlotsOK
<1>2. CASE InstallPrimary("to", a) BY <1>2 DEF InstallPrimary, TypeInv, SlotsOK
<1>3. CASE UNCHANGED <<cand, primary, marks>> BY <1>3
<1> QED BY <1>1, <1>2, <1>3 DEF PromoteTarget

\* Only a committed attempt ever enters a primary slot.
LEMMA EntersPrimary ==
  ASSUME TypeInv, CommittedInv, [Next]_vars, NEW s \in Sides
  PROVE  primary'[s] \in {primary[s], None} \/ status[primary'[s]] = "committed"
<1> DEFINE Goal == primary'[s] \in {primary[s], None} \/ status[primary'[s]] = "committed"
<1>1. ASSUME NEW b \in Attempts, SourceStep(b) PROVE Goal
  BY <1>1 DEF SourceStep, LinkState, LinkStateFails, PrepareReplies, PrepareLost,
     PrepareRefused, CommitDispatched, CommitBarred, CommitReplies, CommitLost,
     SourceDecisionReceived, Moves, LocalUnchanged, slots
<1>2. ASSUME NEW t \in Sides, NEW b \in Attempts, SessionStep(t, b) PROVE Goal
  <2>1. CASE Promotes(t, b)
    <3>1. status[b] = "committed" BY <2>1 DEF Promotes, CommittedInv, PromotesCommitted
    <3>2. primary' = [primary EXCEPT ![t] = b] BY <2>1 DEF Promotes, InstallPrimary
    <3> QED BY <3>1, <3>2 DEF TypeInv, SlotsOK
  <2>2. CASE Finish(t, b) BY <2>2 DEF Finish, releases, TypeInv, SlotsOK
  <2>3. CASE ~Promotes(t, b) /\ ~Finish(t, b)
    BY <1>2, <2>3 DEF SessionStep, TransportFails, Establishes, EstablishFails,
     observeCandidateDecision, GracePasses, GraceFails, ReadyGivesUp, ReadyReplies, ReadyLost,
     ResolveGivesUp, ResolveReads, PromoteSettles, CancelReplies, CancelLost, Cleanup,
     EndReplies, EndLost, Only, Moves, LocalUnchanged, slots
  <2> QED BY <2>1, <2>2, <2>3
<1>3. ASSUME NEW b \in Attempts, AdmissionStep(b) PROVE Goal
  <2>1. CASE AdmissionPromotes(b)
    <3> DEFINE q == queue.over
    <3>1. queue.attempt = b /\ PromoteTarget(q, unrebuilt(q)) /\ pc[<<"to", b>>] = "admitPromote"
      BY <2>1 DEF AdmissionPromotes, admissible
    <3>2. q \in Attempts
      BY <3>1 DEF TypeInv, QueueOK, NoQueue, None, Attempts
    <3>3. status[q] = "committed" BY <3>1 DEF CommittedInv, AdmitsCommitted
    <3>4. primary'[s] \in {primary[s], None, q} BY <3>1, <3>2, PromoteTargetFills
    <3> QED BY <3>3, <3>4
  <2>2. CASE AdmissionRetires(b)
    BY <2>2 DEF AdmissionRetires, VacateTarget, releases, TypeInv, SlotsOK
  <2>3. CASE AdmissionReads(b) \/ AdmissionRefused(b) \/ AdmissionInstalls(b)
    BY <2>3 DEF AdmissionReads, AdmissionRefused, AdmissionInstalls, Only, Moves, slots
  <2> QED BY <1>3, <2>1, <2>2, <2>3 DEF AdmissionStep
<1>4. CASE DecisionReceived
  <2> DEFINE e == Head(inbox)
             a == e.attempt
  <2>1. a \in Attempts /\ inbox # <<>> /\ e.kind = "decision" /\ inbox \in Seq(Events)
    BY <1>4, InboxTyped DEF DecisionReceived, Received, TypeInv, ServerTypeOK
  <2>2. e = inbox[1] /\ 1 \in 1 .. Len(inbox) BY <2>1
  <2>3. e.status = "committed" => status[a] = "committed"
    BY <2>1, <2>2 DEF CommittedInv, ServerInv, InboxTrue, EventTrue
  <2>4. CASE e.status = "committed" /\ PromoteTarget(a, carrierDead(a))
    BY <2>1, <2>3, <2>4, PromoteTargetFills
  <2>5. CASE UNCHANGED <<cand, primary>> BY <2>5
  <2>6. CASE VacateTarget(a) BY <2>6 DEF VacateTarget, releases, TypeInv, SlotsOK
  <2> QED BY <1>4, <2>4, <2>5, <2>6 DEF DecisionReceived
<1>5. CASE CandidateIgnored \/ CandidateAccepted
  BY <1>5 DEF CandidateIgnored, CandidateAccepted, slots
<1>6. CASE Environment
  BY <1>6 DEF Environment, Connect, Expire, CallerGivesUp, Disconnect, Resubscribe,
     Revoke, Pin, CarrierSuspends, CarrierRecovers, CarrierDies, slots, TypeInv, SlotsOK
<1>7. CASE (\E t \in Sides : transportChanged(t)) \/ UNCHANGED vars
  BY <1>7 DEF transportChanged, vars, slots
<1> QED BY <1>1, <1>2, <1>3, <1>4, <1>5, <1>6, <1>7 DEF Next, Receive

\* Every step keeps what is primary, about to be promoted or announced as committed
\* committed.
LEMMA CommittedInductive ==
  ASSUME TypeInv, CommittedInv, [Next]_vars PROVE CommittedInv'
<1>1. ServerInv' /\ DecisionStays BY ServerStands DEF CommittedInv
<1>2. TypeInv' BY NextTyped
<1>3. PromotesCommitted'
  BY <1>1, EntersPromote DEF CommittedInv, PromotesCommitted, DecisionStays, Decided
<1>4. AdmitsCommitted'
  <2> SUFFICES ASSUME NEW a \in Attempts, pc'[<<"to", a>>] = "admitPromote", queue'.attempt = a
               PROVE  status'[queue'.over] = "committed"
    BY DEF AdmitsCommitted
  <2>1. UNCHANGED queue
    <3>1. a # None BY DEF Attempts, None
    <3>2. ASSUME NEW b \in Attempts, pc' = [pc EXCEPT ![<<"to", b>>] = "queued"],
                 queue' = [attempt |-> b, over |-> cand["to"]]
          PROVE  FALSE
      <4>1. a = b BY <3>2
      <4> QED BY <3>2, <4>1 DEF TypeInv, StepOK, Sessions, Sides
    <3>3. queue' # NoQueue BY <3>1 DEF NoQueue
    <3> QED BY <3>2, <3>3, QueueSteps
  <2>2. status[queue.over] = "committed"
    BY <2>1, EntersAdmitPromote DEF CommittedInv, AdmitsCommitted
  <2>3. queue.over \in Attempts
    BY <2>1 DEF TypeInv, QueueOK, NoQueue, None, Attempts
  <2> QED BY <1>1, <2>1, <2>2, <2>3 DEF DecisionStays, Decided
<1>5. PrimaryIsCommitted'
  <2> SUFFICES ASSUME NEW s \in Sides, primary'[s] # None PROVE status'[primary'[s]] = "committed"
    BY DEF PrimaryIsCommitted
  <2>1. primary'[s] \in Attempts BY <1>2 DEF TypeInv, SlotsOK
  <2>2. status[primary'[s]] = "committed"
    BY EntersPrimary DEF CommittedInv, PrimaryIsCommitted
  <2> QED BY <1>1, <2>1, <2>2 DEF DecisionStays, Decided
<1> QED BY <1>1, <1>3, <1>4, <1>5 DEF CommittedInv

\* Nothing is primary at first.
LEMMA InitCommitted == Init => CommittedInv
BY DEF Init, ServerInit, CommittedInv, ServerInv, InboxTrue, ActiveIsCommitted,
   PromotesCommitted, AdmitsCommitted, PrimaryIsCommitted, Sessions, Sides, None

\* Only a committed attempt is ever primary, on either side: replies are lost,
\* cancellations race the dispatched commit and decision events arrive late, but
\* resolveCandidateReceipt, the decision event and the queued admission promote nothing
\* the coordinator has not committed.
THEOREM PrimaryIsCommittedHolds == Spec => []PrimaryIsCommitted
<1>1. TypeInv /\ CommittedInv /\ [Next]_vars => CommittedInv' BY CommittedInductive
<1>2. CommittedInv => PrimaryIsCommitted BY DEF CommittedInv
<1> QED BY <1>1, <1>2, InitCommitted, AlwaysTyped, PTL DEF Spec

-----------------------------------------------------------------------------
(* AuthorityIsOwned.                                                       *)

\* The coordinator holds the attempt: it is pending or the one in use.
Holds(a) == status[a] = "pending" \/ active = a

\* A session that may still call the coordinator about its attempt, or an End job.
Answers(s, a) ==
  endJob[<<s, a>>] # "none" \/ pc[<<s, a>>] \notin {"idle", "link", "ending", "ended"}

\* Somebody answers for whatever the coordinator holds. It is stronger than
\* AuthorityIsOwned: a session that has not prepared yet, or whose End has been
\* answered, does not count.
AuthorityAnswered == \A a \in Attempts : Holds(a) => \E s \in Sides : Answers(s, a)

\* The source has sessions only for the generations it reserved.
Unreserved == \A a \in Attempts : a > generation => pc[<<"from", a>>] = "idle"
\* The inductive invariant of AuthorityIsOwned.
OwnedInv == ServerInv /\ Unreserved /\ AuthorityAnswered

\* A generation the source has not reserved has no session.
LEMMA UnreservedKept == ASSUME TypeInv, Unreserved, [Next]_vars PROVE Unreserved'
<1> SUFFICES ASSUME NEW a \in Attempts, a > generation' PROVE pc'[<<"from", a>>] = "idle"
  BY DEF Unreserved
<1> USE DEF Sessions, Sides
<1>0. generation \in Nat BY DEF TypeInv, ScopeOK
<1>1. ASSUME NEW b \in Attempts, SourceStep(b) PROVE pc'[<<"from", a>>] = "idle"
  BY <1>1 DEF SourceStep, LinkState, LinkStateFails, PrepareReplies, PrepareLost,
     PrepareRefused, CommitDispatched, CommitBarred, CommitReplies, CommitLost,
     SourceDecisionReceived, Moves, LocalUnchanged, Go, TypeInv, StepOK, Unreserved, scope, owned
<1>2. ASSUME NEW t \in Sides, NEW b \in Attempts, SessionStep(t, b) PROVE pc'[<<"from",
         a>>] = "idle"
  BY <1>2 DEF SessionStep, TransportFails, Establishes, EstablishFails,
     observeCandidateDecision, GracePasses, GraceFails, ReadyGivesUp, mayReady, ReadyReplies,
              ReadyLost,
     ResolveGivesUp, ResolveReads, Promotes, PromoteSettles, CancelReplies, CancelLost,
              Cleanup, liveEnds,
     EndReplies, EndLost, Finish, Only, Moves, LocalUnchanged, Go, Answered, TypeInv, StepOK,
     Unreserved, scope
<1>3. ASSUME NEW b \in Attempts, AdmissionStep(b) PROVE pc'[<<"from", a>>] = "idle"
  BY <1>3 DEF AdmissionStep, AdmissionReads, AdmissionRefused, AdmissionPromotes,
     AdmissionRetires, AdmissionInstalls, Only, Moves, Go, TypeInv, StepOK, Unreserved, scope
<1>4. CASE Receive
  BY <1>4, InboxTyped DEF Receive, DecisionReceived, CandidateIgnored, CandidateAccepted, Go,
     TypeInv, StepOK, Unreserved, scope
<1>5. CASE Environment
  <2>1. ASSUME NEW b \in Attempts, Connect(b) PROVE pc'[<<"from", a>>] = "idle"
    <3>1. generation' = b /\ b = generation + 1 BY <2>1 DEF Connect
    <3>2. a # b /\ a > generation BY <1>0, <3>1 DEF Attempts
    <3> QED BY <2>1, <3>2 DEF Connect, Go, TypeInv, StepOK, Unreserved
  <2> QED BY <1>5, <2>1 DEF Environment, Expire, CallerGivesUp, Disconnect, Resubscribe,
     Revoke, Pin, CarrierSuspends, CarrierRecovers, CarrierDies, Unreserved, scope
<1>6. CASE (\E t \in Sides : transportChanged(t)) \/ UNCHANGED vars
  BY <1>6 DEF transportChanged, vars, Unreserved, scope
<1> QED BY <1>1, <1>2, <1>3, <1>4, <1>5, <1>6 DEF Next

\* The coordinator comes to hold an attempt only by the call of the source that prepares
\* it.
LEMMA HeldAppears ==
  ASSUME TypeInv, [Next]_vars, NEW a \in Attempts, Holds(a)', ~Holds(a)
  PROVE  pc[<<"from", a>>] = "prepare"
<1>0. ServerStep BY ServerSteps
<1>1. ASSUME NEW b \in Attempts, NEW reason, End(b, reason) PROVE FALSE
  <2>1. CASE active = b
    <3>1. EndActive(b, reason) BY <1>1, <2>1 DEF End
    <3>2. CASE UNCHANGED serverVars BY <3>2 DEF Holds, serverVars
    <3>3. CASE ~UNCHANGED serverVars
      <4>1. active' = None /\ (status'[a] = "pending" => status[a] = "pending")
        BY <3>1, <3>3 DEF EndActive
      <4> QED BY <4>1 DEF Holds, None, Attempts
    <3> QED BY <3>2, <3>3
  <2>2. CASE active # b
    BY <1>1, <2>2 DEF End, Cancel, Holds, serverVars, TypeInv, ServerTypeOK
  <2> QED BY <2>1, <2>2
<1>2. ASSUME NEW b \in Attempts, Cancel(b) PROVE FALSE
  BY <1>2 DEF Cancel, Holds, serverVars, TypeInv, ServerTypeOK
<1>3. ASSUME NEW b \in Attempts, Commit(b) PROVE FALSE
  BY <1>3 DEF Commit, Committable, Holds, serverVars, TypeInv, ServerTypeOK
<1>4. ASSUME NEW b \in Attempts, NEW s \in Sides, Ready(s, b) PROVE FALSE
  BY <1>4 DEF Ready, Holds
<1>5. ASSUME NEW b \in Attempts, Prepare(b, expected[b]), pc[<<"from", b>>] = "prepare"
      PROVE  pc[<<"from", a>>] = "prepare"
  BY <1>5 DEF Prepare, Holds, serverVars, TypeInv, ServerTypeOK
<1>6. CASE UNCHANGED serverVars \/ Subscribe \/ (inbox # <<>> /\ inbox' = Tail(inbox)
         /\ ServerIdle)
  BY <1>6 DEF serverVars, Subscribe, ServerIdle, Holds
<1> QED BY <1>0, <1>1, <1>2, <1>3, <1>4, <1>5, <1>6 DEF ServerStep

\* After an End that leaves the attempt inactive it is not pending either.
LEMMA EndReleases ==
  ASSUME TypeInv, ServerInv, NEW a \in Attempts, NEW reason, End(a, reason), active' # a
  PROVE  status'[a] # "pending"
<1>1. CASE active = a
  <2>1. status[a] = "committed" BY <1>1 DEF ServerInv, ActiveIsCommitted, None, Attempts
  <2> QED BY <1>1, <2>1 DEF End, EndActive, serverVars
<1>2. CASE active # a
  BY <1>2 DEF End, Cancel, serverVars, TypeInv, ServerTypeOK
<1> QED BY <1>1, <1>2

\* Whoever answers for an attempt goes on doing so while the coordinator holds it: a
\* refused Prepare left no record, cleanup hands the ticket to an End job, and that job
\* stops only on a reply that shows the attempt released.
LEMMA AnswerKept ==
  ASSUME TypeInv, ServerInv, Unreserved, [Next]_vars, NEW s \in Sides, NEW a \in Attempts,
         Answers(s, a), Holds(a)'
  PROVE  Answers(s, a)'
<1> USE DEF Sessions, Sides
<1>1. ASSUME NEW b \in Attempts, PrepareRefused(b) PROVE Answers(s, a)'
  <2>1. ~Holds(b)'
    BY <1>1 DEF PrepareRefused, prepareDefinitelyAbsent, Moves, serverVars, Holds,
       ServerInv, ActiveIsCommitted, None, Attempts
  <2>2. a # b BY <2>1
  <2> QED BY <1>1, <2>2 DEF PrepareRefused, Moves, Go, Answers, TypeInv, StepOK, JobsOK
<1>2. ASSUME NEW b \in Attempts, SourceStep(b), ~PrepareRefused(b) PROVE Answers(s, a)'
  BY <1>2 DEF SourceStep, LinkState, LinkStateFails, PrepareReplies, PrepareLost,
     CommitDispatched, CommitBarred, CommitReplies, CommitLost,
     SourceDecisionReceived, Moves, LocalUnchanged, Go, Answers, TypeInv, StepOK, JobsOK
<1>3. ASSUME NEW t \in Sides, NEW b \in Attempts, EndReplies(t, b) PROVE Answers(s, a)'
  <2>1. CASE s = t /\ a = b
    <3>1. active' = a \/ (active' # a /\ status'[a] # "pending")
      BY <1>3, <2>1, EndReleases DEF EndReplies
    <3>2. active' = a BY <3>1 DEF Holds
    <3> QED BY <1>3, <2>1, <3>2 DEF EndReplies, jobAfter, Answers, TypeInv, JobsOK
  <2>2. CASE ~(s = t /\ a = b)
    BY <1>3, <2>2 DEF EndReplies, Answered, Answers, TypeInv, StepOK, JobsOK
  <2> QED BY <2>1, <2>2
<1>4. ASSUME NEW t \in Sides, NEW b \in Attempts, SessionStep(t, b), ~EndReplies(t, b)
      PROVE  Answers(s, a)'
  BY <1>4 DEF SessionStep, TransportFails, Establishes, EstablishFails,
     observeCandidateDecision, GracePasses, GraceFails, ReadyGivesUp, ReadyReplies, ReadyLost,
     ResolveGivesUp, ResolveReads, Promotes, PromoteSettles, CancelReplies, CancelLost, Cleanup,
     EndLost, jobAfter, Finish, Only, Moves, LocalUnchanged, Go, Answered, Answers, TypeInv,
              StepOK, JobsOK
<1>5. ASSUME NEW b \in Attempts, AdmissionStep(b) PROVE Answers(s, a)'
  BY <1>5 DEF AdmissionStep, AdmissionReads, AdmissionRefused, AdmissionPromotes,
     AdmissionRetires, AdmissionInstalls, Only, Moves, Go, Answers, TypeInv, StepOK, JobsOK
<1>6. CASE Receive
  BY <1>6, InboxTyped DEF Receive, DecisionReceived, CandidateIgnored, CandidateAccepted, Go,
     Answers, TypeInv, StepOK, JobsOK
<1>7. CASE Environment
  <2>1. ASSUME NEW b \in Attempts, Connect(b) PROVE Answers(s, a)'
    <3>1. pc[<<"from", b>>] = "idle"
      BY <2>1 DEF Connect, Unreserved, Attempts, TypeInv, ScopeOK
    <3> QED BY <2>1, <3>1 DEF Connect, Go, Answers, TypeInv, StepOK, JobsOK
  <2>2. CASE Disconnect BY <2>2 DEF Disconnect, Answers, TypeInv, JobsOK
  <2> QED BY <1>7, <2>1, <2>2 DEF Environment, Expire, CallerGivesUp, Resubscribe,
     Revoke, Pin, CarrierSuspends, CarrierRecovers, CarrierDies, Answers
<1>8. CASE (\E t \in Sides : transportChanged(t)) \/ UNCHANGED vars
  BY <1>8 DEF transportChanged, vars, Answers
<1> QED BY <1>1, <1>2, <1>3, <1>4, <1>5, <1>6, <1>7, <1>8 DEF Next

\* Every step keeps somebody answering for what the coordinator holds.
LEMMA OwnedInductive == ASSUME TypeInv, OwnedInv, [Next]_vars PROVE OwnedInv'
<1>1. ServerInv' BY ServerStands DEF OwnedInv
<1>2. Unreserved' BY UnreservedKept DEF OwnedInv
<1>3. ASSUME NEW a \in Attempts, Holds(a)' PROVE \E s \in Sides : Answers(s, a)'
  <2>1. \E s \in Sides : Answers(s, a)
    <3>1. CASE Holds(a) BY <3>1 DEF OwnedInv, AuthorityAnswered
    <3>2. CASE ~Holds(a)
      <4>1. pc[<<"from", a>>] = "prepare" BY <1>3, <3>2, HeldAppears
      <4> QED BY <4>1 DEF Answers, Sides
    <3> QED BY <3>1, <3>2
  <2> QED BY <1>3, <2>1, AnswerKept DEF OwnedInv
<1> QED BY <1>1, <1>2, <1>3 DEF OwnedInv, AuthorityAnswered

\* While the coordinator holds an attempt pending or active, a session or an End job of
\* one side answers for it: no lost reply, disconnect, revocation or abandoned caller
\* leaves authority nobody would ever end.
THEOREM AuthorityIsOwnedHolds == Spec => []AuthorityIsOwned
<1>1. Init => OwnedInv
  BY DEF Init, ServerInit, OwnedInv, ServerInv, InboxTrue, ActiveIsCommitted, Unreserved,
     AuthorityAnswered, Holds, Sessions, Sides, None, Attempts
<1>2. TypeInv /\ OwnedInv /\ [Next]_vars => OwnedInv' BY OwnedInductive
<1>3. OwnedInv => AuthorityIsOwned
  BY DEF OwnedInv, AuthorityAnswered, Holds, Answers, AuthorityIsOwned
<1> QED BY <1>1, <1>2, <1>3, AlwaysTyped, PTL DEF Spec

-----------------------------------------------------------------------------
(* SlotsAreLive.                                                           *)

\* Where an admission waits, and where a session that gave way stands.
AdmissionSteps == {"queued", "admitPromote", "admitRetire", "admitInstall"}
LeavingSteps == {"cleanup", "ending", "ended"}

\* No mark survives its session; an admission owns neither slot.
IdleIsFresh == \A x \in Sessions : pc[x] = "idle" => x \notin promoted
WaitsOutside ==
  \A a \in Attempts : pc[<<"to", a>>] \in AdmissionSteps =>
    <<"to", a>> \notin promoted /\ cand["to"] # a
\* The inductive invariant of SlotsAreLive.
LiveInv == Unreserved /\ IdleIsFresh /\ WaitsOutside /\ SlotsAreLive

\* Sessions go on, none starts, none ends and none begins to wait.
Advances ==
  \A x \in Sessions :
    /\ pc[x] = "idle" <=> pc'[x] = "idle"
    /\ pc'[x] \in AdmissionSteps => pc[x] \in AdmissionSteps
    /\ pc[x] \in LeavingSteps => pc'[x] \in LeavingSteps

\* Sessions that go on where they are leave the slots live.
LEMMA LiveAdvances ==
  ASSUME TypeInv, LiveInv, Unreserved', Advances, UNCHANGED <<slots, promoted>>,
           stopped \subseteq stopped'
  PROVE  LiveInv'
<1>1. IdleIsFresh' BY DEF LiveInv, IdleIsFresh, Advances
<1>2. WaitsOutside'
  BY DEF LiveInv, WaitsOutside, Advances, Sessions, Sides, slots
<1>3. SlotsAreLive'
  <2> SUFFICES ASSUME NEW s \in Sides
               PROVE  /\ cand[s] # None =>
                           pc'[<<s, cand[s]>>] # "idle" /\ <<s, cand[s]>> \notin promoted
                      /\ primary[s] # None =>
                           pc'[<<s, primary[s]>>] # "idle" /\ <<s, primary[s]>> \in promoted
                      /\ \A a \in Attempts :
                         pc'[<<s, a>>] \notin {"idle", "cleanup", "ending", "ended"}
                                  /\ ~owned(s, a)'
                           => <<s, a>> \in stopped'
    BY DEF SlotsAreLive, slots
  <2>1. cand[s] \in Attempts \cup {None} /\ primary[s] \in Attempts \cup {None}
    BY DEF TypeInv, SlotsOK
  <2> QED BY <2>1 DEF LiveInv, SlotsAreLive, Advances, LeavingSteps, Sessions, owned, slots
<1> QED BY <1>1, <1>2, <1>3 DEF LiveInv

\* A session takes the candidate slot.
LEMMA LiveEnters ==
  ASSUME TypeInv, LiveInv, Unreserved', NEW s \in Sides, NEW a \in Attempts,
           NEW step \in {"link", "establish"},
         cand[s] = None, cand' = [cand EXCEPT ![s] = a], <<s, a>> \notin promoted,
         pc' = [pc EXCEPT ![<<s, a>>] = step],
         queue' = queue \/ (s = "to" /\ queue.attempt = a /\ queue' = NoQueue),
         UNCHANGED <<primary, promoted, stopped>>
  PROVE  LiveInv'
<1>1. IdleIsFresh' BY DEF LiveInv, IdleIsFresh, TypeInv, StepOK, Sessions
<1>2. WaitsOutside'
  BY DEF LiveInv, WaitsOutside, TypeInv, StepOK, SlotsOK, Sessions, Sides, AdmissionSteps
<1>3. ASSUME NEW t \in Sides
      PROVE  /\ cand'[t] # None => pc'[<<t, cand'[t]>>] # "idle" /\ <<t,
               cand'[t]>> \notin promoted
             /\ primary[t] # None => pc'[<<t, primary[t]>>] # "idle" /\ <<t,
                         primary[t]>> \in promoted
  <2>1. cand[t] \in Attempts \cup {None} /\ primary[t] \in Attempts \cup {None}
    BY DEF TypeInv, SlotsOK
  <2> QED BY <2>1 DEF LiveInv, SlotsAreLive, TypeInv, StepOK, SlotsOK, Sessions
<1>4. ASSUME NEW t \in Sides, NEW b \in Attempts,
             pc'[<<t, b>>] \notin {"idle", "cleanup", "ending", "ended"}, ~owned(t, b)'
      PROVE  <<t, b>> \in stopped
  <2>1. ~(t = s /\ b = a) BY <1>4 DEF owned, TypeInv, SlotsOK
  <2>2. pc'[<<t, b>>] = pc[<<t, b>>] BY <2>1 DEF TypeInv, StepOK, Sessions
  <2>3. ~owned(t, b) BY <1>4, <2>1 DEF owned, TypeInv, SlotsOK, NoQueue, None, Attempts
  <2> QED BY <1>4, <2>2, <2>3 DEF LiveInv, SlotsAreLive
<1> QED BY <1>1, <1>2, <1>3, <1>4 DEF LiveInv, SlotsAreLive

\* Some sessions lose their slots.
Vacates(S) ==
  /\ DOMAIN cand' = Sides /\ DOMAIN primary' = Sides
  /\ \A s \in Sides :
       /\ cand'[s] = cand[s] \/ (cand'[s] = None /\ <<s, cand[s]>> \in S)
       /\ primary'[s] = primary[s] \/ (primary'[s] = None /\ <<s, primary[s]>> \in S)

\* They are stopped.
LEMMA LiveVacates ==
  ASSUME TypeInv, LiveInv, Unreserved', NEW S \in SUBSET Sessions, Stop(S), Advances,
         UNCHANGED promoted,
         queue' = queue \/ (queue' = NoQueue /\ pc'[<<"to", queue.attempt>>] \in LeavingSteps),
         Vacates(S)
  PROVE  LiveInv'
<1>1. IdleIsFresh' BY DEF LiveInv, IdleIsFresh, Advances
<1>2. WaitsOutside'
  BY DEF LiveInv, WaitsOutside, Advances, Vacates, Sessions, Sides, None, Attempts
<1>3. ASSUME NEW t \in Sides
      PROVE  /\ cand'[t] # None => pc'[<<t, cand'[t]>>] # "idle" /\ <<t,
               cand'[t]>> \notin promoted
             /\ primary'[t] # None =>
                  pc'[<<t, primary'[t]>>] # "idle" /\ <<t, primary'[t]>> \in promoted
  <2>1. cand[t] \in Attempts \cup {None} /\ primary[t] \in Attempts \cup {None}
    BY DEF TypeInv, SlotsOK
  <2> QED BY <2>1 DEF LiveInv, SlotsAreLive, Advances, Vacates, Sessions
<1>4. ASSUME NEW t \in Sides, NEW b \in Attempts,
             pc'[<<t, b>>] \notin {"idle", "cleanup", "ending", "ended"}, ~owned(t, b)'
      PROVE  <<t, b>> \in stopped'
  <2>0. <<t, b>> \in Sessions BY DEF Sessions
  <2>1. pc[<<t, b>>] \notin {"idle", "cleanup", "ending", "ended"}
    BY <1>4, <2>0 DEF Advances, LeavingSteps
  <2>2. CASE <<t, b>> \in S BY <2>1, <2>2 DEF Stop
  <2>3. CASE <<t, b>> \notin S
    <3>1. ~owned(t, b) BY <1>4, <2>3 DEF owned, Vacates, LeavingSteps
    <3> QED BY <2>1, <3>1 DEF LiveInv, SlotsAreLive, Stop
  <2> QED BY <2>2, <2>3
<1> QED BY <1>1, <1>2, <1>3, <1>4 DEF LiveInv, SlotsAreLive

\* A session moves from the candidate slot to the primary slot.
LEMMA LivePromotes ==
  ASSUME TypeInv, LiveInv, Unreserved', NEW s \in Sides, NEW a \in Attempts, cand[s] = a,
         InstallPrimary(s, a), Advances, UNCHANGED queue
  PROVE  LiveInv'
<1> DEFINE p == primary[s]
<1>0. /\ <<s, a>> \in Sessions /\ p \in Attempts \cup {None}
      /\ pc[<<s, a>>] # "idle" /\ <<s, a>> \notin promoted
      /\ p # None => p # a /\ pc[<<s, p>>] # "idle" /\ <<s, p>> \in Sessions
  BY DEF TypeInv, SlotsOK, LiveInv, SlotsAreLive, Sessions, None, Attempts
<1>1. IdleIsFresh' BY <1>0 DEF LiveInv, IdleIsFresh, Advances, InstallPrimary
<1>2. WaitsOutside'
  <2> SUFFICES ASSUME NEW b \in Attempts, pc'[<<"to", b>>] \in AdmissionSteps
               PROVE  <<"to", b>> \notin promoted' /\ cand'["to"] # b
    BY DEF WaitsOutside
  <2>1. <<"to", b>> \notin promoted /\ cand["to"] # b
    BY DEF LiveInv, WaitsOutside, Advances, Sessions, Sides
  <2> QED BY <2>1 DEF InstallPrimary, TypeInv, SlotsOK, None, Attempts
<1>3. ASSUME NEW t \in Sides
      PROVE  /\ cand'[t] # None =>
                  pc'[<<t, cand'[t]>>] # "idle" /\ <<t, cand'[t]>> \notin promoted'
             /\ primary'[t] # None =>
                  pc'[<<t, primary'[t]>>] # "idle" /\ <<t, primary'[t]>> \in promoted'
  <2>1. cand[t] \in Attempts \cup {None} /\ primary[t] \in Attempts \cup {None}
    BY DEF TypeInv, SlotsOK
  <2>2. CASE t = s
    BY <1>0, <2>2 DEF InstallPrimary, TypeInv, SlotsOK, Advances
  <2>3. CASE t # s
    <3>1. cand'[t] = cand[t] /\ primary'[t] = primary[t] BY <2>3 DEF InstallPrimary, TypeInv,
             SlotsOK
    <3> QED BY <2>1, <2>3, <3>1 DEF InstallPrimary, LiveInv, SlotsAreLive, Advances, Sessions
  <2> QED BY <2>2, <2>3
<1>4. ASSUME NEW t \in Sides, NEW b \in Attempts,
             pc'[<<t, b>>] \notin {"idle", "cleanup", "ending", "ended"}, ~owned(t, b)'
      PROVE  <<t, b>> \in stopped'
  <2>0. <<t, b>> \in Sessions BY DEF Sessions
  <2>1. pc[<<t, b>>] \notin {"idle", "cleanup", "ending", "ended"}
    BY <1>4, <2>0 DEF Advances, LeavingSteps
  <2>2. CASE t = s /\ b = p
    BY <2>1, <2>2 DEF InstallPrimary, Stop, SlotSession, None, Attempts
  <2>3. CASE ~(t = s /\ b = p)
    <3>1. ~owned(t, b) BY <1>4, <2>3 DEF owned, InstallPrimary, TypeInv, SlotsOK
    <3> QED BY <2>1, <3>1 DEF LiveInv, SlotsAreLive, InstallPrimary, Stop
  <2> QED BY <2>2, <2>3
<1> QED BY <1>1, <1>2, <1>3, <1>4 DEF LiveInv, SlotsAreLive

\* Promotion of the target from an event or an admission leaves the slots live.
LEMMA LivePromoteTarget ==
  ASSUME TypeInv, LiveInv, Unreserved', NEW a \in Attempts, NEW dead, PromoteTarget(a, dead),
           Advances, UNCHANGED queue
  PROVE  LiveInv'
<1>0. "to" \in Sides /\ <<"to", a>> \in Sessions BY DEF Sides, Sessions
<1>1. CASE cand["to"] = a /\ RetireCommitted(a)
  <2> DEFINE q == primary["to"]
             exact == q # None /\ q = previous[a]
             S == {<<"to", a>>} \cup IF exact THEN {<<"to", q>>} ELSE {}
  <2>1. S \in SUBSET Sessions BY <1>0 DEF TypeInv, SlotsOK, Sessions
  <2>2. Stop(S) /\ UNCHANGED promoted BY <1>1 DEF RetireCommitted
  <2>3. Vacates(S)
    BY <1>0, <1>1 DEF Vacates, RetireCommitted, TypeInv, SlotsOK
  <2> HIDE DEF S
  <2> QED BY <2>1, <2>2, <2>3, LiveVacates
<1>2. CASE cand["to"] = a /\ InstallPrimary("to", a) BY <1>0, <1>2, LivePromotes
<1>3. CASE UNCHANGED <<cand, primary, marks>>
  BY <1>3, LiveAdvances DEF marks, slots
<1> QED BY <1>1, <1>2, <1>3 DEF PromoteTarget, ownsCandidateLocked

\* Retiring a terminal attempt leaves the slots live.
LEMMA LiveVacateTarget ==
  ASSUME TypeInv, LiveInv, Unreserved', NEW a \in Attempts, VacateTarget(a), StopsOnly({<<"to",
           a>>}), Advances, UNCHANGED queue
  PROVE  LiveInv'
<1>0. "to" \in Sides /\ {<<"to", a>>} \in SUBSET Sessions BY DEF Sides, Sessions
<1>1. Stop({<<"to", a>>}) /\ UNCHANGED promoted BY DEF StopsOnly
<1>2. Vacates({<<"to", a>>})
  BY <1>0 DEF Vacates, VacateTarget, releases, TypeInv, SlotsOK
<1> QED BY <1>0, <1>1, <1>2, LiveVacates

\* A session leaves its slots and is gone.
LEMMA LiveFinishes ==
  ASSUME TypeInv, LiveInv, Unreserved', NEW s \in Sides, NEW a \in Attempts, Finish(s, a)
  PROVE  LiveInv'
<1>0. <<s, a>> \in Sessions BY DEF Sessions
<1>1. IdleIsFresh' BY <1>0 DEF Finish, Go, LiveInv, IdleIsFresh, TypeInv, StepOK
<1>2. WaitsOutside'
  <2> SUFFICES ASSUME NEW b \in Attempts, pc'[<<"to", b>>] \in AdmissionSteps
               PROVE  <<"to", b>> \notin promoted' /\ cand'["to"] # b
    BY DEF WaitsOutside
  <2>1. pc[<<"to", b>>] \in AdmissionSteps
    BY <1>0 DEF Finish, Go, TypeInv, StepOK, AdmissionSteps, Sessions, Sides
  <2>2. <<"to", b>> \notin promoted /\ cand["to"] # b BY <2>1 DEF LiveInv, WaitsOutside
  <2> QED BY <2>2 DEF Finish, releases, TypeInv, SlotsOK, Sides, None, Attempts
<1>3. ASSUME NEW t \in Sides
      PROVE  /\ cand'[t] # None =>
                  pc'[<<t, cand'[t]>>] # "idle" /\ <<t, cand'[t]>> \notin promoted'
             /\ primary'[t] # None =>
                  pc'[<<t, primary'[t]>>] # "idle" /\ <<t, primary'[t]>> \in promoted'
  <2>1. cand[t] \in Attempts \cup {None} /\ primary[t] \in Attempts \cup {None}
    BY DEF TypeInv, SlotsOK
  <2>2. /\ cand'[t] # None => cand'[t] = cand[t] /\ <<t, cand[t]>> # <<s, a>>
        /\ primary'[t] # None => primary'[t] = primary[t] /\ <<t, primary[t]>> # <<s, a>>
    BY DEF Finish, releases, TypeInv, SlotsOK
  <2>3. \A y \in Sessions : y # <<s, a>> =>
          pc'[y] = pc[y] /\ (y \in promoted' <=> y \in promoted)
    BY DEF Finish, Go, TypeInv, StepOK
  <2>4. /\ cand[t] # None => pc[<<t, cand[t]>>] # "idle" /\ <<t, cand[t]>> \notin promoted
        /\ primary[t] # None => pc[<<t, primary[t]>>] # "idle" /\ <<t, primary[t]>> \in promoted
    BY DEF LiveInv, SlotsAreLive
  <2>5. /\ cand[t] # None => <<t, cand[t]>> \in Sessions
        /\ primary[t] # None => <<t, primary[t]>> \in Sessions
    BY <2>1 DEF Sessions
  <2> QED BY <2>2, <2>3, <2>4, <2>5
<1>4. ASSUME NEW t \in Sides, NEW b \in Attempts,
             pc'[<<t, b>>] \notin {"idle", "cleanup", "ending", "ended"}, ~owned(t, b)'
      PROVE  <<t, b>> \in stopped'
  <2>1. <<t, b>> # <<s, a>> BY <1>0, <1>4 DEF Finish, Go, TypeInv, StepOK
  <2>2. pc'[<<t, b>>] = pc[<<t, b>>] BY <2>1 DEF Finish, Go, TypeInv, StepOK, Sessions
  <2>3. ~owned(t, b)
    BY <1>4, <2>1 DEF owned, Finish, releases, TypeInv, SlotsOK
  <2> QED BY <1>4, <2>1, <2>2, <2>3 DEF LiveInv, SlotsAreLive, Finish
<1> QED BY <1>1, <1>2, <1>3, <1>4 DEF LiveInv, SlotsAreLive

\* An accepted ticket waits for the candidate that is in the slot.
LEMMA LiveWaits ==
  ASSUME TypeInv, LiveInv, Unreserved', NEW a \in Attempts, pc[<<"to", a>>] = "idle",
           cand["to"] # a, queue = NoQueue,
         queue' = [attempt |-> a, over |-> cand["to"]], pc' = [pc EXCEPT ![<<"to",
                  a>>] = "queued"],
         UNCHANGED <<cand, primary, promoted, stopped>>
  PROVE  LiveInv'
<1>0. "to" \in Sides /\ <<"to", a>> \in Sessions BY DEF Sides, Sessions
<1>1. IdleIsFresh' BY <1>0 DEF LiveInv, IdleIsFresh, TypeInv, StepOK
<1>2. WaitsOutside'
  BY <1>0 DEF LiveInv, WaitsOutside, IdleIsFresh, TypeInv, StepOK, Sessions, Sides
<1>3. ASSUME NEW t \in Sides
      PROVE  /\ cand[t] # None => pc'[<<t, cand[t]>>] # "idle" /\ <<t, cand[t]>> \notin promoted
             /\ primary[t] # None => pc'[<<t, primary[t]>>] # "idle" /\ <<t,
                         primary[t]>> \in promoted
  <2>1. cand[t] \in Attempts \cup {None} /\ primary[t] \in Attempts \cup {None}
    BY DEF TypeInv, SlotsOK
  <2> QED BY <2>1 DEF LiveInv, SlotsAreLive, TypeInv, StepOK, Sessions
<1>4. ASSUME NEW t \in Sides, NEW b \in Attempts,
             pc'[<<t, b>>] \notin {"idle", "cleanup", "ending", "ended"}, ~owned(t, b)'
      PROVE  <<t, b>> \in stopped
  <2>1. ~(t = "to" /\ b = a) BY <1>4 DEF owned
  <2>2. pc'[<<t, b>>] = pc[<<t, b>>] BY <1>0, <2>1 DEF TypeInv, StepOK, Sessions
  <2>3. ~owned(t, b) BY <1>4 DEF owned, NoQueue, None, Attempts
  <2> QED BY <1>4, <2>2, <2>3 DEF LiveInv, SlotsAreLive
<1> QED BY <1>1, <1>2, <1>3, <1>4 DEF LiveInv, SlotsAreLive

\* The steps of a session leave the slots live.
LEMMA SessionLive ==
  ASSUME TypeInv, LiveInv, Unreserved', NEW s \in Sides, NEW a \in Attempts, SessionStep(s, a)
  PROVE  LiveInv'
<1> USE DEF Sessions, Sides
<1>1. CASE Promotes(s, a)
  <2>1. Advances
    BY <1>1 DEF Promotes, Go, Advances, TypeInv, StepOK, AdmissionSteps, LeavingSteps
  <2> QED BY <1>1, <2>1, LivePromotes DEF Promotes, promotable, ownsCandidateLocked
<1>2. CASE Finish(s, a) BY <1>2, LiveFinishes
<1>3. CASE ~Promotes(s, a) /\ ~Finish(s, a)
  <2>1. Advances
    BY <1>3 DEF SessionStep, TransportFails, Establishes, EstablishFails,
     observeCandidateDecision, GracePasses, GraceFails, ReadyGivesUp, mayReady, ReadyReplies,
              ReadyLost,
     ResolveGivesUp, ResolveReads, PromoteSettles, CancelReplies, CancelLost, Cleanup, liveEnds,
     EndReplies, EndLost, Only, Moves, Go, Answered, Advances, TypeInv, StepOK,
     AdmissionSteps, LeavingSteps
  <2>2. UNCHANGED <<slots, promoted>> /\ stopped \subseteq stopped'
    BY <1>3 DEF SessionStep, TransportFails, Establishes, EstablishFails,
     observeCandidateDecision, GracePasses, GraceFails, ReadyGivesUp, ReadyReplies, ReadyLost,
     ResolveGivesUp, ResolveReads, PromoteSettles, CancelReplies, CancelLost, Cleanup,
     EndReplies, EndLost, Only, Moves, LocalUnchanged, Stop, marks
  <2> QED BY <2>1, <2>2, LiveAdvances
<1> QED BY <1>1, <1>2, <1>3

\* The source's calls leave the slots live.
LEMMA SourceLive ==
  ASSUME TypeInv, LiveInv, Unreserved', NEW a \in Attempts, SourceStep(a) PROVE LiveInv'
<1> USE DEF Sessions, Sides
<1>1. Advances
  BY DEF SourceStep, LinkState, LinkStateFails, PrepareReplies, PrepareLost,
     PrepareRefused, CommitDispatched, CommitBarred, CommitReplies, CommitLost,
     SourceDecisionReceived, Moves, Go, Advances, TypeInv, StepOK, AdmissionSteps, LeavingSteps
<1>2. UNCHANGED <<slots, promoted>> /\ stopped \subseteq stopped'
  BY DEF SourceStep, LinkState, LinkStateFails, PrepareReplies, PrepareLost,
     PrepareRefused, CommitDispatched, CommitBarred, CommitReplies, CommitLost,
     SourceDecisionReceived, Moves, LocalUnchanged, StopsOnly, Stop, marks
<1> QED BY <1>1, <1>2, LiveAdvances

\* A queued admission leaves the slots live.
LEMMA AdmissionLive ==
  ASSUME TypeInv, LiveInv, Unreserved', NEW a \in Attempts, AdmissionStep(a) PROVE LiveInv'
<1> DEFINE b == queue.over
<1>0. "to" \in Sides /\ <<"to", a>> \in Sessions BY DEF Sides, Sessions
<1>00. admissible(a) => b \in Attempts
  BY DEF admissible, TypeInv, QueueOK, NoQueue, None, Attempts
<1>1. CASE AdmissionReads(a)
  <2>1. Advances
    BY <1>0, <1>1 DEF AdmissionReads, Only, Moves, Go, Advances, TypeInv, StepOK,
             AdmissionSteps, LeavingSteps
  <2> QED BY <1>1, <2>1, LiveAdvances DEF AdmissionReads, Only, Moves, marks
<1>2. CASE AdmissionRefused(a)
  <2>1. Advances /\ pc'[<<"to", a>>] \in LeavingSteps
    BY <1>0, <1>2 DEF AdmissionRefused, Go, Advances, TypeInv, StepOK, AdmissionSteps,
             LeavingSteps
  <2>2. queue' = queue \/ (queue' = NoQueue /\ pc'[<<"to", queue.attempt>>] \in LeavingSteps)
    BY <1>2, <2>1 DEF AdmissionRefused
  <2> QED BY <1>0, <1>2, <2>1, <2>2, LiveVacates DEF AdmissionRefused, Vacates, StopsOnly,
           TypeInv, SlotsOK
<1>3. CASE AdmissionPromotes(a)
  <2>1. Advances
    BY <1>0, <1>3 DEF AdmissionPromotes, Go, Advances, TypeInv, StepOK, AdmissionSteps,
             LeavingSteps
  <2> QED BY <1>00, <1>3, <2>1, LivePromoteTarget DEF AdmissionPromotes
<1>4. CASE AdmissionRetires(a)
  <2>1. Advances
    BY <1>0, <1>4 DEF AdmissionRetires, Go, Advances, TypeInv, StepOK, AdmissionSteps,
             LeavingSteps
  <2> QED BY <1>00, <1>4, <2>1, LiveVacateTarget DEF AdmissionRetires
<1>5. CASE AdmissionInstalls(a)
  <2>1. <<"to", a>> \notin promoted
    BY <1>5 DEF AdmissionInstalls, LiveInv, WaitsOutside, AdmissionSteps
  <2> QED BY <1>0, <1>5, <2>1, LiveEnters DEF AdmissionInstalls, admissible, InstallInbound, Go
<1> QED BY <1>1, <1>2, <1>3, <1>4, <1>5 DEF AdmissionStep

\* The target's events leave the slots live.
LEMMA ReceiveLive == ASSUME TypeInv, LiveInv, Unreserved', Receive PROVE LiveInv'
<1> DEFINE e == Head(inbox)
           a == e.attempt
<1>0. "to" \in Sides BY DEF Sides
<1>1. CASE DecisionReceived
  <2>1. a \in Attempts BY <1>1, InboxTyped DEF DecisionReceived
  <2>2. Advances /\ UNCHANGED queue BY <1>1 DEF DecisionReceived, Advances
  <2>3. CASE PromoteTarget(a, carrierDead(a)) BY <2>1, <2>2, <2>3, LivePromoteTarget
  <2>4. CASE UNCHANGED <<cand, primary>> /\ StopsOnly({<<"to", a>>})
    BY <2>2, <2>4, LiveAdvances DEF StopsOnly, Stop, slots
  <2>5. CASE VacateTarget(a) /\ StopsOnly({<<"to", a>>}) BY <2>1, <2>2, <2>5, LiveVacateTarget
  <2>6. CASE UNCHANGED <<cand, primary, marks>> BY <2>2, <2>6, LiveAdvances DEF marks, slots
  <2> QED BY <1>1, <2>3, <2>4, <2>5, <2>6 DEF DecisionReceived
<1>2. CASE CandidateIgnored
  BY <1>2, LiveAdvances DEF CandidateIgnored, Advances, marks
<1>3. CASE CandidateAccepted
  <2>1. a \in Attempts BY <1>3, InboxTyped DEF CandidateAccepted
  <2>2. <<"to", a>> \in Sessions BY <1>0, <2>1 DEF Sessions
  <2>3. <<"to", a>> \notin promoted
    BY <1>3, <2>2 DEF CandidateAccepted, LiveInv, IdleIsFresh
  <2>4. CASE cand["to"] = None
    BY <1>0, <1>3, <2>1, <2>3, <2>4, LiveEnters DEF CandidateAccepted, InstallInbound, Go
  <2>5. CASE cand["to"] # None
    BY <1>3, <2>1, <2>5, LiveWaits DEF CandidateAccepted, refusesInbound, Go, marks
  <2> QED BY <2>4, <2>5
<1> QED BY <1>1, <1>2, <1>3 DEF Receive

\* The user, the network and the pins leave the slots live.
LEMMA EnvironmentLive == ASSUME TypeInv, LiveInv, Unreserved', Environment PROVE LiveInv'
<1>1. ASSUME NEW a \in Attempts, Connect(a) PROVE LiveInv'
  <2>0. "from" \in Sides /\ <<"from", a>> \in Sessions BY DEF Sides, Sessions
  <2>1. pc[<<"from", a>>] = "idle"
    BY <1>1 DEF Connect, LiveInv, Unreserved, Attempts, TypeInv, ScopeOK
  <2>2. <<"from", a>> \notin promoted BY <2>0, <2>1 DEF LiveInv, IdleIsFresh
  <2> QED BY <1>1, <2>0, <2>2, LiveEnters DEF Connect, Go
<1>2. ASSUME NEW s \in Sides, Revoke(s) PROVE LiveInv'
  <2> DEFINE out == {s} \X revokedSlots(s)
             waiting == IF s = "to" THEN SlotSession(s, queue.attempt) ELSE {}
             S == out \cup waiting
  <2>1. revokedSlots(s) \subseteq Attempts BY DEF revokedSlots, TypeInv, SlotsOK
  <2>2. out \in SUBSET Sessions BY <2>1 DEF Sessions
  <2>3. queue.attempt \in Attempts \cup {None}
    BY DEF TypeInv, QueueOK, NoQueue
  <2>4. waiting \in SUBSET Sessions BY <2>3, SlotSessionTyped
  <2>5. Stop(S) /\ UNCHANGED <<promoted, queue, pc>> BY <1>2 DEF Revoke
  <2>6. Vacates(out)
    BY <1>2 DEF Vacates, Revoke, revokedSlots, TypeInv, SlotsOK
  <2>7. Advances BY <2>5 DEF Advances
  <2> HIDE DEF out, waiting
  <2>8. S \in SUBSET Sessions BY <2>2, <2>4
  <2>9. Vacates(S) BY <2>6 DEF Vacates
  <2> QED BY <2>5, <2>7, <2>8, <2>9, LiveVacates
<1>3. CASE ~(\E a \in Attempts : Connect(a)) /\ ~(\E s \in Sides : Revoke(s))
  BY <1>3, LiveAdvances DEF Environment, Expire, CallerGivesUp, Disconnect, Resubscribe, Pin,
     CarrierSuspends, CarrierRecovers, CarrierDies, StopsOnly, Stop, Advances, marks
<1> QED BY <1>1, <1>2, <1>3

\* Every step leaves the slots live.
LEMMA LiveInductive == ASSUME TypeInv, LiveInv, [Next]_vars PROVE LiveInv'
<1>0. Unreserved' BY UnreservedKept DEF LiveInv
<1>1. CASE (\E t \in Sides : transportChanged(t)) \/ UNCHANGED vars
  BY <1>0, <1>1, LiveAdvances DEF transportChanged, vars, marks, Advances
<1> QED BY <1>0, <1>1, SourceLive, AdmissionLive, SessionLive, ReceiveLive,
         EnvironmentLive DEF Next

\* Late cleanup is exact-owner fenced: every slot names a running session in the slot its
\* promotion says, and a session nobody has stopped owns a slot or the queue.
THEOREM SlotsAreLiveHolds == Spec => []SlotsAreLive
<1>1. Init => LiveInv
  BY DEF Init, LiveInv, Unreserved, IdleIsFresh, WaitsOutside, SlotsAreLive, AdmissionSteps,
     Sessions, Sides
<1>2. TypeInv /\ LiveInv /\ [Next]_vars => LiveInv' BY LiveInductive
<1>3. LiveInv => SlotsAreLive BY DEF LiveInv
<1> QED BY <1>1, <1>2, <1>3, AlwaysTyped, PTL DEF Spec

-----------------------------------------------------------------------------
(* The order of attempts.                                                  *)

\* The step of an admitted Prepare, and that of an accepted Commit.
Prepares(a) ==
  /\ pc[<<"from", a>>] = "prepare" /\ Pending = {}
  /\ \A b \in Attempts \ {a} : status'[b] = status[b]
Commits(a) ==
  /\ pc[<<"from", a>>] = "commit" /\ ready[a] = Sides /\ active' = a
  /\ \A b \in Attempts \ {a} : status'[b] = status[b]

\* The record of an attempt changes only by an admitted Prepare, an accepted Commit or a
\* cancellation.
LEMMA StatusSteps ==
  ASSUME TypeInv, [Next]_vars, NEW a \in Attempts
  PROVE  \/ status'[a] = status[a]
         \/ status[a] = "pending" /\ status'[a] = "cancelled"
         \/ status[a] = "none" /\ status'[a] = "pending" /\ Prepares(a)
         \/ status[a] = "pending" /\ status'[a] = "committed" /\ Commits(a)
<1> DEFINE Goal ==
         \/ status'[a] = status[a]
         \/ status[a] = "pending" /\ status'[a] = "cancelled"
         \/ status[a] = "none" /\ status'[a] = "pending" /\ Prepares(a)
         \/ status[a] = "pending" /\ status'[a] = "committed" /\ Commits(a)
<1>0. ServerStep BY ServerSteps
<1>1. ASSUME NEW b \in Attempts, Cancel(b) PROVE Goal
  BY <1>1 DEF Cancel, serverVars, TypeInv, ServerTypeOK
<1>2. ASSUME NEW b \in Attempts, NEW reason, End(b, reason) PROVE Goal
  <2>1. CASE active = b
    <3>1. EndActive(b, reason) BY <1>2, <2>1 DEF End
    <3>2. CASE UNCHANGED serverVars BY <3>2 DEF serverVars
    <3>3. CASE ~UNCHANGED serverVars BY <3>1, <3>3 DEF EndActive, Pending
    <3> QED BY <3>2, <3>3
  <2>2. CASE active # b BY <1>1, <1>2, <2>2 DEF End
  <2> QED BY <2>1, <2>2
<1>3. ASSUME NEW b \in Attempts, Commit(b), pc[<<"from", b>>] = "commit" PROVE Goal
  BY <1>3 DEF Commit, Commits, Committable, serverVars, TypeInv, ServerTypeOK
<1>4. ASSUME NEW b \in Attempts, Prepare(b, expected[b]), pc[<<"from", b>>] = "prepare" PROVE Goal
  BY <1>4 DEF Prepare, Prepares, Admits, serverVars, TypeInv, ServerTypeOK
<1>5. CASE UNCHANGED status BY <1>5
<1> QED BY <1>0, <1>1, <1>2, <1>3, <1>4, <1>5 DEF ServerStep, Ready, Subscribe, ServerIdle,
         serverVars

\* The active attempt changes only to the one just committed, or to none.
LEMMA ActiveSteps ==
  ASSUME TypeInv, [Next]_vars
  PROVE  \/ active' = active
         \/ active' = None
         \/ active' \in Attempts /\ status[active'] = "pending" /\ status'[active'] = "committed"
<1> DEFINE Goal ==
         \/ active' = active
         \/ active' = None
         \/ active' \in Attempts /\ status[active'] = "pending" /\ status'[active'] = "committed"
<1>0. ServerStep BY ServerSteps
<1>1. ASSUME NEW b \in Attempts, NEW reason, End(b, reason) PROVE Goal
  BY <1>1 DEF End, EndActive, Cancel, serverVars
<1>2. ASSUME NEW b \in Attempts, Commit(b) PROVE Goal
  BY <1>2 DEF Commit, Committable, serverVars, TypeInv, ServerTypeOK
<1> QED BY <1>0, <1>1, <1>2 DEF ServerStep, Prepare, Cancel, Ready, Subscribe, ServerIdle,
         serverVars

\* The target's Ready is recorded only by its own session, while the attempt is pending.
LEMMA ReadySteps ==
  ASSUME TypeInv, [Next]_vars, NEW b \in Attempts, "to" \in ready'[b], "to" \notin ready[b]
  PROVE  pc[<<"to", b>>] = "ready" /\ status[b] = "pending"
<1>0. ServerStep BY ServerSteps
<1>1. ASSUME NEW c \in Attempts, NEW s \in Sides, Ready(s, c), pc[<<s, c>>] = "ready"
      PROVE  pc[<<"to", b>>] = "ready" /\ status[b] = "pending"
  BY <1>1 DEF Ready, TypeInv, ServerTypeOK
<1>2. CASE UNCHANGED ready \/ \E S : Forget(S) BY <1>2 DEF Forget
<1> QED BY <1>0, <1>1, <1>2 DEF ServerStep, Prepare, Commit, Cancel, End, EndActive, Subscribe,
        ServerIdle, serverVars

-----------------------------------------------------------------------------
\* The source has one candidate, its newest generation; at most one attempt is
\* pending, and attempts are committed in their order.
SourceOrder ==
  /\ cand["from"] # None => cand["from"] = generation
  /\ \A a \in Attempts : a > generation => status[a] = "none"
  /\ \A a, b \in Pending : a = b
  /\ \A a, b \in Attempts :
       pc[<<"from", a>>] = "commit" /\ status[a] = "pending" /\ b > a => status[b] # "committed"
  /\ \A a \in Attempts : active # None /\ status[a] = "committed" => a <= active

\* The candidate slot of the source is emptied, or taken by the next generation.
LEMMA SourceSlot ==
  ASSUME TypeInv, [Next]_vars
  PROVE  \/ generation' = generation /\ cand'["from"] \in {cand["from"], None}
         \/ generation' = generation + 1 /\ cand'["from"] = generation'
<1> DEFINE Goal == \/ generation' = generation /\ cand'["from"] \in {cand["from"], None}
                   \/ generation' = generation + 1 /\ cand'["from"] = generation'
<1> USE DEF Sides
<1>1. ASSUME NEW b \in Attempts, SourceStep(b) PROVE Goal
  BY <1>1 DEF SourceStep, LinkState, LinkStateFails, PrepareReplies, PrepareLost,
     PrepareRefused, CommitDispatched, CommitBarred, CommitReplies, CommitLost,
     SourceDecisionReceived, Moves, LocalUnchanged, slots, scope
<1>2. ASSUME NEW t \in Sides, NEW b \in Attempts, SessionStep(t, b) PROVE Goal
  BY <1>2 DEF SessionStep, TransportFails, Establishes, EstablishFails,
     observeCandidateDecision, GracePasses, GraceFails, ReadyGivesUp, ReadyReplies, ReadyLost,
     ResolveGivesUp, ResolveReads, Promotes, InstallPrimary, PromoteSettles, CancelReplies,
              CancelLost,
     Cleanup, EndReplies, EndLost, Finish, releases, Only, Moves, LocalUnchanged, slots, scope,
     TypeInv, SlotsOK
<1>3. ASSUME NEW b \in Attempts, AdmissionStep(b) PROVE Goal
  BY <1>3 DEF AdmissionStep, AdmissionReads, AdmissionRefused, AdmissionPromotes, PromoteTarget,
     RetireCommitted, InstallPrimary, VacateTarget, InstallInbound,
     AdmissionRetires, AdmissionInstalls, Only, Moves, slots, scope, TypeInv, SlotsOK
<1>4. CASE Receive
  BY <1>4 DEF Receive, DecisionReceived, CandidateIgnored, CandidateAccepted, PromoteTarget,
     RetireCommitted, InstallPrimary, VacateTarget, InstallInbound, slots, scope, TypeInv, SlotsOK
<1>5. CASE Environment
  BY <1>5 DEF Environment, Connect, Expire, CallerGivesUp, Disconnect, Resubscribe,
     Revoke, Pin, CarrierSuspends, CarrierRecovers, CarrierDies, slots, scope, TypeInv, SlotsOK
<1>6. CASE (\E t \in Sides : transportChanged(t)) \/ UNCHANGED vars
  BY <1>6 DEF transportChanged, vars, slots, scope
<1> QED BY <1>1, <1>2, <1>3, <1>4, <1>5, <1>6 DEF Next

\* A commit is dispatched only for the attempt in the candidate slot.
LEMMA EntersCommit ==
  ASSUME TypeInv, [Next]_vars, NEW a \in Attempts, pc'[<<"from", a>>] = "commit"
  PROVE  pc[<<"from", a>>] = "commit" \/ (cand["from"] = a /\ UNCHANGED status)
<1> USE DEF Sessions, Sides
<1>1. ASSUME NEW b \in Attempts, SourceStep(b)
      PROVE  pc[<<"from", a>>] = "commit" \/ (cand["from"] = a /\ UNCHANGED status)
  BY <1>1 DEF SourceStep, LinkState, LinkStateFails, PrepareReplies, PrepareLost,
     PrepareRefused, CommitDispatched, mayDispatch, ownsCandidateLocked, CommitBarred,
              CommitReplies,
     CommitLost, SourceDecisionReceived, Moves, Go, TypeInv, StepOK, serverVars
<1>2. ASSUME NEW t \in Sides, NEW b \in Attempts, SessionStep(t, b)
      PROVE  pc[<<"from", a>>] = "commit"
  BY <1>2 DEF SessionStep, TransportFails, Establishes, EstablishFails,
     observeCandidateDecision, GracePasses, GraceFails, ReadyGivesUp, ReadyReplies, ReadyLost,
     ResolveGivesUp, ResolveReads, Promotes, PromoteSettles, CancelReplies, CancelLost, Cleanup,
     EndReplies, EndLost, Finish, Only, Moves, Go, Answered, TypeInv, StepOK
<1>3. ASSUME NEW b \in Attempts, AdmissionStep(b) PROVE pc[<<"from", a>>] = "commit"
  BY <1>3 DEF AdmissionStep, AdmissionReads, AdmissionRefused, AdmissionPromotes,
     AdmissionRetires, AdmissionInstalls, Only, Moves, Go, TypeInv, StepOK
<1>4. CASE Receive
  BY <1>4, InboxTyped DEF Receive, DecisionReceived, CandidateIgnored, CandidateAccepted, Go,
     TypeInv, StepOK
<1>5. CASE Environment
  BY <1>5 DEF Environment, Connect, Expire, CallerGivesUp, Disconnect, Resubscribe,
     Revoke, Pin, CarrierSuspends, CarrierRecovers, CarrierDies, Go, TypeInv, StepOK
<1>6. CASE (\E t \in Sides : transportChanged(t)) \/ UNCHANGED vars
  BY <1>6 DEF transportChanged, vars
<1> QED BY <1>1, <1>2, <1>3, <1>4, <1>5, <1>6 DEF Next

\* Every step keeps the source's order.
LEMMA SourceOrderKept ==
  ASSUME TypeInv, Unreserved, ServerInv, SourceOrder, [Next]_vars PROVE SourceOrder'
<1>0. generation \in Nat /\ active \in Nat BY DEF TypeInv, ScopeOK, ServerTypeOK, Attempts, None
<1>1. cand'["from"] # None => cand'["from"] = generation'
  BY SourceSlot DEF SourceOrder
<1>2. ASSUME NEW a \in Attempts, a > generation' PROVE status'[a] = "none"
  <2>1. a > generation BY <1>0, <1>2, SourceSlot DEF Attempts
  <2>2. status[a] = "none" /\ pc[<<"from", a>>] = "idle" BY <2>1 DEF SourceOrder, Unreserved
  <2> QED BY <2>2, StatusSteps DEF Prepares
<1>3. ASSUME NEW a \in Pending', NEW b \in Pending' PROVE a = b
  <2>1. a \in Attempts /\ b \in Attempts /\ status'[a] = "pending" /\ status'[b] = "pending"
    BY <1>3 DEF Pending
  <2>2. CASE status[a] = "pending" /\ status[b] = "pending"
    BY <2>1, <2>2 DEF SourceOrder, Pending
  <2>3. CASE status[a] # "pending"
    <3>1. Prepares(a) BY <2>1, <2>3, StatusSteps
    <3> QED BY <2>1, <3>1 DEF Prepares, Pending
  <2>4. CASE status[b] # "pending"
    <3>1. Prepares(b) BY <2>1, <2>4, StatusSteps
    <3> QED BY <2>1, <3>1 DEF Prepares, Pending
  <2> QED BY <2>2, <2>3, <2>4
<1>4. ASSUME NEW a \in Attempts, NEW b \in Attempts,
             pc'[<<"from", a>>] = "commit", status'[a] = "pending", b > a,
                      status'[b] = "committed"
      PROVE  FALSE
  <2>1. CASE pc[<<"from", a>>] = "commit"
    <3>1. status[a] = "pending" BY <1>4, <2>1, StatusSteps DEF Prepares
    <3>2. status[b] # "committed" BY <1>4, <2>1, <3>1 DEF SourceOrder
    <3>3. status[b] = "pending" BY <1>4, <3>2, StatusSteps
    <3> QED BY <1>4, <3>1, <3>3 DEF SourceOrder, Pending
  <2>2. CASE cand["from"] = a /\ UNCHANGED status
    <3>1. a = generation BY <2>2 DEF SourceOrder, None, Attempts
    <3> QED BY <1>4, <2>2, <3>1 DEF SourceOrder
  <2> QED BY <1>4, <2>1, <2>2, EntersCommit
<1>5. ASSUME NEW a \in Attempts, active' # None, status'[a] = "committed" PROVE a <= active'
  <2>1. CASE status[a] # "committed"
    <3>1. active' = a BY <1>5, <2>1, StatusSteps DEF Commits
    <3> QED BY <3>1 DEF Attempts
  <2>2. CASE status[a] = "committed" /\ active' = active
    BY <1>5, <2>2 DEF SourceOrder
  <2>3. CASE status[a] = "committed" /\ active' # active
    <3> DEFINE c == active'
    <3>1. c \in Attempts /\ status[c] = "pending" /\ status'[c] = "committed"
      BY <1>5, <2>3, ActiveSteps
    <3>2. pc[<<"from", c>>] = "commit" BY <3>1, StatusSteps DEF Commits
    <3>3. ~(a > c) BY <2>3, <3>1, <3>2 DEF SourceOrder
    <3> QED BY <3>1, <3>3 DEF Attempts
  <2> QED BY <2>1, <2>2, <2>3
<1> QED BY <1>1, <1>2, <1>3, <1>4, <1>5 DEF SourceOrder

-----------------------------------------------------------------------------
\* A ticket that the target has yet to receive; an attempt it will not queue or
\* install any more.
IsOffer(e, a) == e.kind = "candidate" /\ e.attempt = a
Offered(a) == \E i \in 1 .. Len(inbox) : IsOffer(inbox[i], a)
Away(a) == ~Offered(a) /\ queue.attempt # a
Gone(a) == Away(a) /\ cand["to"] # a

\* Before the target's session has taken the candidate slot, and after it gave way.
Outside == {"idle"} \cup AdmissionSteps \cup LeavingSteps

\* The target hears of an attempt only once it is prepared.
TargetKnown ==
  \A a \in Attempts :
    pc[<<"to", a>>] # "idle" \/ Offered(a) \/ "to" \in ready[a] => status[a] # "none"
\* How a pending attempt follows a committed one: its ticket came later, so that the
\* older attempt is out of the inbox and the queue when the session starts, and out of
\* the candidate slot when it is Ready.
PendingAfter ==
  \A a, b \in Attempts : status[a] = "committed" /\ status[b] = "pending" =>
    /\ pc[<<"to", b>>] # "idle" => Away(a)
    /\ pc[<<"to", b>>] \notin Outside => cand["to"] # a
    /\ "to" \in ready[b] => Gone(a)
    /\ \A i, j \in 1 .. Len(inbox) : i < j /\ IsOffer(inbox[i], b) => ~IsOffer(inbox[j], a)
\* A later commit finds the earlier attempt out of reach of another promotion.
CommittedAfter ==
  \A a, b \in Attempts : status[a] = "committed" /\ status[b] = "committed" /\ a < b => Gone(a)
TargetOrder == TargetKnown /\ PendingAfter /\ CommittedAfter

\* No decided attempt is offered again, and what stands before an offer stays before it.
LEMMA InboxSteps ==
  ASSUME TypeInv, [Next]_vars
  PROVE  \E k \in {0, 1} : \A j \in 1 .. Len(inbox') :
           \/ inbox'[j].kind = "decision"
           \/ inbox'[j].attempt \in Attempts /\ status'[inbox'[j].attempt] = "pending"
                /\ (j > 1 => status[inbox'[j].attempt] = "none")
           \/ \A i \in 1 .. j : i + k \in 1 .. Len(inbox) /\ inbox'[i] = inbox[i + k]
<1> DEFINE Kept(k) == \A j \in 1 .. Len(inbox') :
           \/ inbox'[j].kind = "decision"
           \/ inbox'[j].attempt \in Attempts /\ status'[inbox'[j].attempt] = "pending"
                /\ (j > 1 => status[inbox'[j].attempt] = "none")
           \/ \A i \in 1 .. j : i + k \in 1 .. Len(inbox) /\ inbox'[i] = inbox[i + k]
<1> SUFFICES \E k \in {0, 1} : Kept(k) OBVIOUS
<1>00. ServerStep BY ServerSteps
<1>0. inbox \in Seq(Events) /\ Len(inbox) \in Nat BY DEF TypeInv, ServerTypeOK
<1>1. CASE UNCHANGED inbox
  <2>1. Kept(0) BY <1>0, <1>1
  <2> QED BY <2>1
<1>2. CASE inbox # <<>> /\ inbox' = Tail(inbox)
  <2>1. Len(inbox') = Len(inbox) - 1 /\ \A i \in 1 .. Len(inbox') : inbox'[i] = inbox[i + 1]
    BY <1>0, <1>2
  <2>2. Kept(1) BY <1>0, <2>1
  <2> QED BY <2>2
<1>3. ASSUME NEW e \in Events, inbox' = Append(inbox, e),
             \/ e.kind = "decision"
             \/ status[e.attempt] = "none" /\ status'[e.attempt] = "pending"
      PROVE  \E k \in {0, 1} : Kept(k)
  <2>1. Len(inbox') = Len(inbox) + 1 /\ inbox'[Len(inbox) + 1] = e
        /\ \A i \in 1 .. Len(inbox) : inbox'[i] = inbox[i]
    BY <1>0, <1>3, AppendProperties
  <2>2. Kept(0) BY <1>0, <1>3, <2>1 DEF Events
  <2> QED BY <2>2
<1>4. ASSUME NEW a \in Attempts, Cancel(a) PROVE \E k \in {0, 1} : Kept(k)
  <2>1. Event("decision", a, "cancelled", active) \in Events
    BY DEF Event, Events, Statuses, TypeInv, ServerTypeOK
  <2> QED BY <1>1, <1>3, <1>4, <2>1 DEF Cancel, Tell, serverVars, Event
<1>5. ASSUME NEW a \in Attempts, Commit(a) PROVE \E k \in {0, 1} : Kept(k)
  <2>1. Event("decision", a, "committed", a) \in Events BY DEF Event, Events, Statuses
  <2> QED BY <1>1, <1>3, <1>5, <2>1 DEF Commit, Tell, serverVars, Event
<1>6. ASSUME NEW a \in Attempts, Prepare(a, expected[a]) PROVE \E k \in {0, 1} : Kept(k)
  <2>1. Event("candidate", a, "pending", expected[a]) \in Events
    BY DEF Event, Events, Statuses, TypeInv, ScopeOK
  <2> QED BY <1>1, <1>3, <1>6, <2>1 DEF Prepare, Admits, Tell, serverVars, Event, TypeInv,
           ServerTypeOK
<1>7. CASE Subscribe
  <2>1. CASE Pending = {}
    <3>1. Kept(0) BY <1>7, <2>1 DEF Subscribe
    <3> QED BY <3>1
  <2>2. CASE Pending # {}
    <3> DEFINE a == CHOOSE b \in Pending : TRUE
               e == Event("candidate", a, "pending", previous[a])
    <3>1. a \in Pending BY <2>2
    <3>2. inbox' = <<e>> /\ status' = status BY <1>7, <2>2 DEF Subscribe
    <3>3. e.attempt = a BY DEF Event
    <3> HIDE DEF e, a
    <3>4. Kept(0) BY <3>1, <3>2, <3>3 DEF Pending
    <3> QED BY <3>4
  <2> QED BY <2>1, <2>2
<1>8. ASSUME NEW a \in Attempts, NEW reason, End(a, reason) PROVE \E k \in {0, 1} : Kept(k)
  <2> DEFINE successors == {b \in Pending : previous[b] = a}
             e1 == Event("decision", a, "committed", None)
             e2 == Event("decision", CHOOSE b \in successors : TRUE, "cancelled", None)
  <2>1. CASE active = a /\ ~(reason = "failed" /\ successors # {})
    <3>1. inbox' = Append(inbox, e1) \o IF successors = {} THEN <<>> ELSE <<e2>>
      BY <1>8, <2>1 DEF End, EndActive
    <3>2. e1 \in Events /\ e1.kind = "decision" /\ e2.kind = "decision" BY DEF Event, Events,
             Statuses
    <3>3. CASE successors = {}
      <4>1. Append(inbox, e1) \in Seq(Events) BY <1>0, <3>2, AppendProperties
      <4>2. inbox' = Append(inbox, e1) BY <3>1, <3>3, <4>1, ConcatEmptySeq
      <4> QED BY <1>3, <3>2, <4>2
    <3>4. CASE successors # {}
      <4>1. (CHOOSE b \in successors : TRUE) \in Attempts BY <3>4 DEF Pending
      <4>2. e2 \in Events BY <4>1 DEF Event, Events, Statuses
      <4> HIDE DEF e1, e2
      <4>3. /\ Append(inbox, e1) \in Seq(Events) /\ Len(Append(inbox, e1)) = Len(inbox) + 1
            /\ Append(inbox, e1)[Len(inbox) + 1] = e1
            /\ \A i \in 1 .. Len(inbox) : Append(inbox, e1)[i] = inbox[i]
        BY <1>0, <3>2, AppendProperties
      <4>4. inbox' = Append(inbox, e1) \o <<e2>> BY <3>1, <3>4
      <4>5. <<e2>> \in Seq(Events) /\ Len(<<e2>>) = 1 /\ <<e2>>[1] = e2 BY <4>2
      <4>6. /\ Len(inbox') = Len(inbox) + 2 /\ inbox'[Len(inbox) + 2] = e2
            /\ inbox'[Len(inbox) + 1] = e1
            /\ \A i \in 1 .. Len(inbox) : inbox'[i] = inbox[i]
        BY <1>0, <4>3, <4>4, <4>5, ConcatProperties
      <4>7. Kept(0) BY <1>0, <3>2, <4>6
      <4> QED BY <4>7
    <3> QED BY <3>3, <3>4
  <2>2. CASE active = a /\ reason = "failed" /\ successors # {}
    BY <1>1, <1>8, <2>2 DEF End, EndActive, serverVars
  <2>3. CASE active # a BY <1>4, <1>8, <2>3 DEF End
  <2> QED BY <2>1, <2>2, <2>3
<1>9. CASE UNCHANGED serverVars BY <1>1, <1>9 DEF serverVars
<1>10. ASSUME NEW a \in Attempts, NEW s \in Sides, Ready(s, a) PROVE \E k \in {0, 1} : Kept(k)
  BY <1>1, <1>10 DEF Ready
<1> QED BY <1>00, <1>2, <1>4, <1>5, <1>6, <1>7, <1>8, <1>9, <1>10 DEF ServerStep

\* An attempt is offered to the target only while it is pending.
LEMMA OfferSteps ==
  ASSUME TypeInv, [Next]_vars, NEW a \in Attempts, Offered(a)'
  PROVE  Offered(a) \/ status'[a] = "pending"
<1>1. PICK i \in 1 .. Len(inbox') : inbox'[i].kind = "candidate" /\ inbox'[i].attempt = a
  BY DEF Offered, IsOffer
<1>2. PICK k \in {0, 1} : \A j \in 1 .. Len(inbox') :
           \/ inbox'[j].kind = "decision"
           \/ inbox'[j].attempt \in Attempts /\ status'[inbox'[j].attempt] = "pending"
                /\ (j > 1 => status[inbox'[j].attempt] = "none")
           \/ \A m \in 1 .. j : m + k \in 1 .. Len(inbox) /\ inbox'[m] = inbox[m + k]
  BY InboxSteps
<1>3. CASE status'[a] # "pending"
  <2>1. i + k \in 1 .. Len(inbox) /\ inbox'[i] = inbox[i + k] BY <1>1, <1>2, <1>3
  <2> QED BY <1>1, <2>1 DEF Offered, IsOffer
<1> QED BY <1>3

-----------------------------------------------------------------------------
\* What starts a session of the target, fills its candidate slot and its queue.
Receives(a) ==
  /\ inbox # <<>> /\ IsOffer(Head(inbox), a) /\ inbox' = Tail(inbox) /\ ServerIdle
  /\ queue = NoQueue /\ pc[<<"to", a>>] = "idle" /\ cand'["to"] \in {a, cand["to"]}
  /\ pc'[<<"to", a>>] = "establish" => cand'["to"] = a

\* A session of the target starts, takes the queue or the candidate slot only with its
\* own ticket, received now or queued before.
LEMMA TargetSteps ==
  ASSUME TypeInv, [Next]_vars, NEW a \in Attempts
  PROVE  /\ pc[<<"to", a>>] = "idle" /\ pc'[<<"to", a>>] # "idle" =>
              Receives(a) /\ queue'.attempt \in {None, a}
         /\ cand'["to"] = a /\ cand["to"] # a => Receives(a) \/ queue.attempt = a
         /\ queue'.attempt = a /\ queue.attempt # a => Receives(a)
         /\ pc[<<"to", a>>] \in Outside /\ pc'[<<"to", a>>] \notin Outside => cand'["to"] = a
<1> DEFINE Goal ==
         /\ pc[<<"to", a>>] = "idle" /\ pc'[<<"to", a>>] # "idle" =>
              Receives(a) /\ queue'.attempt \in {None, a}
         /\ cand'["to"] = a /\ cand["to"] # a => Receives(a) \/ queue.attempt = a
         /\ queue'.attempt = a /\ queue.attempt # a => Receives(a)
         /\ pc[<<"to", a>>] \in Outside /\ pc'[<<"to", a>>] \notin Outside => cand'["to"] = a
<1> USE DEF Sessions, Sides, Outside, AdmissionSteps, LeavingSteps
<1>0. a # None BY DEF Attempts, None
<1>1. ASSUME NEW b \in Attempts, SourceStep(b) PROVE Goal
  BY <1>1 DEF SourceStep, LinkState, LinkStateFails, PrepareReplies, PrepareLost,
     PrepareRefused, CommitDispatched, CommitBarred, CommitReplies, CommitLost,
     SourceDecisionReceived, Moves, LocalUnchanged, slots, Go, TypeInv, StepOK
<1>2. ASSUME NEW t \in Sides, NEW b \in Attempts, SessionStep(t, b) PROVE Goal
  <2>1. CASE Promotes(t, b)
    BY <1>0, <2>1 DEF Promotes, InstallPrimary, Go, TypeInv, StepOK, SlotsOK
  <2>2. CASE Finish(t, b)
    BY <1>0, <2>2 DEF Finish, releases, NoQueue, Go, TypeInv, StepOK, SlotsOK
  <2>3. CASE ~Promotes(t, b) /\ ~Finish(t, b)
    BY <1>2, <2>3 DEF SessionStep, TransportFails, Establishes, EstablishFails,
     observeCandidateDecision, GracePasses, GraceFails, ReadyGivesUp, mayReady, ReadyReplies,
              ReadyLost,
     ResolveGivesUp, ResolveReads, PromoteSettles, CancelReplies, CancelLost, Cleanup, liveEnds,
     EndReplies, EndLost, Only, Moves, LocalUnchanged, slots, Go, Answered, TypeInv, StepOK
  <2> QED BY <2>1, <2>2, <2>3
<1>3. ASSUME NEW b \in Attempts, AdmissionStep(b) PROVE Goal
  <2>1. CASE AdmissionReads(b)
    BY <2>1 DEF AdmissionReads, Only, Moves, slots, Go, TypeInv, StepOK
  <2>2. CASE AdmissionRefused(b)
    BY <1>0, <2>2 DEF AdmissionRefused, NoQueue, Go, TypeInv, StepOK
  <2>3. CASE AdmissionPromotes(b)
    <3>1. cand'["to"] \in {cand["to"], None}
      BY <2>3 DEF AdmissionPromotes, PromoteTarget, RetireCommitted, InstallPrimary, TypeInv,
               SlotsOK
    <3> QED BY <1>0, <2>3, <3>1 DEF AdmissionPromotes, Go, TypeInv, StepOK
  <2>4. CASE AdmissionRetires(b)
    <3>1. cand'["to"] \in {cand["to"], None}
      BY <2>4 DEF AdmissionRetires, VacateTarget, releases, TypeInv, SlotsOK
    <3> QED BY <1>0, <2>4, <3>1 DEF AdmissionRetires, Go, TypeInv, StepOK
  <2>5. CASE AdmissionInstalls(b)
    <3>1. cand'["to"] = b /\ queue.attempt = b /\ queue' = NoQueue
      BY <2>5 DEF AdmissionInstalls, InstallInbound, admissible, TypeInv, SlotsOK
    <3> QED BY <1>0, <2>5, <3>1 DEF AdmissionInstalls, NoQueue, Go, TypeInv, StepOK
  <2> QED BY <1>3, <2>1, <2>2, <2>3, <2>4, <2>5 DEF AdmissionStep
<1>4. CASE DecisionReceived
  BY <1>0, <1>4 DEF DecisionReceived, PromoteTarget, RetireCommitted, InstallPrimary,
           VacateTarget,
     releases, TypeInv, SlotsOK
<1>5. CASE CandidateAccepted
  <2> DEFINE b == Head(inbox).attempt
  <2>1. b \in Attempts BY <1>5, InboxTyped DEF CandidateAccepted
  <2>2. /\ inbox # <<>> /\ IsOffer(Head(inbox), b) /\ inbox' = Tail(inbox) /\ ServerIdle
        /\ queue = NoQueue /\ pc[<<"to", b>>] = "idle" /\ cand["to"] # b
    BY <1>5 DEF CandidateAccepted, Received, IsOffer, refusesInbound
  <2>3. \/ /\ cand' = [cand EXCEPT !["to"] = b] /\ pc' = [pc EXCEPT ![<<"to", b>>] = "establish"]
           /\ UNCHANGED queue
        \/ /\ queue' = [attempt |-> b, over |-> cand["to"]] /\ UNCHANGED cand
           /\ pc' = [pc EXCEPT ![<<"to", b>>] = "queued"]
    BY <1>5 DEF CandidateAccepted, InstallInbound, Go
  <2> HIDE DEF b
  <2>4. Receives(b)
    BY <2>1, <2>2, <2>3 DEF Receives, TypeInv, StepOK, SlotsOK
  <2>5. CASE a = b
    BY <2>1, <2>2, <2>3, <2>4, <2>5 DEF NoQueue, TypeInv, StepOK, SlotsOK
  <2>6. CASE a # b
    BY <2>1, <2>2, <2>3, <2>6 DEF NoQueue, TypeInv, StepOK, SlotsOK
  <2> QED BY <2>5, <2>6
<1>6. CASE CandidateIgnored BY <1>6 DEF CandidateIgnored, slots
<1>7. CASE Environment
  <2>1. ASSUME NEW b \in Attempts, Connect(b) PROVE Goal
    BY <2>1 DEF Connect, Go, TypeInv, StepOK, SlotsOK
  <2>2. ASSUME NEW t \in Sides, Revoke(t) PROVE Goal
    <3>1. cand'["to"] \in {cand["to"], None} /\ UNCHANGED <<queue, pc>>
      BY <2>2 DEF Revoke, TypeInv, SlotsOK
    <3> QED BY <1>0, <3>1
  <2>3. CASE ~(\E b \in Attempts : Connect(b)) /\ ~(\E t \in Sides : Revoke(t))
    BY <1>7, <2>3 DEF Environment, Expire, CallerGivesUp, Disconnect, Resubscribe, Pin,
       CarrierSuspends, CarrierRecovers, CarrierDies, slots
  <2> QED BY <2>1, <2>2, <2>3
<1>8. CASE (\E t \in Sides : transportChanged(t)) \/ UNCHANGED vars
  BY <1>8 DEF transportChanged, vars, slots
<1> QED BY <1>1, <1>2, <1>3, <1>4, <1>5, <1>6, <1>7, <1>8 DEF Next, Receive

\* A ticket that is received was in the inbox.
LEMMA ReceivedWasOffered ==
  ASSUME TypeInv, NEW a \in Attempts, Receives(a) PROVE Offered(a)
<1>1. inbox \in Seq(Events) BY DEF TypeInv, ServerTypeOK
<1>2. 1 \in 1 .. Len(inbox) /\ Head(inbox) = inbox[1] BY <1>1 DEF Receives
<1> QED BY <1>2 DEF Receives, Offered

\* An attempt that is neither offered nor queued nor pending is not installed any more.
LEMMA AwayStays ==
  ASSUME TypeInv, [Next]_vars, NEW a \in Attempts, Away(a), status'[a] # "pending"
  PROVE  Away(a)' /\ (cand'["to"] = a => cand["to"] = a)
<1>1. ~Receives(a) BY ReceivedWasOffered DEF Away
<1>2. ~Offered(a)' BY OfferSteps DEF Away
<1> QED BY <1>1, <1>2, TargetSteps DEF Away

\* Every step keeps the target's order.
LEMMA TargetOrderKept ==
  ASSUME TypeInv, ServerInv, SourceOrder, TargetOrder, [Next]_vars PROVE TargetOrder'
<1>1. TargetKnown'
  <2> SUFFICES ASSUME NEW a \in Attempts,
                      pc'[<<"to", a>>] # "idle" \/ Offered(a)' \/ "to" \in ready'[a]
               PROVE  status'[a] # "none"
    BY DEF TargetKnown
  <2>1. CASE Offered(a)' /\ status'[a] = "pending" BY <2>1
  <2>2. CASE ~(Offered(a)' /\ status'[a] = "pending")
    <3>1. pc[<<"to", a>>] # "idle" \/ Offered(a) \/ "to" \in ready[a] \/ status[a] = "pending"
      BY <2>2, OfferSteps, TargetSteps, ReceivedWasOffered, ReadySteps
    <3>2. status[a] # "none" BY <3>1 DEF TargetOrder, TargetKnown
    <3> QED BY <3>2, StatusSteps
  <2> QED BY <2>1, <2>2
<1>2. PendingAfter'
  <2> SUFFICES ASSUME NEW a \in Attempts, NEW b \in Attempts,
                      status'[a] = "committed", status'[b] = "pending"
               PROVE  /\ pc'[<<"to", b>>] # "idle" => Away(a)'
                      /\ pc'[<<"to", b>>] \notin Outside => cand'["to"] # a
                      /\ "to" \in ready'[b] => Gone(a)'
                      /\ \A i, j \in 1 .. Len(inbox') :
                           i < j /\ IsOffer(inbox[i], b)' => ~IsOffer(inbox[j], a)'
    BY DEF PendingAfter
  <2>0. a # b OBVIOUS
  <2>1. status[a] = "committed"
    <3>1. CASE status[a] # "committed"
      <4>1. status[a] = "pending" /\ Commits(a) BY <3>1, StatusSteps
      <4>2. status[b] = "pending" BY <2>0, <4>1 DEF Commits
      <4> QED BY <2>0, <4>1, <4>2 DEF SourceOrder, Pending
    <3> QED BY <3>1
  <2>2. PICK k \in {0, 1} : \A j \in 1 .. Len(inbox') :
           \/ inbox'[j].kind = "decision"
           \/ inbox'[j].attempt \in Attempts /\ status'[inbox'[j].attempt] = "pending"
                /\ (j > 1 => status[inbox'[j].attempt] = "none")
           \/ \A m \in 1 .. j : m + k \in 1 .. Len(inbox) /\ inbox'[m] = inbox[m + k]
    BY InboxSteps
  <2>3. inbox \in Seq(Events) /\ Len(inbox) \in Nat BY DEF TypeInv, ServerTypeOK
  <2>4. ASSUME NEW i \in 1 .. Len(inbox'), NEW j \in 1 .. Len(inbox'), i < j,
               IsOffer(inbox[i], b)', IsOffer(inbox[j], a)'
        PROVE  FALSE
    <3>1. i + k \in 1 .. Len(inbox) /\ inbox'[i] = inbox[i + k]
          /\ j + k \in 1 .. Len(inbox) /\ inbox'[j] = inbox[j + k]
      BY <2>2, <2>4 DEF IsOffer
    <3>2. Offered(b) BY <2>4, <3>1 DEF Offered, IsOffer
    <3>3. status[b] = "pending" BY <3>2, StatusSteps DEF TargetOrder, TargetKnown
    <3>4. i + k < j + k BY <2>4
    <3> QED BY <2>1, <2>4, <3>1, <3>3, <3>4 DEF TargetOrder, PendingAfter, IsOffer
  <2>5. CASE status[b] # "pending"
    <3>1. status[b] = "none" /\ Prepares(b) BY <2>5, StatusSteps
    <3>2. pc[<<"to", b>>] = "idle" /\ "to" \notin ready[b]
      BY <3>1 DEF TargetOrder, TargetKnown
    <3>3. pc'[<<"to", b>>] = "idle" BY <3>1, <3>2, TargetSteps DEF Receives, ServerIdle
    <3>4. "to" \notin ready'[b] BY <3>1, <3>2, ReadySteps
    <3> QED BY <2>4, <3>3, <3>4 DEF Outside
  <2>6. CASE status[b] = "pending"
    <3>1. pc'[<<"to", b>>] # "idle" => Away(a)'
      <4>1. CASE pc[<<"to", b>>] # "idle"
        BY <2>1, <2>6, <4>1, AwayStays DEF TargetOrder, PendingAfter
      <4>2. CASE pc[<<"to", b>>] = "idle" /\ pc'[<<"to", b>>] # "idle"
        <5>1. Receives(b) /\ queue'.attempt \in {None, b} BY <4>2, TargetSteps
        <5>2. queue'.attempt # a BY <2>0, <5>1 DEF None, Attempts
        <5>3. ASSUME NEW j \in 1 .. Len(inbox'), IsOffer(inbox[j], a)' PROVE FALSE
          <6>1. /\ 1 \in 1 .. Len(inbox) /\ j + 1 \in 1 .. Len(inbox) /\ inbox'[j] = inbox[j + 1]
                /\ Head(inbox) = inbox[1]
            BY <2>3, <5>1, <5>3 DEF Receives
          <6>2. IsOffer(inbox[1], b) /\ IsOffer(inbox[j + 1], a)
            BY <5>1, <5>3, <6>1 DEF Receives, IsOffer
          <6>3. 1 < j + 1 BY <5>3
          <6> QED BY <2>1, <2>6, <6>1, <6>2, <6>3 DEF TargetOrder, PendingAfter
        <5> QED BY <5>2, <5>3 DEF Away, Offered
      <4> QED BY <4>1, <4>2
    <3>2. pc'[<<"to", b>>] \notin Outside => cand'["to"] # a
      <4>1. CASE pc[<<"to", b>>] \notin Outside
        <5>1. Away(a) /\ cand["to"] # a
          BY <2>1, <2>6, <4>1 DEF TargetOrder, PendingAfter, Outside
        <5> QED BY <5>1, AwayStays
      <4>2. CASE pc[<<"to", b>>] \in Outside
        BY <2>0, <4>2, TargetSteps
      <4> QED BY <4>1, <4>2
    <3>3. "to" \in ready'[b] => Gone(a)'
      <4>1. CASE "to" \in ready[b]
        <5>1. Gone(a) BY <2>1, <2>6, <4>1 DEF TargetOrder, PendingAfter
        <5> QED BY <5>1, AwayStays DEF Gone
      <4>2. CASE "to" \notin ready[b] /\ "to" \in ready'[b]
        <5>1. pc[<<"to", b>>] = "ready" BY <4>2, ReadySteps
        <5>2. Away(a) /\ cand["to"] # a
          BY <2>1, <2>6, <5>1 DEF TargetOrder, PendingAfter, Outside, AdmissionSteps, LeavingSteps
        <5> QED BY <5>2, AwayStays DEF Gone
      <4> QED BY <4>1, <4>2
    <3> QED BY <2>4, <3>1, <3>2, <3>3
  <2> QED BY <2>5, <2>6
<1>3. CommittedAfter'
  <2> SUFFICES ASSUME NEW a \in Attempts, NEW b \in Attempts,
                      status'[a] = "committed", status'[b] = "committed", a < b
               PROVE  Gone(a)'
    BY DEF CommittedAfter
  <2>0. a # b BY DEF Attempts
  <2>1. Gone(a)
    <3>1. CASE status[a] = "committed" /\ status[b] = "committed"
      BY <3>1 DEF TargetOrder, CommittedAfter
    <3>2. CASE status[a] # "committed"
      <4>1. status[a] = "pending" /\ Commits(a) BY <3>2, StatusSteps
      <4>2. status[b] = "committed" BY <2>0, <4>1 DEF Commits
      <4> QED BY <4>1, <4>2 DEF Commits, SourceOrder, Attempts
    <3>3. CASE status[b] # "committed"
      <4>1. status[b] = "pending" /\ Commits(b) BY <3>3, StatusSteps
      <4>2. status[a] = "committed" BY <2>0, <4>1 DEF Commits
      <4> QED BY <4>1, <4>2 DEF Commits, Sides, TargetOrder, PendingAfter
    <3> QED BY <3>1, <3>2, <3>3
  <2> QED BY <2>1, AwayStays DEF Gone
<1> QED BY <1>1, <1>2, <1>3 DEF TargetOrder

-----------------------------------------------------------------------------
(* NeverRevived.                                                           *)

\* Only the attempt in a side's candidate slot becomes its primary.
LEMMA PromotesFromSlot ==
  ASSUME TypeInv, [Next]_vars, NEW s \in Sides
  PROVE  primary'[s] \in {primary[s], None, cand[s]}
<1> DEFINE Goal == primary'[s] \in {primary[s], None, cand[s]}
<1>1. ASSUME NEW b \in Attempts, SourceStep(b) PROVE Goal
  BY <1>1 DEF SourceStep, LinkState, LinkStateFails, PrepareReplies, PrepareLost,
     PrepareRefused, CommitDispatched, CommitBarred, CommitReplies, CommitLost,
     SourceDecisionReceived, Moves, LocalUnchanged, slots
<1>2. ASSUME NEW t \in Sides, NEW b \in Attempts, SessionStep(t, b) PROVE Goal
  BY <1>2 DEF SessionStep, TransportFails, Establishes, EstablishFails,
     observeCandidateDecision, GracePasses, GraceFails, ReadyGivesUp, ReadyReplies, ReadyLost,
     ResolveGivesUp, ResolveReads, Promotes, promotable, ownsCandidateLocked, InstallPrimary,
     PromoteSettles, CancelReplies, CancelLost, Cleanup, EndReplies, EndLost, Finish, releases,
     Only, Moves, LocalUnchanged, slots, TypeInv, SlotsOK
<1>3. ASSUME NEW b, NEW dead, PromoteTarget(b, dead) PROVE Goal
  BY <1>3 DEF PromoteTarget, ownsCandidateLocked, RetireCommitted, InstallPrimary, TypeInv,
           SlotsOK
<1>4. ASSUME NEW b, VacateTarget(b) PROVE Goal
  BY <1>4 DEF VacateTarget, releases, TypeInv, SlotsOK
<1>5. ASSUME NEW b \in Attempts, AdmissionStep(b) PROVE Goal
  BY <1>3, <1>4, <1>5 DEF AdmissionStep, AdmissionReads, AdmissionRefused, AdmissionPromotes,
     AdmissionRetires, AdmissionInstalls, Only, Moves, slots
<1>6. CASE Receive
  BY <1>3, <1>4, <1>6 DEF Receive, DecisionReceived, CandidateIgnored, CandidateAccepted, slots
<1>7. CASE Environment
  BY <1>7 DEF Environment, Connect, Expire, CallerGivesUp, Disconnect, Resubscribe,
     Revoke, Pin, CarrierSuspends, CarrierRecovers, CarrierDies, slots, TypeInv, SlotsOK
<1>8. CASE (\E t \in Sides : transportChanged(t)) \/ UNCHANGED vars
  BY <1>8 DEF transportChanged, vars, slots
<1> QED BY <1>1, <1>2, <1>5, <1>6, <1>7, <1>8 DEF Next

\* The inductive invariant of NeverRevived.
OrderInv == CommittedInv /\ LiveInv /\ SourceOrder /\ TargetOrder

\* Every step keeps the order of attempts on both sides.
LEMMA OrderInductive == ASSUME TypeInv, OrderInv, [Next]_vars PROVE OrderInv'
BY CommittedInductive, LiveInductive, SourceOrderKept, TargetOrderKept
   DEF OrderInv, CommittedInv, LiveInv

\* Without attempts there is nothing out of order.
LEMMA InitOrdered == Init => OrderInv
<1> SUFFICES ASSUME Init PROVE OrderInv OBVIOUS
<1>1. CommittedInv BY InitCommitted
<1>2. LiveInv
  BY DEF Init, LiveInv, Unreserved, IdleIsFresh, WaitsOutside, SlotsAreLive, AdmissionSteps,
     Sessions, Sides
<1>3. SourceOrder
  BY DEF Init, ServerInit, SourceOrder, Pending, Sessions, Sides, None
<1>4. TargetOrder
  BY DEF Init, ServerInit, TargetOrder, TargetKnown, PendingAfter, CommittedAfter, Offered,
     Sessions, Sides, None
<1> QED BY <1>1, <1>2, <1>3, <1>4 DEF OrderInv

\* The order of attempts holds throughout.
LEMMA AlwaysOrdered == Spec => [](TypeInv /\ OrderInv)
<1>1. TypeInv /\ OrderInv /\ [Next]_vars => OrderInv' BY OrderInductive
<1> QED BY <1>1, InitOrdered, AlwaysTyped, PTL DEF Spec

\* The newest committed attempt is the only one that can still become primary.
LEMMA CandidateIsNewest ==
  ASSUME TypeInv, OrderInv, NEW s \in Sides, NEW b \in Attempts,
         cand[s] # None, status[cand[s]] = "committed", b > cand[s]
  PROVE  status[b] # "committed"
<1>1. cand[s] \in Attempts BY DEF TypeInv, SlotsOK
<1>2. CASE s = "from" BY <1>2 DEF OrderInv, SourceOrder
<1>3. CASE s = "to"
  <2>1. cand["to"] < b BY <1>1, <1>3 DEF Attempts
  <2> QED BY <1>1, <1>3, <2>1 DEF OrderInv, TargetOrder, CommittedAfter, Gone
<1> QED BY <1>2, <1>3 DEF Sides

\* A promotion is never undone by an older attempt: once a later attempt has been
\* committed no earlier one becomes primary on either side, although the target promotes
\* from events and admissions that may be older than the decision.
THEOREM NeverRevivedHolds == Spec => NeverRevived
<1>1. ASSUME TypeInv, OrderInv, [Next]_vars
      PROVE  [\A s \in Sides, a \in Attempts :
                primary'[s] = a /\ primary[s] # a
                  => \A b \in Attempts : b > a => status[b] # "committed"]_vars
  <2> SUFFICES ASSUME NEW s \in Sides, NEW a \in Attempts, NEW b \in Attempts,
                      primary'[s] = a, primary[s] # a, b > a
               PROVE  status[b] # "committed"
    OBVIOUS
  <2>1. cand[s] = a /\ cand[s] # None BY <1>1, PromotesFromSlot DEF None, Attempts
  <2>2. status[a] = "committed" BY <1>1, <2>1, EntersPrimary DEF OrderInv
  <2> QED BY <1>1, <2>1, <2>2, CandidateIsNewest
<1> QED BY <1>1, AlwaysOrdered, PTL DEF Spec, NeverRevived

-----------------------------------------------------------------------------
(* MakeBeforeBreak.                                                        *)

\* The queue holds an admission, and that admission retires only what was replaced.
QueueWaits == queue.attempt # None => pc[<<"to", queue.attempt>>] \in AdmissionSteps
RetiresReplaced ==
  \A a \in Attempts : pc[<<"to", a>>] = "admitRetire" /\ queue.attempt = a =>
    Decided(queue.over) /\ active # queue.over
\* What MakeBeforeBreak needs beside the order.
BreakInv == QueueWaits /\ RetiresReplaced

\* An admission leaves its steps only with the queue, and goes on to retire its
\* predecessor only when the decision does not grant that one promotion.
LEMMA WaitSteps ==
  ASSUME TypeInv, [Next]_vars, NEW a \in Attempts
  PROVE  /\ pc[<<"to", a>>] \in AdmissionSteps =>
              pc'[<<"to", a>>] \in AdmissionSteps \/ queue'.attempt # a
         /\ pc'[<<"to", a>>] = "admitRetire" =>
              \/ pc[<<"to", a>>] = "admitRetire"
              \/ /\ queue.attempt = a /\ Decided(queue.over) /\ ~grantsPromotion(queue.over)
                 /\ UNCHANGED <<serverVars, queue>>
<1> DEFINE Goal ==
         /\ pc[<<"to", a>>] \in AdmissionSteps =>
              pc'[<<"to", a>>] \in AdmissionSteps \/ queue'.attempt # a
         /\ pc'[<<"to", a>>] = "admitRetire" =>
              \/ pc[<<"to", a>>] = "admitRetire"
              \/ /\ queue.attempt = a /\ Decided(queue.over) /\ ~grantsPromotion(queue.over)
                 /\ UNCHANGED <<serverVars, queue>>
<1> USE DEF Sessions, Sides, AdmissionSteps
<1>0. a # None BY DEF Attempts, None
<1>1. ASSUME NEW b \in Attempts, SourceStep(b) PROVE Goal
  BY <1>1 DEF SourceStep, LinkState, LinkStateFails, PrepareReplies, PrepareLost,
     PrepareRefused, CommitDispatched, CommitBarred, CommitReplies, CommitLost,
     SourceDecisionReceived, Moves, Go, TypeInv, StepOK
<1>2. ASSUME NEW t \in Sides, NEW b \in Attempts, SessionStep(t, b) PROVE Goal
  BY <1>2 DEF SessionStep, TransportFails, Establishes, EstablishFails,
     observeCandidateDecision, GracePasses, GraceFails, ReadyGivesUp, mayReady, ReadyReplies,
              ReadyLost,
     ResolveGivesUp, ResolveReads, Promotes, PromoteSettles, CancelReplies, CancelLost,
              Cleanup, liveEnds,
     EndReplies, EndLost, Finish, Only, Moves, Go, Answered, TypeInv, StepOK
<1>3. ASSUME NEW b \in Attempts, AdmissionStep(b) PROVE Goal
  <2>1. CASE AdmissionReads(b)
    BY <2>1 DEF AdmissionReads, admissible, Only, Moves, slots, Go, TypeInv, StepOK
  <2>2. CASE AdmissionRefused(b)
    BY <1>0, <2>2 DEF AdmissionRefused, NoQueue, Go, TypeInv, StepOK
  <2>3. CASE AdmissionInstalls(b)
    BY <1>0, <2>3 DEF AdmissionInstalls, NoQueue, Go, TypeInv, StepOK
  <2>4. CASE AdmissionPromotes(b) \/ AdmissionRetires(b)
    BY <2>4 DEF AdmissionPromotes, AdmissionRetires, Go, TypeInv, StepOK
  <2> QED BY <1>3, <2>1, <2>2, <2>3, <2>4 DEF AdmissionStep
<1>4. CASE Receive
  BY <1>4, InboxTyped DEF Receive, DecisionReceived, CandidateIgnored, CandidateAccepted, Go,
     TypeInv, StepOK
<1>5. CASE Environment
  BY <1>5 DEF Environment, Connect, Expire, CallerGivesUp, Disconnect, Resubscribe,
     Revoke, Pin, CarrierSuspends, CarrierRecovers, CarrierDies, Go, TypeInv, StepOK
<1>6. CASE (\E t \in Sides : transportChanged(t)) \/ UNCHANGED vars
  BY <1>6 DEF transportChanged, vars
<1> QED BY <1>1, <1>2, <1>3, <1>4, <1>5, <1>6 DEF Next

\* Every step keeps the queue with a waiting admission, and the predecessor it retires
\* replaced.
LEMMA BreakInductive ==
  ASSUME TypeInv, ServerInv, BreakInv, [Next]_vars PROVE BreakInv'
<1>0. TypeInv' /\ ServerInv' /\ DecisionStays BY NextTyped, ServerStands
<1>1. queue'.attempt # None => queue'.attempt \in Attempts
  BY <1>0 DEF TypeInv, QueueOK, NoQueue
<1>2. QueueWaits'
  <2> SUFFICES ASSUME queue'.attempt # None
               PROVE  pc'[<<"to", queue'.attempt>>] \in AdmissionSteps
    BY DEF QueueWaits
  <2> DEFINE a == queue'.attempt
  <2>1. CASE UNCHANGED queue
    <3>1. pc[<<"to", a>>] \in AdmissionSteps BY <2>1 DEF BreakInv, QueueWaits
    <3> QED BY <1>1, <3>1, WaitSteps
  <2>2. CASE queue' = NoQueue BY <2>2 DEF NoQueue
  <2>3. ASSUME NEW b \in Attempts, queue' = [attempt |-> b, over |-> cand["to"]],
               pc' = [pc EXCEPT ![<<"to", b>>] = "queued"]
        PROVE  pc'[<<"to", queue'.attempt>>] \in AdmissionSteps
    BY <2>3 DEF AdmissionSteps, TypeInv, StepOK, Sessions, Sides
  <2> QED BY <2>1, <2>2, <2>3, QueueSteps
<1>3. RetiresReplaced'
  <2> SUFFICES ASSUME NEW a \in Attempts, pc'[<<"to", a>>] = "admitRetire", queue'.attempt = a
               PROVE  Decided(queue.over)' /\ active' # queue'.over
    BY DEF RetiresReplaced
  <2>1. UNCHANGED queue
    <3>1. a # None BY DEF Attempts, None
    <3>2. ASSUME NEW b \in Attempts, pc' = [pc EXCEPT ![<<"to", b>>] = "queued"],
                 queue' = [attempt |-> b, over |-> cand["to"]]
          PROVE  FALSE
      <4>1. a = b BY <3>2
      <4> QED BY <3>2, <4>1 DEF TypeInv, StepOK, Sessions, Sides
    <3>3. queue' # NoQueue BY <3>1 DEF NoQueue
    <3> QED BY <3>2, <3>3, QueueSteps
  <2>2. queue.over \in Attempts
    BY <2>1 DEF TypeInv, QueueOK, NoQueue, None, Attempts
  <2>3. CASE pc[<<"to", a>>] = "admitRetire"
    <3>1. Decided(queue.over) /\ active # queue.over
      BY <2>1, <2>3 DEF BreakInv, RetiresReplaced
    <3>2. status'[queue.over] = status[queue.over] BY <1>0, <2>2, <3>1 DEF DecisionStays
    <3>3. active' # queue.over
      BY <1>0, <2>2, <3>1, <3>2 DEF DecisionStays, Decided, ServerInv, ActiveIsCommitted, None,
               Attempts
    <3> QED BY <2>1, <3>1, <3>2, <3>3 DEF Decided
  <2>4. CASE Decided(queue.over) /\ ~grantsPromotion(queue.over) /\ UNCHANGED serverVars
    <3>1. active # queue.over
      BY <2>2, <2>4 DEF Decided, grantsPromotion, ServerInv, ActiveIsCommitted, None, Attempts
    <3> QED BY <2>1, <2>4, <3>1 DEF Decided, serverVars
  <2> QED BY <2>3, <2>4, WaitSteps
<1> QED BY <1>2, <1>3 DEF BreakInv

\* Nobody promotes or retires over a primary that the coordinator holds active.
LEMMA ActiveIsNotReplaced ==
  ASSUME TypeInv, OrderInv, NEW s \in Sides, primary[s] # None, active = primary[s],
         cand[s] # None, status[cand[s]] = "committed"
  PROVE  FALSE
<1> DEFINE p == primary[s]
           c == cand[s]
<1>1. p \in Attempts /\ c \in Attempts BY DEF TypeInv, SlotsOK
<1>2. status[p] = "committed" BY DEF OrderInv, CommittedInv, PrimaryIsCommitted
<1>3. p # c BY DEF OrderInv, LiveInv, SlotsAreLive
<1>4. c <= p BY <1>1 DEF OrderInv, SourceOrder
<1>5. ~(p > c) BY <1>1, <1>2, CandidateIsNewest
<1> QED BY <1>1, <1>3, <1>4, <1>5 DEF Attempts

\* Only its user, a revocation or the end of its own carrier stops a live primary that
\* the coordinator holds active.
LEMMA StopSteps ==
  ASSUME TypeInv, OrderInv, BreakInv, [Next]_vars, NEW s \in Sides, NEW p \in Attempts,
         primary[s] = p, pc[<<s, p>>] = "live", active = p, <<s, p>> \in stopped', <<s,
                  p>> \notin stopped
  PROVE  endJob'[<<s, p>>] = "final" \/ ~pinned'[s] \/ carrier[<<s, p>>] = "dead"
<1> DEFINE Goal == endJob'[<<s, p>>] = "final" \/ ~pinned'[s] \/ carrier[<<s, p>>] = "dead"
<1>0. /\ <<s, p>> \in Sessions /\ p # None
      /\ status[p] = "committed" /\ cand[s] # p
      /\ cand[s] # None => status[cand[s]] # "committed"
  <2>1. <<s, p>> \in Sessions /\ p # None BY DEF Sessions, Attempts, None
  <2>2. status[p] = "committed" BY <2>1 DEF OrderInv, CommittedInv, PrimaryIsCommitted
  <2>3. cand[s] # p BY <2>1 DEF OrderInv, LiveInv, SlotsAreLive
  <2>4. cand[s] # None => status[cand[s]] # "committed" BY <2>1, ActiveIsNotReplaced
  <2> QED BY <2>1, <2>2, <2>3, <2>4
<1>00. queue.attempt # p \/ s # "to" BY <1>0 DEF BreakInv, QueueWaits, AdmissionSteps
<1>1. ASSUME NEW b \in Attempts, SourceStep(b) PROVE Goal
  BY <1>0, <1>1 DEF SourceStep, LinkState, LinkStateFails, PrepareReplies, PrepareLost,
     PrepareRefused, CommitDispatched, CommitBarred, CommitReplies, CommitLost,
     SourceDecisionReceived, StopsOnly, Stop, Moves, LocalUnchanged, marks
<1>2. ASSUME NEW t \in Sides, NEW b \in Attempts, SessionStep(t, b) PROVE Goal
  <2>1. CASE Promotes(t, b)
    <3>1. cand[t] = b /\ status[b] = "committed"
      BY <2>1 DEF Promotes, promotable, ownsCandidateLocked, OrderInv, CommittedInv,
               PromotesCommitted
    <3>2. t # s BY <1>0, <3>1 DEF None, Attempts
    <3> QED BY <2>1, <3>2 DEF Promotes, InstallPrimary, Stop, SlotSession
  <2>2. CASE Cleanup(t, b) BY <2>2 DEF Cleanup, liveEnds, Stop
  <2>3. CASE observeCandidateDecision(t, b) BY <2>3 DEF observeCandidateDecision, Stop
  <2>4. CASE ~Promotes(t, b) /\ ~Cleanup(t, b) /\ ~observeCandidateDecision(t, b)
    BY <1>2, <2>4 DEF SessionStep, TransportFails, Establishes, EstablishFails,
     GracePasses, GraceFails, ReadyGivesUp, ReadyReplies, ReadyLost,
     ResolveGivesUp, ResolveReads, PromoteSettles, CancelReplies, CancelLost,
     EndReplies, EndLost, Finish, Only, Moves, LocalUnchanged, marks
  <2> QED BY <2>1, <2>2, <2>3, <2>4
<1>3. ASSUME NEW b \in Attempts, NEW dead, PromoteTarget(b, dead),
         status[b] = "committed" PROVE Goal
  <2>1. CASE cand["to"] = b /\ b # None
    <3>1. s # "to" BY <1>0, <1>3, <2>1
    <3> QED BY <1>3, <3>1 DEF PromoteTarget, RetireCommitted, InstallPrimary, Stop,
             SlotSession, marks
  <2>2. CASE cand["to"] # b BY <1>3, <2>2 DEF PromoteTarget, ownsCandidateLocked, marks
  <2> QED BY <2>1, <2>2 DEF None, Attempts
<1>4. ASSUME NEW b \in Attempts, AdmissionStep(b) PROVE Goal
  <2> DEFINE q == queue.over
  <2>0. admissible(b) => queue.attempt = b /\ q \in Attempts
    BY DEF admissible, TypeInv, QueueOK, NoQueue, None, Attempts
  <2>1. CASE AdmissionPromotes(b)
    <3>1. status[q] = "committed"
      BY <2>0, <2>1 DEF AdmissionPromotes, OrderInv, CommittedInv, AdmitsCommitted
    <3> QED BY <1>3, <2>0, <2>1, <3>1 DEF AdmissionPromotes
  <2>2. CASE AdmissionRetires(b)
    <3>1. active # q BY <2>0, <2>2 DEF AdmissionRetires, BreakInv, RetiresReplaced
    <3> QED BY <2>2, <3>1 DEF AdmissionRetires, StopsOnly, Stop
  <2>3. CASE AdmissionRefused(b) BY <2>3 DEF AdmissionRefused, StopsOnly, Stop
  <2>4. CASE AdmissionReads(b) \/ AdmissionInstalls(b)
    BY <2>4 DEF AdmissionReads, AdmissionInstalls, InstallInbound, Only, Moves, marks
  <2> QED BY <1>4, <2>1, <2>2, <2>3, <2>4 DEF AdmissionStep
<1>5. CASE DecisionReceived
  <2> DEFINE e == Head(inbox)
             a == e.attempt
  <2>1. a \in Attempts /\ inbox # <<>> /\ e.kind = "decision" /\ inbox \in Seq(Events)
    BY <1>5, InboxTyped DEF DecisionReceived, Received, TypeInv, ServerTypeOK
  <2>2. e = inbox[1] /\ 1 \in 1 .. Len(inbox) BY <2>1
  <2>3. EventTrue(e) BY <2>2 DEF OrderInv, CommittedInv, ServerInv, InboxTrue
  <2>4. CASE e.status = "committed" /\ PromoteTarget(a, carrierDead(a))
    BY <1>3, <2>1, <2>3, <2>4 DEF EventTrue
  <2>5. CASE e.status = "committed" /\ e.active # a /\ StopsOnly({<<"to", a>>})
    BY <2>1, <2>3, <2>5 DEF EventTrue, StopsOnly, Stop
  <2>6. CASE e.status = "cancelled" /\ StopsOnly({<<"to", a>>})
    BY <1>0, <2>1, <2>3, <2>6 DEF EventTrue, StopsOnly, Stop
  <2>7. CASE UNCHANGED marks BY <2>7 DEF marks
  <2> QED BY <1>5, <2>4, <2>5, <2>6, <2>7 DEF DecisionReceived
<1>6. CASE CandidateIgnored \/ CandidateAccepted
  BY <1>6 DEF CandidateIgnored, CandidateAccepted, InstallInbound, marks
<1>7. CASE Environment
  <2>1. CASE Disconnect
    <3>1. \E x \in SlotSession("from", primary["from"]) \cup SlotSession("from", cand["from"]) :
            x = <<s, p>>
      BY <2>1 DEF Disconnect, Stop
    <3>2. s = "from" BY <3>1 DEF SlotSession
    <3> QED BY <1>0, <2>1, <3>2 DEF Disconnect
  <2>2. ASSUME NEW t \in Sides, Revoke(t) PROVE Goal
    <3>1. CASE t = s BY <2>2, <3>1 DEF Revoke, TypeInv, ScopeOK
    <3>2. CASE t # s BY <2>2, <3>2 DEF Revoke, Stop, SlotSession
    <3> QED BY <3>1, <3>2
  <2>3. CASE Resubscribe
    BY <1>0, <1>00, <2>3 DEF Resubscribe, StopsOnly, Stop, SlotSession
  <2> QED BY <1>7, <2>1, <2>2, <2>3 DEF Environment, Connect, Expire, CallerGivesUp, Pin,
     CarrierSuspends, CarrierRecovers, CarrierDies, marks
<1>8. CASE (\E t \in Sides : transportChanged(t)) \/ UNCHANGED vars
  BY <1>8 DEF transportChanged, vars, marks
<1> QED BY <1>1, <1>2, <1>4, <1>5, <1>6, <1>7, <1>8 DEF Next, Receive

\* Make before break: no successor, late event, queued admission or cleanup stops a
\* settled primary while the coordinator still holds it active.
THEOREM MakeBeforeBreakHolds == Spec => MakeBeforeBreak
<1>1. ASSUME TypeInv, OrderInv, BreakInv, [Next]_vars
      PROVE  [\A s \in Sides : LET p == primary[s] IN
                p # None /\ pc[<<s, p>>] = "live" /\ active = p /\ <<s, p>> \in stopped' \ stopped
                  => \/ endJob'[<<s, p>>] = "final" \/ ~pinned'[s]
                     \/ carrier[<<s, p>>] = "dead"]_vars
  BY <1>1, StopSteps DEF TypeInv, SlotsOK
<1>2. Init => BreakInv
  BY DEF Init, BreakInv, QueueWaits, RetiresReplaced, NoQueue, None, Sessions, Sides
<1>3. TypeInv /\ OrderInv /\ BreakInv /\ [Next]_vars => BreakInv'
  BY BreakInductive DEF OrderInv, CommittedInv
<1> QED BY <1>1, <1>2, <1>3, AlwaysOrdered, PTL DEF Spec, MakeBeforeBreak
=============================================================================
