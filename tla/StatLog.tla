-------------------------------- MODULE StatLog --------------------------------
(***************************************************************************)
(* The telemetry client of the desktop foundation package                  *)
(* (packages/desktop-foundation/src/statlog.ts): a bounded queue of events *)
(* kept under the user's consent, sent in batches, retried with a growing  *)
(* delay and mirrored in a store that outlives the process.  Everything    *)
(* runs on one thread; a request and a store operation are awaited, so     *)
(* other calls run in between.  An event is its number in tracking order.  *)
(***************************************************************************)
EXTENDS Naturals, Sequences, SequencesExt, FiniteSets

CONSTANTS
  batchSize, queueLimit,  \* the client's options
  MaxEvents,              \* bound: events ever tracked
  MaxFlights,             \* bound: requests in flight together
  MaxWrites,              \* bound: store operations not settled together
  MaxRestarts             \* bound: process restarts

VARIABLES
  phase,    \* "loading" (setup), "running", "stopped" (shutdown), "dead"
  consent,  \* telemetryEnabled and not opted out
  queue,    \* this.queue
  retry,    \* retryAttempt (up to where the delay stops growing) and whether
            \* nextRetryAtMs is still ahead
  flights,  \* the batches of flush calls awaiting the transport; moved (history):
            \* the queue has lost its front since, to another answer, as overflow,
            \* or with the consent
  writes,   \* store operations issued and not settled, oldest first
  stored,   \* what the store holds
  restarts,
  tracked,  \* history: how many events were tracked
  settled,  \* history: events acknowledged, dropped as overflow, or discarded
  floor,    \* history: events up to this number were discarded by an opt-out
  fault     \* history: whether a store operation failed or was lost, and the
            \* events an answer took off the queue that its request did not carry

vars == <<phase, consent, queue, retry, flights, writes, stored, restarts,
          tracked, settled, floor, fault>>

Events == 1..MaxEvents
NoRetry == [attempt |-> 0, waiting |-> FALSE]
MaxAttempt == 2  \* min(retryBaseMs * 2 ** attempt, maxRetryMs) is constant from here

TypeOK ==
  /\ phase \in {"loading", "running", "stopped", "dead"} /\ consent \in BOOLEAN
  /\ queue \in BoundedSeq(Events, queueLimit)
  /\ retry \in [attempt : 0..MaxAttempt, waiting : BOOLEAN]
  /\ flights \subseteq [batch : BoundedSeq(Events, batchSize), n : 1..MaxFlights,
                        floor : 0..MaxEvents, moved : BOOLEAN]
  /\ \A w \in Range(writes) : w.op \in {"save", "clear"}
  /\ Range(stored) \subseteq Events /\ restarts \in 0..MaxRestarts
  /\ tracked \in 0..MaxEvents /\ settled \subseteq Events /\ floor \in 0..MaxEvents
  /\ fault \in [store : BOOLEAN, lost : SUBSET Events]

-----------------------------------------------------------------------------
(* The parts of a handler                                                    *)

Alive == phase \in {"running", "stopped"}
canCollect == consent

\* Mutant: the limit is forgotten
clampQueueNever(events) == events

\* clampQueue: the newest queueLimit events are kept
clampQueue(events) ==
  IF Len(events) <= queueLimit THEN events
  ELSE SubSeq(events, Len(events) - queueLimit + 1, Len(events))

\* persistQueue and the store's clear are issued here and settle later
Issue(op, events) == writes' = Append(writes, [op |-> op, events |-> events])
persistQueue(events) == Len(writes) < MaxWrites /\ Issue("save", events)

\* Nothing in the client forbids two requests for the same front, or a front
\* that moves under a request.
FrontMoves(fs) == {[f EXCEPT !.moved = TRUE] : f \in fs}

clearStoreOnly ==
  /\ Len(writes) < MaxWrites /\ Issue("clear", <<>>)
  /\ retry' = [retry EXCEPT !.waiting = FALSE]
  /\ settled' = settled \cup Range(queue)
  /\ UNCHANGED <<queue, flights>>

clearQueue ==
  /\ Len(writes) < MaxWrites /\ Issue("clear", <<>>)
  /\ retry' = [retry EXCEPT !.waiting = FALSE]
  /\ settled' = settled \cup Range(queue)
  /\ queue' = <<>> /\ flights' = FrontMoves(flights)

\* flush from the point where it has something to send and may send it
Least(a, b) == IF a < b THEN a ELSE b
buildBatch(fs, events) ==
  /\ Cardinality(fs) < MaxFlights
  /\ flights' = fs \cup
       {[n |-> Min((1..MaxFlights) \ {f.n : f \in fs}), floor |-> floor, moved |-> FALSE,
         batch |-> SubSeq(events, 1, Least(Len(events), batchSize))]}
mayFlush(automatic) == ~(automatic /\ retry.waiting)

-----------------------------------------------------------------------------
(* Operations                                                                *)

\* createStatLog: setup awaits the stored queue; a failed load leaves it empty
setup ==
  /\ phase = "loading" /\ phase' = "running"
  /\ \/ queue' = clampQueue(stored) /\ fault' = fault
        /\ settled' = settled \cup (Range(stored) \ Range(clampQueue(stored)))
     \/ queue' = <<>> /\ fault' = [fault EXCEPT !.store = TRUE] /\ UNCHANGED settled
  /\ UNCHANGED <<consent, retry, flights, writes, stored, restarts, tracked, floor>>

\* track: an unsafe name or key is refused without a trace; else the event is
\* queued, the queue clamped and saved, and a full batch sent
track ==
  LET all == Append(queue, tracked + 1)
      fs == IF Len(all) > queueLimit THEN FrontMoves(flights) ELSE flights
  IN
  /\ Alive /\ canCollect /\ tracked < MaxEvents
  /\ tracked' = tracked + 1
  /\ queue' = clampQueue(all)
  /\ settled' = settled \cup (Range(all) \ Range(clampQueue(all)))
  /\ persistQueue(queue')
  /\ IF Len(queue') >= batchSize /\ mayFlush(TRUE)
     THEN buildBatch(fs, queue') ELSE flights' = fs
  /\ UNCHANGED <<phase, consent, retry, stored, restarts, floor, fault>>

\* setTelemetryEnabled and setOptOut
setConsent(enabled) ==
  /\ Alive /\ consent' = enabled
  /\ IF enabled THEN UNCHANGED <<queue, retry, flights, writes, settled, floor>>
     ELSE clearQueue /\ floor' = tracked
  /\ UNCHANGED <<phase, stored, restarts, tracked, fault>>

\* flush, by the timer (while it runs) or by a caller
flush(automatic) ==
  /\ Alive /\ (automatic => phase = "running")
  /\ \/ /\ ~canCollect
        /\ clearQueue
     \/ /\ canCollect /\ queue # <<>> /\ mayFlush(automatic)
        /\ buildBatch(flights, queue)
        /\ UNCHANGED <<queue, retry, writes, settled>>
  /\ UNCHANGED <<phase, consent, stored, restarts, tracked, floor, fault>>

\* Mutant: the whole queue is taken for sent
sentAll(f) ==
  /\ queue' = <<>>
  /\ settled' = settled \cup Range(f.batch) /\ UNCHANGED fault

\* the transport answered: as many events as were sent are taken off the queue,
\* whichever are at its front by now
sent(f) ==
  LET n == Least(Len(f.batch), Len(queue)) IN
  /\ queue' = SubSeq(queue, n + 1, Len(queue))
  /\ settled' = settled \cup Range(f.batch)
  /\ fault' = [fault EXCEPT !.lost = @ \cup (Range(SubSeq(queue, 1, n)) \ Range(f.batch))]

flushAnswered(f) ==
  /\ Alive /\ f \in flights /\ flights' = FrontMoves(flights \ {f})
  /\ sent(f) /\ retry' = NoRetry
  /\ persistQueue(queue')
  /\ UNCHANGED <<phase, consent, stored, restarts, tracked, floor>>

\* a refusal (429 or another status) and a failed transport: scheduleRetry
scheduleRetry ==
  retry' = [attempt |-> IF retry.attempt < MaxAttempt THEN retry.attempt + 1 ELSE MaxAttempt,
            waiting |-> TRUE]
flushFailed(f) ==
  /\ Alive /\ f \in flights /\ flights' = flights \ {f}
  /\ scheduleRetry /\ persistQueue(queue)
  /\ UNCHANGED <<phase, consent, queue, stored, restarts, tracked, settled, floor, fault>>

\* the clock passes nextRetryAtMs
BackoffElapsed ==
  /\ Alive /\ retry.waiting /\ retry' = [retry EXCEPT !.waiting = FALSE]
  /\ UNCHANGED <<phase, consent, queue, flights, writes, stored, restarts, tracked,
                 settled, floor, fault>>

\* the oldest store operation settles, or fails and is only reported
StoreSettles ==
  /\ writes # <<>> /\ writes' = Tail(writes)
  /\ \/ /\ stored' = IF Head(writes).op = "clear" THEN <<>> ELSE Head(writes).events
        /\ UNCHANGED fault
     \/ fault' = [fault EXCEPT !.store = TRUE] /\ UNCHANGED stored
  /\ UNCHANGED <<phase, consent, queue, retry, flights, restarts, tracked, settled, floor>>

\* shutdown stops the timer and flushes whatever is left
shutdown ==
  /\ phase = "running" /\ phase' = "stopped"
  /\ IF canCollect /\ queue # <<>>
     THEN buildBatch(flights, queue) /\ UNCHANGED <<queue, retry, writes, settled>>
     ELSE IF canCollect
     THEN UNCHANGED <<queue, retry, writes, settled, flights>>
     ELSE clearQueue
  /\ UNCHANGED <<consent, stored, restarts, tracked, floor, fault>>

\* the process ends: the queue, the requests and unsettled writes are gone
Exit ==
  /\ Alive /\ restarts < MaxRestarts /\ phase' = "dead"
  /\ queue' = <<>> /\ flights' = {} /\ writes' = <<>> /\ retry' = NoRetry
  /\ fault' = [fault EXCEPT !.store = @ \/ writes # <<>>]
  /\ UNCHANGED <<consent, stored, restarts, tracked, settled, floor>>
Restart ==
  /\ phase = "dead" /\ phase' = "loading" /\ restarts' = restarts + 1
  /\ consent' \in BOOLEAN /\ floor' = 0
  /\ UNCHANGED <<queue, retry, flights, writes, stored, tracked, settled, fault>>

Init ==
  /\ phase = "loading" /\ consent \in BOOLEAN /\ queue = <<>> /\ retry = NoRetry
  /\ flights = {} /\ writes = <<>> /\ stored = <<>> /\ restarts = 0 /\ tracked = 0
  /\ settled = {} /\ floor = 0
  /\ fault = [store |-> FALSE, lost |-> {}]

Next ==
  \/ setup \/ track \/ BackoffElapsed \/ StoreSettles
  \/ shutdown \/ Exit \/ Restart
  \/ \E b \in BOOLEAN : setConsent(b) \/ flush(b)
  \/ \E f \in flights : flushAnswered(f) \/ flushFailed(f)

Spec == Init /\ [][Next]_vars

-----------------------------------------------------------------------------
(* What was discarded when the user withdrew consent is never sent later by  *)
(* that process, though requests, retries and saves were on their way when   *)
(* it was withdrawn and consent may be given again (statlog.ts clearQueue).  *)
SentIsConsented == \A f \in flights : \A e \in Range(f.batch) : e > f.floor

(* While the store works, an event leaves the queue only acknowledged,       *)
(* discarded with consent, dropped as the oldest of a full queue, or as one  *)
(* of those an answer took off that its request did not carry; a request     *)
(* whose front no other answer, overflow or withdrawal has moved still finds *)
(* its own batch there, and takes nothing else; and a restart finds what the *)
(* queue held (statlog.ts flush, persistQueue, setup).                       *)
NothingVanishes ==
  /\ (~fault.store /\ Alive) => 1..tracked \subseteq Range(queue) \cup settled \cup fault.lost
  /\ \A f \in flights : f.moved \/ IsPrefix(f.batch, queue)
  /\ (~fault.store /\ Alive /\ writes = <<>>) => stored = queue

(* What the queue is for: an answer takes off what was sent.  Refuted when   *)
(* the front moved under a request, since statlog.ts:719 removes by length:  *)
(* two overlapping flushes, a full queue that dropped its oldest, consent    *)
(* withdrawn and given again.                                                *)
OnlyTheSentLeave == fault.lost = {}
=============================================================================
