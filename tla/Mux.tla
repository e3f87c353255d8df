--------------------------------- MODULE Mux ---------------------------------
(***************************************************************************)
(* The stream layer of a peer session, networking/internal/peer: two muxes *)
(* joined by a reliable ordered link, with credit-based flow control       *)
(* (protocol.Window) for each direction of each stream. "init" is the      *)
(* initiator, whose streams have odd ids; the other end's are even.        *)
(*                                                                         *)
(* Everything the code does under mux.mu is one action. Readers and        *)
(* writers that find nothing to do wait on mux.changed: they are in        *)
(* waiting until a notify of their mux takes them out.                     *)
(***************************************************************************)
EXTENDS Integers, Sequences, FiniteSets, FiniteSetsExt

CONSTANTS
  MaxStreams,         \* streams a mux holds, and the capacity of accepted
  StreamWindowBytes,  \* the reservation of one direction of a stream
  MaxDataBytes,       \* payload limit of one DATA frame
  MaxId,              \* bound on stream ids
  MaxBytes            \* bound on the bytes written to one stream, both ways

ASSUME MuxAssumption ==
  /\ MaxStreams \in Nat \ {0} /\ StreamWindowBytes \in Nat \ {0}
  /\ MaxDataBytes \in Nat \ {0} /\ MaxId \in Nat \ {0} /\ MaxBytes \in Nat

Ends == {"init", "resp"}
Ids == 1 .. MaxId
Peer(e) == IF e = "init" THEN "resp" ELSE "init"

VARIABLES
  err,         \* why a mux failed, "" while it works
  lastLocal, lastRemote, \* newest ids opened and admitted
  streams,     \* the ids in mux.streams
  stream,      \* the stream objects, by end and id
  accepted,    \* the channel of streams waiting for Accept
  held,        \* streams an application has from Open or Accept
  listening,   \* the peer.Listener of an end still has this mux
  waiting,     \* <<end, id, operation>> blocked on mux.changed
  want,        \* bytes the Write in progress has yet to send
  wrote, got,  \* bytes sent and bytes read so far
  link,        \* frames on their way to an end
  linkUp       \* link.Done is not closed

vars == <<err, lastLocal, lastRemote, streams, stream, accepted, held, listening,
          waiting, want, wrote, got, link, linkUp>>

\* A send window that the acceptor has not granted yet.
NoWindow == -1

\* receive: available, pending, finished; sendWindow: credit, owed; the ring
\* buffer: queue, readIndex, buffered. A byte is its position in the stream.
Fresh == [available |-> StreamWindowBytes, pending |-> 0, finished |-> FALSE,
          credit |-> NoWindow, owed |-> 0,
          queue |-> [i \in 0 .. StreamWindowBytes - 1 |-> 0],
          readIndex |-> 0, buffered |-> 0, writeClosed |-> FALSE, err |-> ""]

Streams == [available : 0 .. StreamWindowBytes, pending : 0 .. StreamWindowBytes,
            finished : BOOLEAN, credit : NoWindow .. StreamWindowBytes,
            owed : 0 .. StreamWindowBytes,
            queue : [0 .. StreamWindowBytes - 1 -> 0 .. MaxBytes],
            readIndex : 0 .. StreamWindowBytes - 1, buffered : 0 .. StreamWindowBytes,
            writeClosed : BOOLEAN, err : {"", "closed", "reset", "protocol"}]

\* A stream with an error answers every operation with it: the rest is dropped.
Dead(cause) == [Fresh EXCEPT !.err = cause]

Frame(type, id, size, first) == [type |-> type, id |-> id, size |-> size, first |-> first]
Signal(type, id, size) == Frame(type, id, size, 0)

\* What a mux that has failed would be sent is read by nobody.
toPeer(e, frames) == IF err[Peer(e)] = "" THEN frames ELSE <<>>
\* mux.send; on a link that is gone it fails the mux instead, see LinkDone.
Send(e, frames) == linkUp /\ link' = [link EXCEPT ![Peer(e)] = @ \o toPeer(e, frames)]

notify(e) == waiting' = {w \in waiting : w[1] # e}

\* Waiters and the listener see mux.done and let go of the mux.
fail(e, cause) ==
  /\ err' = [err EXCEPT ![e] = cause]
  /\ stream' = [x \in DOMAIN stream |->
       IF x[1] = e /\ x[2] \in streams[e] THEN Dead(cause) ELSE stream[x]]
  /\ streams' = [streams EXCEPT ![e] = {}]
  /\ accepted' = [accepted EXCEPT ![e] = <<>>]
  /\ listening' = [listening EXCEPT ![e] = FALSE]
  /\ notify(e)

drained(s) == s.finished /\ s.pending = 0
\* retire: both directions are over and everything was read.
retires(s) == s.writeClosed /\ drained(s)

\* Mutant: a finished stream stays in the mux until it is reset.
PutErr(e, id, s) ==
  /\ stream' = [stream EXCEPT ![<<e, id>>] = s]
  /\ streams' = [streams EXCEPT ![e] = IF s.err # "" THEN @ \ {id} ELSE @]
\* The stream object after an operation, and whether the mux still holds it.
Put(e, id, s) ==
  /\ stream' = [stream EXCEPT ![<<e, id>>] = s]
  /\ streams' = [streams EXCEPT ![e] = IF s.err # "" \/ retires(s) THEN @ \ {id} ELSE @]

-----------------------------------------------------------------------------
(* Opening and accepting.                                                  *)

nextId(last, odd) == IF last = 0 /\ odd THEN 1 ELSE last + 2

Open(e) ==
  LET id == nextId(lastLocal[e], e = "init") IN
  /\ err[e] = ""
  /\ Cardinality(streams[e]) # MaxStreams
  /\ id <= MaxId
  /\ Send(e, <<Signal("OPEN", id, StreamWindowBytes)>>)
  /\ streams' = [streams EXCEPT ![e] = @ \cup {id}]
  /\ lastLocal' = [lastLocal EXCEPT ![e] = id]
  /\ held' = [held EXCEPT ![e] = @ \cup {id}]
  /\ UNCHANGED <<err, lastRemote, stream, accepted, listening, waiting, want, wrote,
                 got, linkUp>>

\* Accept of the mux returns the stream, or the error it has by now.
acceptable(e, id) == stream[<<e, id>>].err = ""

\* Accept of the listener, which takes any error for the end of the mux.
Accept(e) ==
  LET id == Head(accepted[e])
      ok == acceptable(e, id)
  IN
  /\ listening[e] /\ err[e] = ""
  /\ accepted[e] # <<>>
  /\ accepted' = [accepted EXCEPT ![e] = Tail(@)]
  /\ held' = [held EXCEPT ![e] = IF ok THEN @ \cup {id} ELSE @]
  /\ listening' = [listening EXCEPT ![e] = ok]
  /\ UNCHANGED <<err, lastLocal, lastRemote, streams, stream, waiting, want, wrote,
                 got, link, linkUp>>

-----------------------------------------------------------------------------
(* receive: one frame at a time, in order.                                 *)

\* The next frame for e, answered with frames.
Take(e, frames) ==
  /\ link[e] # <<>> /\ err[e] = ""
  /\ frames # <<>> => linkUp
  /\ link' = [link EXCEPT ![e] = Tail(@), ![Peer(e)] = @ \o toPeer(e, frames)]

\* Mutant: only what waits for Accept is counted.
atLimitAccepted(e) == Len(accepted[e]) = MaxStreams
atLimit(e) == Cardinality(streams[e]) = MaxStreams \/ Len(accepted[e]) = MaxStreams

admitOpen(e) ==
  LET f == Head(link[e])
      ok == f.id = nextId(lastRemote[e], e # "init") /\ f.size \in 1 .. StreamWindowBytes
  IN
  /\ link[e] # <<>> /\ f.type = "OPEN"
  /\ IF ~ok
     THEN Take(e, <<>>) /\ fail(e, "protocol") /\ UNCHANGED lastRemote
     ELSE /\ lastRemote' = [lastRemote EXCEPT ![e] = f.id]
          /\ UNCHANGED <<err, listening, waiting>>
          /\ IF atLimit(e)
             THEN /\ Take(e, <<Signal("RESET", f.id, 0)>>)
                  /\ UNCHANGED <<stream, streams, accepted>>
             ELSE /\ Take(e, <<Signal("WINDOW_UPDATE", f.id, StreamWindowBytes)>>)
                  /\ stream' = [stream EXCEPT ![<<e, f.id>>] = [Fresh EXCEPT !.credit = f.size]]
                  /\ streams' = [streams EXCEPT ![e] = @ \cup {f.id}]
                  /\ accepted' = [accepted EXCEPT ![e] = Append(@, f.id)]
  /\ UNCHANGED <<lastLocal, held, want, wrote, got, linkUp>>

\* Mutant: only the ids the other end opened are remembered.
knewRemote(e, id) == id <= lastRemote[e]
knew(e, id) ==
  id <= IF (id % 2 = 1) = (e = "init") THEN lastLocal[e] ELSE lastRemote[e]

\* A frame for a stream that is gone: ignored if the id was ever admitted.
admitRetired(e) ==
  LET f == Head(link[e]) IN
  /\ link[e] # <<>> /\ f.type # "OPEN" /\ f.id \notin streams[e]
  /\ Take(e, <<>>)
  /\ IF knew(e, f.id) THEN UNCHANGED <<err, stream, streams, accepted, listening, waiting>>
                       ELSE fail(e, "protocol")
  /\ UNCHANGED <<lastLocal, lastRemote, held, want, wrote, got, linkUp>>

\* Window.Take, Return, NewWindow and Finish refuse what breaks the accounting.
admissible(f, s) ==
  CASE f.type = "DATA" -> ~s.finished /\ f.size <= MaxDataBytes /\ f.size <= s.available
    [] f.type = "WINDOW_UPDATE" ->
         f.size <= (IF s.credit = NoWindow THEN StreamWindowBytes ELSE s.owed)
    [] f.type = "FIN" -> ~s.finished
    [] f.type = "RESET" -> TRUE

\* The bytes of a DATA frame go behind the unread ones, around the end of the ring.
enqueue(s, f) ==
  [i \in DOMAIN s.queue |->
     LET offset == (i - s.readIndex - s.buffered) % StreamWindowBytes IN
     IF offset < f.size THEN f.first + offset ELSE s.queue[i]]

applied(f, s) ==
  CASE f.type = "DATA" ->
         [s EXCEPT !.available = @ - f.size, !.pending = @ + f.size,
                   !.queue = enqueue(s, f), !.buffered = @ + f.size]
    [] f.type = "WINDOW_UPDATE" ->
         IF s.credit = NoWindow THEN [s EXCEPT !.credit = f.size]
         ELSE [s EXCEPT !.credit = @ + f.size, !.owed = @ - f.size]
    [] f.type = "FIN" -> [s EXCEPT !.finished = TRUE]
    [] f.type = "RESET" -> Dead("reset")

admit(e) ==
  LET f == Head(link[e])
      s == stream[<<e, f.id>>]
  IN
  /\ link[e] # <<>> /\ f.type # "OPEN" /\ f.id \in streams[e]
  /\ Take(e, <<>>)
  /\ IF admissible(f, s)
     THEN /\ Put(e, f.id, applied(f, s)) /\ notify(e)
          /\ UNCHANGED <<err, accepted, listening>>
     ELSE fail(e, "protocol")
  /\ UNCHANGED <<lastLocal, lastRemote, held, want, wrote, got, linkUp>>

-----------------------------------------------------------------------------
(* Reading and writing.                                                    *)

blocked(e, id, op) == <<e, id, op>> \in waiting
\* A stream whose operations do not fail at once.
usable(e, id) == id \in held[e] /\ stream[<<e, id>>].err = ""

\* Mutant: what was read is given back twice.
consumedTwice(s, size) ==
  [s EXCEPT !.readIndex = (@ + size) % StreamWindowBytes, !.buffered = @ - size,
            !.pending = @ - size, !.available = @ + 2 * size]
\* Mutant: the read index stays where it was.
consumedStale(s, size) ==
  [s EXCEPT !.buffered = @ - size, !.pending = @ - size, !.available = @ + size]
consumed(s, size) ==
  [s EXCEPT !.readIndex = (@ + size) % StreamWindowBytes, !.buffered = @ - size,
            !.pending = @ - size, !.available = @ + size]

\* Mutant: nothing is sent on a stream whose write side is closed.
creditBackOpen(s, id, size) ==
  IF s.writeClosed THEN <<>> ELSE <<Signal("WINDOW_UPDATE", id, size)>>
\* Credit goes back for what was read, also after this end's own FIN.
creditBack(s, id, size) == <<Signal("WINDOW_UPDATE", id, size)>>

Read(e, id) ==
  LET s == stream[<<e, id>>] IN
  /\ usable(e, id) /\ ~blocked(e, id, "read")
  /\ s.buffered > 0
  /\ \E size \in 1 .. s.buffered :
       /\ Put(e, id, consumed(s, size))
       /\ Send(e, creditBack(s, id, size))
       /\ got' = [got EXCEPT ![<<e, id>>] = @ + size]
  /\ UNCHANGED <<err, lastLocal, lastRemote, accepted, held, listening, waiting, want,
                 wrote, linkUp>>

ReadWaits(e, id) ==
  LET s == stream[<<e, id>>] IN
  /\ usable(e, id) /\ ~blocked(e, id, "read")
  /\ s.buffered = 0 /\ ~drained(s)
  /\ waiting' = waiting \cup {<<e, id, "read">>}
  /\ UNCHANGED <<err, lastLocal, lastRemote, streams, stream, accepted, held, listening,
                 want, wrote, got, link, linkUp>>

\* Write enters the write gate with size bytes to send.
WriteBegins(e, id) ==
  /\ usable(e, id) /\ ~stream[<<e, id>>].writeClosed
  /\ want[<<e, id>>] = 0
  /\ \E size \in 1 .. MaxBytes - wrote[<<e, id>>] - wrote[<<Peer(e), id>>] - want[<<Peer(e), id>>] :
       want' = [want EXCEPT ![<<e, id>>] = size]
  /\ UNCHANGED <<err, lastLocal, lastRemote, streams, stream, accepted, held, listening,
                 waiting, wrote, got, link, linkUp>>

\* The DATA frames for size bytes, numbered from first.
dataFrames(id, first, size) ==
  LET count == (size + MaxDataBytes - 1) \div MaxDataBytes
      start(i) == (i - 1) * MaxDataBytes
  IN  [i \in 1 .. count |->
         Frame("DATA", id, IF i < count THEN MaxDataBytes ELSE size - start(i),
               first + start(i))]

writing(e, id) == want[<<e, id>>] > 0 /\ ~blocked(e, id, "write")

\* The loop of Write as far as the credit goes, without releasing the lock.
Write(e, id) ==
  LET s == stream[<<e, id>>]
      size == IF s.credit < want[<<e, id>>] THEN s.credit ELSE want[<<e, id>>]
  IN
  /\ writing(e, id) /\ s.err = "" /\ ~s.writeClosed
  /\ s.credit > 0
  /\ Put(e, id, [s EXCEPT !.credit = @ - size, !.owed = @ + size])
  /\ Send(e, dataFrames(id, wrote[<<e, id>>] + 1, size))
  /\ wrote' = [wrote EXCEPT ![<<e, id>>] = @ + size]
  /\ want' = [want EXCEPT ![<<e, id>>] = @ - size]
  /\ UNCHANGED <<err, lastLocal, lastRemote, accepted, held, listening, waiting, got,
                 linkUp>>

WriteWaits(e, id) ==
  LET s == stream[<<e, id>>] IN
  /\ writing(e, id) /\ s.err = "" /\ ~s.writeClosed
  /\ s.credit \in {NoWindow, 0}
  /\ waiting' = waiting \cup {<<e, id, "write">>}
  /\ UNCHANGED <<err, lastLocal, lastRemote, streams, stream, accepted, held, listening,
                 want, wrote, got, link, linkUp>>

\* The rest is not written: the stream has failed or its write side is closed.
WriteFails(e, id) ==
  /\ writing(e, id)
  /\ stream[<<e, id>>].err # "" \/ stream[<<e, id>>].writeClosed
  /\ want' = [want EXCEPT ![<<e, id>>] = 0]
  /\ UNCHANGED <<err, lastLocal, lastRemote, streams, stream, accepted, held, listening,
                 waiting, wrote, got, link, linkUp>>

\* The caller's context ends a wait.
WaitCancelled(e, id, op) ==
  /\ blocked(e, id, op)
  /\ waiting' = waiting \ {<<e, id, op>>}
  /\ want' = IF op = "write" THEN [want EXCEPT ![<<e, id>>] = 0] ELSE want
  /\ UNCHANGED <<err, lastLocal, lastRemote, streams, stream, accepted, held, listening,
                 wrote, got, link, linkUp>>

-----------------------------------------------------------------------------
(* Closing.                                                                *)

CloseWrite(e, id) ==
  /\ usable(e, id) /\ ~stream[<<e, id>>].writeClosed
  /\ Put(e, id, [stream[<<e, id>>] EXCEPT !.writeClosed = TRUE])
  /\ Send(e, <<Signal("FIN", id, 0)>>)
  /\ notify(e)
  /\ UNCHANGED <<err, lastLocal, lastRemote, accepted, held, listening, want, wrote,
                 got, linkUp>>

\* Close of a stream; one that has retired already is not reset.
CloseStream(e, id) ==
  /\ usable(e, id)
  /\ Put(e, id, Dead("closed"))
  /\ IF id \in streams[e] THEN Send(e, <<Signal("RESET", id, 0)>>) ELSE UNCHANGED link
  /\ notify(e)
  /\ UNCHANGED <<err, lastLocal, lastRemote, accepted, held, listening, want, wrote,
                 got, linkUp>>

Failing(e, up) ==
  /\ err[e] = ""
  /\ fail(e, "closed")
  /\ link' = [link EXCEPT ![e] = <<>>]
  /\ linkUp' = up
  /\ UNCHANGED <<lastLocal, lastRemote, held, want, wrote, got>>

Close(e) == Failing(e, linkUp)

\* receive sees link.Done, or a send fails; the other end will see it too.
LinkDone(e) == Failing(e, FALSE)

-----------------------------------------------------------------------------
Init ==
  /\ err = [e \in Ends |-> ""]
  /\ lastLocal = [e \in Ends |-> 0] /\ lastRemote = [e \in Ends |-> 0]
  /\ streams = [e \in Ends |-> {}]
  /\ stream = [x \in Ends \X Ids |-> Fresh]
  /\ accepted = [e \in Ends |-> <<>>]
  /\ held = [e \in Ends |-> {}]
  /\ listening = [e \in Ends |-> TRUE]
  /\ waiting = {}
  /\ want = [x \in Ends \X Ids |-> 0]
  /\ wrote = [x \in Ends \X Ids |-> 0]
  /\ got = [x \in Ends \X Ids |-> 0]
  /\ link = [e \in Ends |-> <<>>]
  /\ linkUp = TRUE

Receive(e) == admitOpen(e) \/ admitRetired(e) \/ admit(e)
Reader(e, id) == Read(e, id) \/ ReadWaits(e, id)
Writer(e, id) == Write(e, id) \/ WriteWaits(e, id) \/ WriteFails(e, id)

StreamStep(e, id) ==
  \/ Reader(e, id) \/ Writer(e, id) \/ WriteBegins(e, id)
  \/ \E op \in {"read", "write"} : WaitCancelled(e, id, op)
  \/ CloseWrite(e, id) \/ CloseStream(e, id)

EndStep(e) ==
  \/ Open(e) \/ Receive(e) \/ Accept(e) \/ Close(e) \/ LinkDone(e)
  \/ \E id \in Ids : StreamStep(e, id)

Next == \E e \in Ends : EndStep(e)

Spec == Init /\ [][Next]_vars

\* The mux's own goroutine runs; whoever holds a stream keeps reading it; a started
\* Write goes on. Nobody has to open, accept, write or close.
Fairness ==
  \A e \in Ends :
    /\ WF_vars(Receive(e))
    /\ \A id \in Ids : WF_vars(Reader(e, id)) /\ WF_vars(Writer(e, id))

FairSpec == Spec /\ Fairness

-----------------------------------------------------------------------------
(* Properties.                                                             *)

\* Every variable has its type.
TypeOK ==
  /\ err \in [Ends -> {"", "closed", "protocol"}]
  /\ lastLocal \in [Ends -> 0 .. MaxId] /\ lastRemote \in [Ends -> 0 .. MaxId]
  /\ streams \in [Ends -> SUBSET Ids]
  /\ stream \in [Ends \X Ids -> Streams]
  /\ accepted \in [Ends -> Seq(Ids)]
  /\ held \in [Ends -> SUBSET Ids]
  /\ listening \in [Ends -> BOOLEAN]
  /\ waiting \subseteq Ends \X Ids \X {"read", "write"}
  /\ want \in [Ends \X Ids -> 0 .. MaxBytes]
  /\ wrote \in [Ends \X Ids -> 0 .. MaxBytes] /\ got \in [Ends \X Ids -> 0 .. MaxBytes]
  /\ linkUp \in BOOLEAN

\* Two ends that follow this code never reject each other's frames, whatever
\* crosses on the link: a RESET and data, a FIN and credit, two OPENs at the
\* stream limit. A rejected frame ends every stream of the session.
NoProtocolFailure == \A e \in Ends : err[e] # "protocol"

\* The bytes in the ring buffer are the next ones of the stream, in order, and
\* end of file is reported only when everything the other end sent was read.
ReadsInOrder ==
  \A e \in Ends, id \in Ids : LET s == stream[<<e, id>>] IN
    s.err = "" =>
      /\ \A i \in 0 .. s.buffered - 1 :
           s.queue[(s.readIndex + i) % StreamWindowBytes] = got[<<e, id>>] + 1 + i
      /\ drained(s) => got[<<e, id>>] = wrote[<<Peer(e), id>>]

\* Bytes of one kind of frame of a stream that are on their way to an end.
onLink(e, id, type) ==
  MapThenSumSet(LAMBDA i : link[e][i].size,
    {i \in DOMAIN link[e] : link[e][i].type = type /\ link[e][i].id = id})

\* Credit is neither lost nor made: what a sender may not yet send again is in a
\* DATA frame, unread in the receiver's buffer, or coming back as credit.
CreditConserved ==
  \A e \in Ends, id \in Ids :
    LET s == stream[<<e, id>>]
        r == stream[<<Peer(e), id>>]
    IN  id \in streams[e] /\ s.credit # NoWindow /\ r.err = "" /\ err[Peer(e)] = ""
          => /\ s.credit + s.owed = StreamWindowBytes
             /\ s.owed = onLink(Peer(e), id, "DATA") + r.pending
                           + onLink(e, id, "WINDOW_UPDATE")

\* A mux never holds more streams than it has reserved memory for, and a stream
\* never more bytes than its reservation.
ReservationHolds ==
  \A e \in Ends :
    /\ Cardinality(streams[e]) <= MaxStreams /\ Len(accepted[e]) <= MaxStreams
    /\ \A id \in streams[e] : LET s == stream[<<e, id>>] IN
         s.buffered = s.pending /\ s.available + s.pending = StreamWindowBytes

\* A Write does not wait forever: credit comes back from a reader, or the stream
\* or the mux ends and the wait is over.
WriteCompletes ==
  \A e \in Ends, id \in Ids :
    want[<<e, id>>] > 0 /\ id \in held[Peer(e)] ~> want[<<e, id>>] = 0 \/ err[Peer(e)] # ""

\* A stream both ends have finished with leaves both muxes, so that it no longer
\* counts against the stream limit.
FinishedIsFreed ==
  \A id \in Ids :
    (\A e \in Ends : id \in held[e] /\ stream[<<e, id>>].writeClosed)
      ~> \/ \A e \in Ends : id \notin streams[e]
         \/ \E e \in Ends : err[e] # ""

\* conn.go, when Accept of the mux fails: "This mux ended (its transport dropped);
\* wait for the next one". The listener lets go of a mux only when it has ended.
ListenerKeepsLiveMux == \A e \in Ends : ~listening[e] => err[e] # ""
=============================================================================
