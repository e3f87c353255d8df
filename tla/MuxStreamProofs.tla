-------------------------- MODULE MuxStreamProofs --------------------------
(***************************************************************************)
(* Proofs about the streams of a connected pair of muxes, for every stream *)
(* limit, window and frame size and any number of streams: the memory of a *)
(* mux is bounded (ReservationHolds), what is on the link between          *)
(* two honest ends is always what the receiver's checks ask for, bytes     *)
(* arrive in order and once, and credit is neither lost nor made up.       *)
(*                                                                         *)
(* The sequences of frames cannot be summed here (that takes induction),   *)
(* so a line is described by a path: a function that says, for every       *)
(* prefix of the line, which position of the stream it leads to. Adding a  *)
(* frame extends the path, taking one shifts it.                           *)
(***************************************************************************)
EXTENDS Mux, FiniteSetTheorems, SequenceTheorems, TLAPS

-----------------------------------------------------------------------------
(* The memory bound of the stream layer. *)

Kinds == {"OPEN", "DATA", "WINDOW_UPDATE", "FIN", "RESET"}
Causes == {"", "closed", "reset", "protocol"}
Frames == [type : Kinds, id : Ids, size : Nat, first : Int]

\* A stream object, with only the bounds that the accounting needs.
Raw == [available : Nat, pending : Nat, finished : BOOLEAN, credit : Int, owed : Int,
        queue : [0 .. StreamWindowBytes - 1 -> Int], readIndex : Int, buffered : Nat,
        writeClosed : BOOLEAN, err : Causes]
Booked(s) == s.buffered = s.pending /\ s.available + s.pending = StreamWindowBytes
Objects == {s \in Raw : Booked(s)}

\* The part of the state that the accounting depends on.
Shape ==
  /\ streams \in [Ends -> SUBSET Ids]
  /\ stream \in [Ends \X Ids -> Objects]
  /\ accepted \in [Ends -> Seq(Ids)]
  /\ link \in [Ends -> Seq(Frames)]
  /\ held \in [Ends -> SUBSET Ids]
  /\ lastLocal \in [Ends -> Nat]
  /\ want \in [Ends \X Ids -> Nat] /\ wrote \in [Ends \X Ids -> Nat]

\* The streams of a mux, and those that wait for Accept, are within the limit.
Within(S) == Cardinality(S) <= MaxStreams
Limits == \A e \in Ends : Within(streams[e]) /\ Len(accepted[e]) <= MaxStreams

MuxInv == Shape /\ Limits

-----------------------------------------------------------------------------
(* The sets and the frames that the steps make.                            *)

\* A set of stream ids is finite, and taking one id out keeps it within the limit.
LEMMA IdsWithin ==
  ASSUME NEW S \in SUBSET Ids, Within(S), NEW id
  PROVE  Within(S \ {id}) /\ Within({})
<1>1. IsFiniteSet(Ids) BY FS_Interval, MuxAssumption DEF Ids
<1>2. IsFiniteSet(S) BY <1>1, FS_Subset
<1>3. Cardinality(S \ {id}) <= Cardinality(S) BY <1>2, FS_Subset
<1>4. Cardinality(S \ {id}) \in Nat /\ Cardinality(S) \in Nat
  BY <1>2, FS_Subset, FS_CardinalityType
<1>5. Cardinality({}) = 0 BY FS_EmptySet
<1> QED BY <1>3, <1>4, <1>5, MuxAssumption DEF Within

\* A mux below its limit may take one more stream, as Open and admitOpen do.
LEMMA OneMore ==
  ASSUME NEW S \in SUBSET Ids, Within(S), Cardinality(S) # MaxStreams, NEW id \in Ids
  PROVE  Within(S \cup {id})
<1>1. IsFiniteSet(Ids) BY FS_Interval, MuxAssumption DEF Ids
<1>2. IsFiniteSet(S) BY <1>1, FS_Subset
<1>3. Cardinality(S) \in Nat BY <1>2, FS_CardinalityType
<1>4. Cardinality(S \cup {id}) = IF id \in S THEN Cardinality(S) ELSE Cardinality(S) + 1
  BY <1>2, FS_AddElement
<1>5. Cardinality(S \cup {id}) \in Nat BY <1>2, FS_AddElement, FS_CardinalityType
<1> QED BY <1>3, <1>4, <1>5, MuxAssumption DEF Within

\* A stream that create makes, or that has ended, holds nothing of its reservation.
LEMMA FreshIsObject ==
  /\ Fresh \in Objects
  /\ \A c \in Causes : Dead(c) \in Objects
  /\ \A n \in Nat : [Fresh EXCEPT !.credit = n] \in Objects
<1>1. [i \in 0 .. StreamWindowBytes - 1 |-> 0] \in [0 .. StreamWindowBytes - 1 -> Int]
  OBVIOUS
<1>2. ASSUME NEW q \in [0 .. StreamWindowBytes - 1 -> Int], NEW n \in Int, NEW c \in Causes
      PROVE  [available |-> StreamWindowBytes, pending |-> 0, finished |-> FALSE,
              credit |-> n, owed |-> 0, queue |-> q, readIndex |-> 0,
              buffered |-> 0, writeClosed |-> FALSE, err |-> c] \in Objects
  BY MuxAssumption DEF Objects, Raw, Booked
<1>3. NoWindow \in Int BY DEF NoWindow
<1>4. "" \in Causes BY DEF Causes
<1>5. Fresh \in Objects BY <1>1, <1>2, <1>3, <1>4, Zenon DEF Fresh
<1>6. ASSUME NEW s \in Objects, NEW c \in Causes PROVE [s EXCEPT !.err = c] \in Objects
  <2>1. [s EXCEPT !.err = c] \in Raw BY DEF Objects, Raw
  <2>2. Booked([s EXCEPT !.err = c]) BY DEF Objects, Raw, Booked
  <2> QED BY <2>1, <2>2 DEF Objects
<1>7. ASSUME NEW s \in Objects, NEW n \in Nat PROVE [s EXCEPT !.credit = n] \in Objects
  <2>1. [s EXCEPT !.credit = n] \in Raw BY DEF Objects, Raw
  <2>2. Booked([s EXCEPT !.credit = n]) BY DEF Objects, Raw, Booked
  <2> QED BY <2>1, <2>2 DEF Objects
<1> QED BY <1>5, <1>6, <1>7 DEF Dead

\* Control frames are frames.
LEMMA SignalIsFrame ==
  ASSUME NEW type \in Kinds, NEW id \in Ids, NEW size \in Nat
  PROVE  <<Signal(type, id, size)>> \in Seq(Frames)
BY DEF Signal, Frame, Frames

\* So is everything Write sends for the credit it has.
LEMMA DataAreFrames ==
  ASSUME NEW id \in Ids, NEW first \in Nat, NEW size \in Nat \ {0}
  PROVE  dataFrames(id, first, size) \in Seq(Frames)
<1> DEFINE count == (size + MaxDataBytes - 1) \div MaxDataBytes
           start(i) == (i - 1) * MaxDataBytes
           frame(i) == Frame("DATA", id, IF i < count THEN MaxDataBytes ELSE size - start(i),
                             first + start(i))
<1>1. count \in Nat /\ (count - 1) * MaxDataBytes < size
  BY MuxAssumption
<1>2. ASSUME NEW i \in 1 .. count PROVE frame(i) \in Frames
  <2>1. start(i) \in Int BY MuxAssumption
  <2>2. i = count => size - start(i) \in Nat
    <3> SUFFICES ASSUME i = count PROVE size - start(count) \in Nat OBVIOUS
    <3>1. start(count) \in Int BY <1>1, MuxAssumption
    <3>2. start(count) < size BY <1>1
    <3> HIDE DEF start, count
    <3> QED BY <3>1, <3>2
  <2>3. i < count \/ i = count BY <1>1
  <2> DEFINE bytes == IF i < count THEN MaxDataBytes ELSE size - start(i)
             from == first + start(i)
  <2>4. bytes \in Nat
    <3> HIDE DEF count, start
    <3> QED BY <2>2, <2>3, MuxAssumption
  <2>5. from \in Int
    <3> HIDE DEF start
    <3> QED BY <2>1
  <2> HIDE DEF bytes, from
  <2>6. Frame("DATA", id, bytes, from) \in Frames BY <2>4, <2>5 DEF Frame, Frames, Kinds
  <2> QED BY <2>6 DEF bytes, from
<1>3. [i \in 1 .. count |-> frame(i)] \in Seq(Frames)
  <2> HIDE DEF frame, count
  <2> QED BY <1>1, <1>2
<1> QED BY <1>3 DEF dataFrames

-----------------------------------------------------------------------------
(* What an operation makes of a stream keeps its accounts.                 *)

\* consume gives back exactly what it takes out of the buffer.
LEMMA ConsumedIsObject ==
  ASSUME NEW s \in Objects, NEW size \in 1 .. s.buffered
  PROVE  consumed(s, size) \in Objects
<1>1. s \in Raw /\ Booked(s) BY DEF Objects
<1>2. /\ s.pending - size \in Nat /\ s.buffered - size \in Nat /\ s.available + size \in Nat
      /\ (s.readIndex + size) % StreamWindowBytes \in Int
  <2>1. s.pending \in Nat /\ s.buffered \in Nat /\ s.available \in Nat /\ s.readIndex \in Int
    BY <1>1 DEF Raw
  <2>2. s.pending = s.buffered BY <1>1 DEF Booked
  <2>3. size \in Nat /\ size <= s.buffered BY <2>1
  <2>4. s.pending - size \in Nat /\ s.buffered - size \in Nat /\ s.available + size \in Nat
    BY <2>1, <2>2, <2>3
  <2>5. ASSUME NEW n \in Int PROVE n % StreamWindowBytes \in Int BY MuxAssumption
  <2>6. s.readIndex + size \in Int BY <2>1, <2>3
  <2> QED BY <2>4, <2>5, <2>6, Zenon
<1>3. consumed(s, size) \in Raw BY <1>1, <1>2 DEF consumed, Raw
<1>4. Booked(consumed(s, size)) BY <1>1 DEF consumed, Raw, Booked
<1> QED BY <1>3, <1>4 DEF Objects

\* enqueue leaves a ring of the same size.
LEMMA EnqueueIsRing ==
  ASSUME NEW s \in Objects, NEW f \in Frames
  PROVE  enqueue(s, f) \in [0 .. StreamWindowBytes - 1 -> Int]
<1> DEFINE W == 0 .. StreamWindowBytes - 1
           d(i) == i - s.readIndex - s.buffered
           value(i) == IF d(i) % StreamWindowBytes < f.size
                       THEN f.first + (d(i) % StreamWindowBytes) ELSE s.queue[i]
<1>1. s.queue \in [W -> Int] /\ s.readIndex \in Int /\ s.buffered \in Int
  BY DEF Objects, Raw
<1>2. f.first \in Int BY DEF Frames
<1>3. ASSUME NEW n \in Int PROVE n % StreamWindowBytes \in Int BY MuxAssumption
<1>4. ASSUME NEW i \in W PROVE value(i) \in Int
  <2>1. d(i) \in Int BY <1>1
  <2>2. d(i) % StreamWindowBytes \in Int
    <3> HIDE DEF d
    <3> QED BY <2>1, <1>3
  <2>3. f.first + (d(i) % StreamWindowBytes) \in Int
    <3> DEFINE r == d(i) % StreamWindowBytes
    <3> HIDE DEF r
    <3>1. f.first + r \in Int BY <1>2, <2>2 DEF r
    <3> QED BY <3>1 DEF r
  <2>4. s.queue[i] \in Int
    <3> HIDE DEF W
    <3> QED BY <1>1
  <2> QED BY <2>3, <2>4, Zenon
<1>5. enqueue(s, f) = [i \in W |-> value(i)]
  <2>1. DOMAIN s.queue = W BY <1>1, Zenon
  <2> QED BY <2>1, Zenon DEF enqueue
<1>6. [i \in W |-> value(i)] \in [W -> Int]
  <2> HIDE DEF W, value
  <2> QED BY <1>4
<1> QED BY <1>5, <1>6

\* A frame the windows admit keeps buffered, pending and available in step.
LEMMA AppliedIsObject ==
  ASSUME NEW s \in Objects, NEW f \in Frames, f.type # "OPEN", admissible(f, s)
  PROVE  applied(f, s) \in Objects
<1>1. s \in Raw /\ Booked(s) BY DEF Objects
<1>2. f.type \in Kinds /\ f.size \in Nat BY DEF Frames
<1>3. CASE f.type = "DATA"
  <2> DEFINE q == enqueue(s, f)
  <2>1. q \in [0 .. StreamWindowBytes - 1 -> Int] BY EnqueueIsRing
  <2>2. f.size <= s.available BY <1>3 DEF admissible
  <2> HIDE DEF q
  <2> DEFINE t == [s EXCEPT !.available = @ - f.size, !.pending = @ + f.size,
                            !.queue = q, !.buffered = @ + f.size]
  <2>3. s.available - f.size \in Nat /\ s.pending + f.size \in Nat /\ s.buffered + f.size \in Nat
    BY <1>1, <1>2, <2>2 DEF Raw
  <2>4. t \in Raw BY <1>1, <2>1, <2>3 DEF Raw
  <2>5. Booked(t) BY <1>1, <1>2 DEF Raw, Booked
  <2>6. applied(f, s) = t BY <1>3 DEF applied, q
  <2> QED BY <2>4, <2>5, <2>6 DEF Objects
<1>4. CASE f.type = "WINDOW_UPDATE"
  <2> DEFINE t == IF s.credit = NoWindow THEN [s EXCEPT !.credit = f.size]
                  ELSE [s EXCEPT !.credit = @ + f.size, !.owed = @ - f.size]
  <2>1. t \in Raw
    <3>1. [s EXCEPT !.credit = f.size] \in Raw BY <1>1, <1>2 DEF Raw
    <3>2. s.credit + f.size \in Int /\ s.owed - f.size \in Int BY <1>1, <1>2 DEF Raw
    <3>3. [s EXCEPT !.credit = @ + f.size, !.owed = @ - f.size] \in Raw
      BY <1>1, <3>2 DEF Raw
    <3> QED BY <3>1, <3>3
  <2>2. Booked(t) BY <1>1 DEF Raw, Booked
  <2>3. applied(f, s) = t BY <1>4 DEF applied
  <2> QED BY <2>1, <2>2, <2>3 DEF Objects
<1>5. CASE f.type = "FIN"
  <2> DEFINE t == [s EXCEPT !.finished = TRUE]
  <2>1. t \in Raw BY <1>1 DEF Raw
  <2>2. Booked(t) BY <1>1 DEF Raw, Booked
  <2>3. applied(f, s) = t BY <1>5 DEF applied
  <2> QED BY <2>1, <2>2, <2>3 DEF Objects
<1>6. CASE f.type = "RESET"
  <2>1. applied(f, s) = Dead("reset") BY <1>6 DEF applied
  <2> QED BY <2>1, FreshIsObject DEF Causes
<1> QED BY <1>2, <1>3, <1>4, <1>5, <1>6 DEF Kinds

\* Write does not touch what was received.
LEMMA WriterKeepsObject ==
  ASSUME NEW s \in Objects, NEW size \in Int
  PROVE  [s EXCEPT !.credit = @ - size, !.owed = @ + size] \in Objects
<1>1. s \in Raw /\ Booked(s) BY DEF Objects
<1>2. [s EXCEPT !.credit = @ - size, !.owed = @ + size] \in Raw
  <2>1. s.credit - size \in Int /\ s.owed + size \in Int BY <1>1 DEF Raw
  <2> QED BY <1>1, <2>1 DEF Raw
<1>3. Booked([s EXCEPT !.credit = @ - size, !.owed = @ + size]) BY <1>1 DEF Raw, Booked
<1> QED BY <1>2, <1>3 DEF Objects

\* Nor does CloseWrite.
LEMMA HalfCloseKeepsObject ==
  ASSUME NEW s \in Objects
  PROVE  [s EXCEPT !.writeClosed = TRUE] \in Objects
<1>1. s \in Raw /\ Booked(s) BY DEF Objects
<1>2. [s EXCEPT !.writeClosed = TRUE] \in Raw BY <1>1 DEF Raw
<1>3. Booked([s EXCEPT !.writeClosed = TRUE]) BY <1>1 DEF Raw, Booked
<1> QED BY <1>2, <1>3 DEF Objects

-----------------------------------------------------------------------------
(* The building blocks of the actions.                                     *)

\* The streams part of MuxInv', which most steps leave to Put or fail.
StreamsKept ==
  /\ streams' \in [Ends -> SUBSET Ids]
  /\ stream' \in [Ends \X Ids -> Objects]
  /\ \A d \in Ends : Within(streams'[d])

\* The queue of streams that wait for Accept.
AcceptedKept ==
  /\ accepted' \in [Ends -> Seq(Ids)]
  /\ \A d \in Ends : Len(accepted'[d]) <= MaxStreams

\* Put stores an object and at most takes its id out of the mux.
LEMMA PutKeeps ==
  ASSUME MuxInv, NEW e \in Ends, NEW id \in Ids, NEW s \in Objects, Put(e, id, s)
  PROVE  StreamsKept
<1>1. stream' \in [Ends \X Ids -> Objects] BY DEF MuxInv, Shape, Put
<1>2. streams' \in [Ends -> SUBSET Ids] BY DEF MuxInv, Shape, Put
<1>3. ASSUME NEW d \in Ends PROVE Within(streams'[d])
  <2>1. streams[d] \in SUBSET Ids /\ Within(streams[d]) BY DEF MuxInv, Shape, Limits
  <2>2. streams'[d] = streams[d] \/ streams'[d] = streams[d] \ {id}
    BY DEF MuxInv, Shape, Put
  <2> QED BY <2>1, <2>2, IdsWithin
<1> QED BY <1>1, <1>2, <1>3 DEF StreamsKept

\* fail empties the mux, and the queue with it.
LEMMA FailKeeps ==
  ASSUME MuxInv, NEW e \in Ends, NEW c \in Causes, fail(e, c)
  PROVE  StreamsKept /\ AcceptedKept
<1>1. Dead(c) \in Objects BY FreshIsObject
<1>2. stream' \in [Ends \X Ids -> Objects] BY <1>1 DEF MuxInv, Shape, fail
<1>3. streams' \in [Ends -> SUBSET Ids] BY DEF MuxInv, Shape, fail
<1>4. ASSUME NEW d \in Ends PROVE Within(streams'[d])
  <2>1. streams[d] \in SUBSET Ids /\ Within(streams[d]) BY DEF MuxInv, Shape, Limits
  <2>2. streams'[d] = streams[d] \/ streams'[d] = {} BY DEF MuxInv, Shape, fail
  <2> QED BY <2>1, <2>2, IdsWithin
<1>5. accepted' \in [Ends -> Seq(Ids)] BY DEF MuxInv, Shape, fail
<1>6. ASSUME NEW d \in Ends PROVE Len(accepted'[d]) <= MaxStreams
  <2>1. Len(accepted[d]) <= MaxStreams BY DEF MuxInv, Limits
  <2>2. accepted'[d] = accepted[d] \/ accepted'[d] = <<>> BY DEF MuxInv, Shape, fail
  <2> QED BY <2>1, <2>2, MuxAssumption
<1> QED BY <1>2, <1>3, <1>4, <1>5, <1>6 DEF StreamsKept, AcceptedKept

\* send appends frames to what is on its way to the other end.
LEMMA SendKeeps ==
  ASSUME MuxInv, NEW e \in Ends, NEW fs \in Seq(Frames), Send(e, fs)
  PROVE  link' \in [Ends -> Seq(Frames)]
<1>1. toPeer(e, fs) \in Seq(Frames)
  <2>1. <<>> \in Seq(Frames) BY EmptySeq
  <2> QED BY <2>1 DEF toPeer
<1>2. Peer(e) \in Ends BY DEF Peer, Ends
<1>3. link[Peer(e)] \o toPeer(e, fs) \in Seq(Frames)
  BY <1>1, <1>2, ConcatProperties DEF MuxInv, Shape
<1> QED BY <1>2, <1>3 DEF MuxInv, Shape, Send

\* receive takes one frame and may send an answer.
LEMMA TakeKeeps ==
  ASSUME MuxInv, NEW e \in Ends, NEW fs \in Seq(Frames), Take(e, fs)
  PROVE  Head(link[e]) \in Frames /\ link' \in [Ends -> Seq(Frames)]
<1>1. toPeer(e, fs) \in Seq(Frames)
  <2>1. <<>> \in Seq(Frames) BY EmptySeq
  <2> QED BY <2>1 DEF toPeer
<1>2. Peer(e) \in Ends /\ Peer(e) # e BY DEF Peer, Ends
<1>3. link[Peer(e)] \o toPeer(e, fs) \in Seq(Frames)
  BY <1>1, <1>2, ConcatProperties DEF MuxInv, Shape
<1>4. link[e] \in Seq(Frames) /\ link[e] # <<>> BY DEF MuxInv, Shape, Take
<1>5. Head(link[e]) \in Frames /\ Tail(link[e]) \in Seq(Frames)
  BY <1>4, HeadTailProperties
<1>6. link' \in [Ends -> Seq(Frames)]
  BY <1>2, <1>3, <1>5 DEF MuxInv, Shape, Take
<1> QED BY <1>5, <1>6

\* MuxInv' from its parts.
LEMMA PartsMakeInv ==
  ASSUME StreamsKept, AcceptedKept, link' \in [Ends -> Seq(Frames)],
         held' \in [Ends -> SUBSET Ids], lastLocal' \in [Ends -> Nat],
         want' \in [Ends \X Ids -> Nat], wrote' \in [Ends \X Ids -> Nat]
  PROVE  MuxInv'
BY DEF StreamsKept, AcceptedKept, MuxInv, Shape, Limits

\* What a step leaves alone is kept.
LEMMA UnchangedKeeps ==
  ASSUME MuxInv
  PROVE  /\ UNCHANGED <<streams, stream>> => StreamsKept
         /\ UNCHANGED accepted => AcceptedKept
         /\ UNCHANGED link => link' \in [Ends -> Seq(Frames)]
         /\ UNCHANGED held => held' \in [Ends -> SUBSET Ids]
         /\ UNCHANGED lastLocal => lastLocal' \in [Ends -> Nat]
         /\ UNCHANGED want => want' \in [Ends \X Ids -> Nat]
         /\ UNCHANGED wrote => wrote' \in [Ends \X Ids -> Nat]
BY DEF StreamsKept, AcceptedKept, MuxInv, Shape, Limits

-----------------------------------------------------------------------------
(* The steps.                                                              *)

\* Open refuses at the limit, so one more stream fits.
LEMMA OpenKeeps ==
  ASSUME MuxInv, NEW e \in Ends, Open(e)
  PROVE  MuxInv'
<1> DEFINE id == nextId(lastLocal[e], e = "init")
<1>1. id \in Nat /\ id \in Ids
  <2>1. lastLocal[e] \in Nat BY DEF MuxInv, Shape
  <2>2. id \in Nat \ {0} BY <2>1 DEF nextId
  <2>3. id <= MaxId BY DEF Open
  <2> HIDE DEF id
  <2> QED BY <2>2, <2>3, MuxAssumption DEF Ids
<1> HIDE DEF id
<1>2. StreamsKept
  <2>1. streams' = [streams EXCEPT ![e] = @ \cup {id}] /\ UNCHANGED stream BY DEF Open, id
  <2>2. streams' \in [Ends -> SUBSET Ids] BY <1>1, <2>1 DEF MuxInv, Shape
  <2>3. ASSUME NEW d \in Ends PROVE Within(streams'[d])
    <3>1. streams[d] \in SUBSET Ids /\ Within(streams[d]) BY DEF MuxInv, Shape, Limits
    <3>2. streams'[d] = IF d = e THEN streams[e] \cup {id} ELSE streams[d]
      BY <2>1 DEF MuxInv, Shape
    <3>3. Cardinality(streams[e]) # MaxStreams BY DEF Open
    <3> QED BY <1>1, <3>1, <3>2, <3>3, OneMore
  <2> QED BY <2>1, <2>2, <2>3 DEF StreamsKept, MuxInv, Shape
<1>3. link' \in [Ends -> Seq(Frames)]
  <2>1. StreamWindowBytes \in Nat /\ "OPEN" \in Kinds BY MuxAssumption DEF Kinds
  <2>2. <<Signal("OPEN", id, StreamWindowBytes)>> \in Seq(Frames) BY <1>1, <2>1, SignalIsFrame
  <2>3. Send(e, <<Signal("OPEN", id, StreamWindowBytes)>>) BY DEF Open, id
  <2> QED BY <2>2, <2>3, SendKeeps
<1>4. held' \in [Ends -> SUBSET Ids] /\ lastLocal' \in [Ends -> Nat]
  <2>1. held' = [held EXCEPT ![e] = @ \cup {id}] /\ lastLocal' = [lastLocal EXCEPT ![e] = id]
    BY DEF Open, id
  <2> QED BY <1>1, <2>1 DEF MuxInv, Shape
<1>5. UNCHANGED <<accepted, want, wrote>> BY DEF Open
<1> QED BY <1>2, <1>3, <1>4, <1>5, PartsMakeInv, UnchangedKeeps

\* Accept takes a stream out of the queue.
LEMMA AcceptKeeps ==
  ASSUME MuxInv, NEW e \in Ends, Accept(e)
  PROVE  MuxInv'
<1>1. accepted[e] \in Seq(Ids) /\ accepted[e] # <<>> BY DEF MuxInv, Shape, Accept
<1>2. Head(accepted[e]) \in Ids /\ Tail(accepted[e]) \in Seq(Ids)
      /\ Len(Tail(accepted[e])) = Len(accepted[e]) - 1
  BY <1>1, HeadTailProperties
<1>3. AcceptedKept
  <2>1. accepted' = [accepted EXCEPT ![e] = Tail(accepted[e])] BY DEF Accept
  <2>2. accepted' \in [Ends -> Seq(Ids)] BY <1>2, <2>1 DEF MuxInv, Shape
  <2>3. ASSUME NEW d \in Ends PROVE Len(accepted'[d]) <= MaxStreams
    <3>1. Len(accepted[d]) <= MaxStreams /\ Len(accepted[d]) \in Nat
      BY LenProperties DEF MuxInv, Limits, Shape
    <3>2. accepted'[d] = IF d = e THEN Tail(accepted[e]) ELSE accepted[d]
      BY <2>1 DEF MuxInv, Shape
    <3> QED BY <1>2, <3>1, <3>2, MuxAssumption
  <2> QED BY <2>2, <2>3 DEF AcceptedKept
<1>4. held' \in [Ends -> SUBSET Ids]
  <2> DEFINE id == Head(accepted[e])
             more == IF acceptable(e, id) THEN held[e] \cup {id} ELSE held[e]
  <2>1. more \in SUBSET Ids BY <1>2 DEF MuxInv, Shape
  <2>2. held' = [held EXCEPT ![e] = more] BY DEF Accept
  <2> HIDE DEF more
  <2> QED BY <2>1, <2>2 DEF MuxInv, Shape
<1>5. UNCHANGED <<streams, stream, link, lastLocal, want, wrote>> BY DEF Accept
<1> QED BY <1>3, <1>4, <1>5, PartsMakeInv, UnchangedKeeps

\* admitOpen refuses a stream at either limit.
LEMMA AdmitOpenKeeps ==
  ASSUME MuxInv, NEW e \in Ends, admitOpen(e)
  PROVE  MuxInv'
<1> DEFINE f == Head(link[e])
           ok == f.id = nextId(lastRemote[e], e # "init") /\ f.size \in 1 .. StreamWindowBytes
<1>0. "RESET" \in Kinds /\ "WINDOW_UPDATE" \in Kinds /\ StreamWindowBytes \in Nat
      /\ "protocol" \in Causes /\ <<>> \in Seq(Frames)
  BY MuxAssumption, EmptySeq DEF Kinds, Causes
<1>1. UNCHANGED <<held, lastLocal, want, wrote>> BY DEF admitOpen
<1>2. f \in Frames
  <2>1. link[e] \in Seq(Frames) /\ link[e] # <<>> BY DEF MuxInv, Shape, admitOpen
  <2> QED BY <2>1, HeadTailProperties
<1>3. f.id \in Ids /\ f.size \in Nat BY <1>2 DEF Frames
<1>4. CASE ~ok
  <2>1. Take(e, <<>>) /\ fail(e, "protocol") BY <1>4 DEF admitOpen
  <2>2. link' \in [Ends -> Seq(Frames)] BY <1>0, <2>1, TakeKeeps
  <2>3. StreamsKept /\ AcceptedKept BY <1>0, <2>1, FailKeeps
  <2> QED BY <1>1, <2>2, <2>3, PartsMakeInv, UnchangedKeeps
<1>5. CASE ok /\ atLimit(e)
  <2>1. Take(e, <<Signal("RESET", f.id, 0)>>) /\ UNCHANGED <<stream, streams, accepted>>
    BY <1>5 DEF admitOpen
  <2>2. <<Signal("RESET", f.id, 0)>> \in Seq(Frames) BY <1>0, <1>3, SignalIsFrame
  <2>3. link' \in [Ends -> Seq(Frames)] BY <2>1, <2>2, TakeKeeps
  <2> QED BY <1>1, <2>1, <2>3, PartsMakeInv, UnchangedKeeps
<1>6. CASE ok /\ ~atLimit(e)
  <2> DEFINE s == [Fresh EXCEPT !.credit = f.size]
  <2>1. /\ Take(e, <<Signal("WINDOW_UPDATE", f.id, StreamWindowBytes)>>)
        /\ stream' = [stream EXCEPT ![<<e, f.id>>] = s]
        /\ streams' = [streams EXCEPT ![e] = @ \cup {f.id}]
        /\ accepted' = [accepted EXCEPT ![e] = Append(@, f.id)]
    BY <1>6 DEF admitOpen
  <2>2. <<Signal("WINDOW_UPDATE", f.id, StreamWindowBytes)>> \in Seq(Frames)
    BY <1>0, <1>3, SignalIsFrame
  <2>3. link' \in [Ends -> Seq(Frames)] BY <2>1, <2>2, TakeKeeps
  <2>4. s \in Objects BY <1>3, FreshIsObject
  <2> HIDE DEF f, s
  <2>5. StreamsKept
    <3>1. stream' \in [Ends \X Ids -> Objects] BY <1>3, <2>1, <2>4 DEF MuxInv, Shape
    <3>2. streams' \in [Ends -> SUBSET Ids] BY <1>3, <2>1 DEF MuxInv, Shape
    <3>3. ASSUME NEW d \in Ends PROVE Within(streams'[d])
      <4>1. streams[d] \in SUBSET Ids /\ Within(streams[d]) BY DEF MuxInv, Shape, Limits
      <4>2. streams'[d] = IF d = e THEN streams[e] \cup {f.id} ELSE streams[d]
        BY <2>1 DEF MuxInv, Shape
      <4>3. Cardinality(streams[e]) # MaxStreams BY <1>6 DEF atLimit
      <4> QED BY <1>3, <4>1, <4>2, <4>3, OneMore
    <3> QED BY <3>1, <3>2, <3>3 DEF StreamsKept
  <2>6. AcceptedKept
    <3>1. accepted[e] \in Seq(Ids) BY DEF MuxInv, Shape
    <3>2. Append(accepted[e], f.id) \in Seq(Ids)
          /\ Len(Append(accepted[e], f.id)) = Len(accepted[e]) + 1
      BY <1>3, <3>1, AppendProperties
    <3>3. accepted' \in [Ends -> Seq(Ids)] BY <2>1, <3>2 DEF MuxInv, Shape
    <3>4. ASSUME NEW d \in Ends PROVE Len(accepted'[d]) <= MaxStreams
      <4>1. Len(accepted[d]) <= MaxStreams /\ Len(accepted[d]) \in Nat
        BY LenProperties DEF MuxInv, Limits, Shape
      <4>2. accepted'[d] = IF d = e THEN Append(accepted[e], f.id) ELSE accepted[d]
        BY <2>1 DEF MuxInv, Shape
      <4>3. Len(accepted[e]) # MaxStreams BY <1>6 DEF atLimit
      <4> QED BY <3>2, <4>1, <4>2, <4>3, MuxAssumption
    <3> QED BY <3>3, <3>4 DEF AcceptedKept
  <2> QED BY <1>1, <2>3, <2>5, <2>6, PartsMakeInv, UnchangedKeeps
<1> QED BY <1>4, <1>5, <1>6

\* A frame for a stream is applied, ignored, or fails the mux.
LEMMA AdmitKeeps ==
  ASSUME MuxInv, NEW e \in Ends, admitRetired(e) \/ admit(e)
  PROVE  MuxInv'
<1> DEFINE f == Head(link[e])
           s == stream[e, f.id]
<1>0. "protocol" \in Causes /\ <<>> \in Seq(Frames) BY EmptySeq DEF Causes
<1>1. UNCHANGED <<held, lastLocal, want, wrote>> /\ Take(e, <<>>) BY DEF admitRetired, admit
<1>2. f \in Frames /\ link' \in [Ends -> Seq(Frames)] BY <1>0, <1>1, TakeKeeps
<1>3. f.id \in Ids BY <1>2 DEF Frames
<1>4. s \in Objects BY <1>3 DEF MuxInv, Shape
<1>5. \/ UNCHANGED <<stream, streams, accepted>>
      \/ fail(e, "protocol")
      \/ /\ f.type # "OPEN" /\ admissible(f, s)
         /\ Put(e, f.id, applied(f, s)) /\ UNCHANGED accepted
  BY DEF admitRetired, admit
<1>6. CASE UNCHANGED <<stream, streams, accepted>>
  BY <1>1, <1>2, <1>6, PartsMakeInv, UnchangedKeeps
<1>7. CASE fail(e, "protocol")
  <2>1. StreamsKept /\ AcceptedKept BY <1>0, <1>7, FailKeeps
  <2> QED BY <1>1, <1>2, <2>1, PartsMakeInv, UnchangedKeeps
<1>8. CASE /\ f.type # "OPEN" /\ admissible(f, s)
           /\ Put(e, f.id, applied(f, s)) /\ UNCHANGED accepted
  <2>1. applied(f, s) \in Objects BY <1>2, <1>4, <1>8, AppliedIsObject
  <2>2. StreamsKept BY <1>3, <1>8, <2>1, PutKeeps
  <2> QED BY <1>1, <1>2, <1>8, <2>2, PartsMakeInv, UnchangedKeeps
<1> QED BY <1>5, <1>6, <1>7, <1>8

\* Read returns credit for what it consumed.
LEMMA ReadKeeps ==
  ASSUME MuxInv, NEW e \in Ends, NEW id \in Ids, Read(e, id)
  PROVE  MuxInv'
<1> DEFINE s == stream[e, id]
<1>1. s \in Objects BY DEF MuxInv, Shape
<1>2. PICK size \in 1 .. s.buffered :
        Put(e, id, consumed(s, size)) /\ Send(e, creditBack(s, id, size))
  BY DEF Read
<1>3. s.buffered \in Nat BY <1>1 DEF Objects, Raw
<1> HIDE DEF s
<1>4. size \in Nat /\ "WINDOW_UPDATE" \in Kinds BY <1>3 DEF Kinds
<1>5. creditBack(s, id, size) \in Seq(Frames) BY <1>4, SignalIsFrame DEF creditBack
<1>6. link' \in [Ends -> Seq(Frames)] BY <1>2, <1>5, SendKeeps
<1>7. consumed(s, size) \in Objects BY <1>1, ConsumedIsObject
<1>8. StreamsKept BY <1>2, <1>7, PutKeeps
<1>9. UNCHANGED <<accepted, held, lastLocal, want, wrote>> BY DEF Read
<1> QED BY <1>6, <1>8, <1>9, PartsMakeInv, UnchangedKeeps

\* Write spends credit and sends what it covers.
LEMMA WriteKeeps ==
  ASSUME MuxInv, NEW e \in Ends, NEW id \in Ids, Write(e, id)
  PROVE  MuxInv'
<1> DEFINE s == stream[e, id]
           size == IF s.credit < want[e, id] THEN s.credit ELSE want[e, id]
<1>1. s \in Objects BY DEF MuxInv, Shape
<1>2. want[e, id] \in Nat /\ wrote[e, id] \in Nat BY DEF MuxInv, Shape
<1>3. s.credit \in Int BY <1>1 DEF Objects, Raw
<1>4. s.credit > 0 /\ want[e, id] > 0 BY DEF Write, writing
<1>5. /\ Put(e, id, [s EXCEPT !.credit = @ - size, !.owed = @ + size])
      /\ Send(e, dataFrames(id, wrote[e, id] + 1, size))
      /\ wrote' = [wrote EXCEPT ![<<e, id>>] = @ + size]
      /\ want' = [want EXCEPT ![<<e, id>>] = @ - size]
  BY DEF Write
<1>6. /\ size \in Nat \ {0} /\ size \in Int
      /\ want[e, id] - size \in Nat /\ wrote[e, id] + size \in Nat /\ wrote[e, id] + 1 \in Nat
  <2> DEFINE credit == s.credit
             left == want[e, id]
             done == wrote[e, id]
  <2>1. credit \in Int /\ left \in Nat /\ done \in Nat /\ credit > 0 /\ left > 0
    BY <1>2, <1>3, <1>4
  <2>2. size = IF credit < left THEN credit ELSE left OBVIOUS
  <2> HIDE DEF credit, left, done, size
  <2>3. /\ size \in Nat \ {0} /\ size \in Int
        /\ left - size \in Nat /\ done + size \in Nat /\ done + 1 \in Nat
    BY <2>1, <2>2
  <2> QED BY <2>3 DEF left, done
<1> HIDE DEF size
<1>7. link' \in [Ends -> Seq(Frames)] BY <1>5, <1>6, DataAreFrames, SendKeeps
<1>8. StreamsKept
  <2>1. size \in Int BY <1>6, Zenon
  <2>2. [s EXCEPT !.credit = @ - size, !.owed = @ + size] \in Objects
    BY <1>1, <2>1, WriterKeepsObject
  <2> QED BY <1>5, <2>2, PutKeeps
<1>9. wrote' \in [Ends \X Ids -> Nat] /\ want' \in [Ends \X Ids -> Nat]
  BY <1>5, <1>6 DEF MuxInv, Shape
<1>10. UNCHANGED <<accepted, held, lastLocal>> BY DEF Write
<1> QED BY <1>7, <1>8, <1>9, <1>10, PartsMakeInv, UnchangedKeeps

\* CloseWrite sends FIN, Close of a stream RESET unless it has retired.
LEMMA ClosingKeeps ==
  ASSUME MuxInv, NEW e \in Ends, NEW id \in Ids, CloseWrite(e, id) \/ CloseStream(e, id)
  PROVE  MuxInv'
<1> DEFINE s == stream[e, id]
<1>0. /\ {"FIN", "RESET"} \subseteq Kinds /\ 0 \in Nat /\ "closed" \in Causes
  BY DEF Kinds, Causes
<1>1. s \in Objects BY DEF MuxInv, Shape
<1>2. [s EXCEPT !.writeClosed = TRUE] \in Objects BY <1>1, HalfCloseKeepsObject
<1>3. Dead("closed") \in Objects BY <1>0, FreshIsObject
<1>4. <<Signal("FIN", id, 0)>> \in Seq(Frames) /\ <<Signal("RESET", id, 0)>> \in Seq(Frames)
  BY <1>0, SignalIsFrame
<1>5. UNCHANGED <<accepted, held, lastLocal, want, wrote>> BY DEF CloseWrite, CloseStream
<1>6. StreamsKept
  <2>1. Put(e, id, [s EXCEPT !.writeClosed = TRUE]) \/ Put(e, id, Dead("closed"))
    BY DEF CloseWrite, CloseStream
  <2> QED BY <1>2, <1>3, <2>1, PutKeeps
<1>7. link' \in [Ends -> Seq(Frames)]
  <2>1. \/ Send(e, <<Signal("FIN", id, 0)>>) \/ Send(e, <<Signal("RESET", id, 0)>>)
        \/ UNCHANGED link
    BY DEF CloseWrite, CloseStream
  <2> QED BY <1>4, <2>1, SendKeeps, UnchangedKeeps
<1> QED BY <1>5, <1>6, <1>7, PartsMakeInv, UnchangedKeeps

\* The size of a Write is positive.
LEMMA PositiveIsNat == \A m : \A n \in 1 .. m : n \in Nat
OBVIOUS

\* Waiting, giving up and starting a Write change no stream.
LEMMA WaitsKeep ==
  ASSUME MuxInv, NEW e \in Ends, NEW id \in Ids,
         \/ ReadWaits(e, id) \/ WriteBegins(e, id) \/ WriteWaits(e, id) \/ WriteFails(e, id)
         \/ \E op \in {"read", "write"} : WaitCancelled(e, id, op)
  PROVE  MuxInv'
<1>1. UNCHANGED <<streams, stream, accepted, link, held, lastLocal, wrote>>
  BY DEF ReadWaits, WriteBegins, WriteWaits, WriteFails, WaitCancelled
<1>2. want' \in [Ends \X Ids -> Nat]
  <2>1. CASE WriteBegins(e, id)
    <3>1. PICK size \in 1 .. MaxBytes - wrote[e, id] - wrote[Peer(e), id] - want[Peer(e), id] :
            want' = [want EXCEPT ![<<e, id>>] = size]
      BY <2>1 DEF WriteBegins
    <3>2. Peer(e) \in Ends BY DEF Peer, Ends
    <3>3. wrote[e, id] \in Nat /\ wrote[Peer(e), id] \in Nat /\ want[Peer(e), id] \in Nat
      BY <3>2 DEF MuxInv, Shape
    <3>5. size \in Nat BY <3>3, PositiveIsNat, Zenon
    <3> QED BY <3>1, <3>5 DEF MuxInv, Shape
  <2>2. want \in [Ends \X Ids -> Nat] BY DEF MuxInv, Shape
  <2>3. CASE want' = want BY <2>2, <2>3
  <2>4. CASE want' = [want EXCEPT ![<<e, id>>] = 0] BY <2>2, <2>4
  <2> QED BY <2>1, <2>3, <2>4 DEF ReadWaits, WriteWaits, WriteFails, WaitCancelled
<1> QED BY <1>1, <1>2, PartsMakeInv, UnchangedKeeps

\* The end of a mux, from Close or from the link.
LEMMA FailingKeeps ==
  ASSUME MuxInv, NEW e \in Ends, Close(e) \/ LinkDone(e)
  PROVE  MuxInv'
<1>1. /\ fail(e, "closed") /\ link' = [link EXCEPT ![e] = <<>>]
      /\ UNCHANGED <<held, lastLocal, want, wrote>>
  BY DEF Close, LinkDone, Failing
<1>2. "closed" \in Causes BY DEF Causes
<1>3. StreamsKept /\ AcceptedKept BY <1>1, <1>2, FailKeeps
<1>4. <<>> \in Seq(Frames) BY EmptySeq
<1>5. link' \in [Ends -> Seq(Frames)] BY <1>1, <1>4 DEF MuxInv, Shape
<1> QED BY <1>1, <1>3, <1>5, PartsMakeInv, UnchangedKeeps

-----------------------------------------------------------------------------
\* NewMux starts with no streams.
LEMMA InitMakesInv == Init => MuxInv
<1> SUFFICES ASSUME Init PROVE MuxInv OBVIOUS
<1>1. Shape
  <2>1. stream \in [Ends \X Ids -> Objects] BY FreshIsObject DEF Init
  <2>2. accepted \in [Ends -> Seq(Ids)] /\ link \in [Ends -> Seq(Frames)]
    BY EmptySeq DEF Init
  <2> QED BY <2>1, <2>2 DEF Init, Shape
<1>2. Limits
  <2>1. Cardinality({}) = 0 BY FS_EmptySet
  <2>2. \A e \in Ends : streams[e] = {} /\ accepted[e] = <<>> BY DEF Init
  <2>3. Len(<<>>) = 0 BY EmptySeq
  <2>4. 0 <= MaxStreams BY MuxAssumption
  <2> QED BY <2>1, <2>2, <2>3, <2>4 DEF Limits, Within
<1> QED BY <1>1, <1>2 DEF MuxInv

\* Every step of either end keeps the accounts and the limits.
LEMMA NextKeepsInv == MuxInv /\ [Next]_vars => MuxInv'
<1> SUFFICES ASSUME MuxInv, [Next]_vars PROVE MuxInv' OBVIOUS
<1>1. CASE UNCHANGED vars
  BY <1>1 DEF vars, MuxInv, Shape, Limits
<1>2. CASE Next
  <2>1. PICK e \in Ends : EndStep(e) BY <1>2 DEF Next
  <2>2. CASE Open(e) \/ Accept(e) BY <2>2, OpenKeeps, AcceptKeeps
  <2>3. CASE Receive(e) BY <2>3, AdmitOpenKeeps, AdmitKeeps DEF Receive
  <2>4. CASE Close(e) \/ LinkDone(e) BY <2>4, FailingKeeps
  <2>5. CASE \E id \in Ids : StreamStep(e, id)
    <3>1. PICK id \in Ids : StreamStep(e, id) BY <2>5
    <3> QED BY <3>1, ReadKeeps, WriteKeeps, ClosingKeeps, WaitsKeep
            DEF StreamStep, Reader, Writer
  <2> QED BY <2>1, <2>2, <2>3, <2>4, <2>5 DEF EndStep
<1> QED BY <1>1, <1>2

\* The memory that the peer can make a mux hold is bounded: never more streams
\* than MaxStreams, and of each never more bytes than its reservation, whatever
\* the sizes of the window, of the frames and of the reads.
THEOREM ReservationAlwaysHolds == Spec => []ReservationHolds
<1>1. MuxInv => ReservationHolds
  <2> SUFFICES ASSUME MuxInv, NEW e \in Ends
               PROVE  /\ Cardinality(streams[e]) <= MaxStreams /\ Len(accepted[e]) <= MaxStreams
                      /\ \A id \in streams[e] : LET s == stream[e, id] IN
                           s.buffered = s.pending /\ s.available + s.pending = StreamWindowBytes
    BY DEF ReservationHolds
  <2>1. Cardinality(streams[e]) <= MaxStreams /\ Len(accepted[e]) <= MaxStreams
    BY DEF MuxInv, Limits, Within
  <2>2. ASSUME NEW id \in streams[e] PROVE Booked(stream[e, id])
    <3>1. id \in Ids BY DEF MuxInv, Shape
    <3> QED BY <3>1 DEF MuxInv, Shape, Objects
  <2> QED BY <2>1, <2>2 DEF Booked
<1> QED BY <1>1, InitMakesInv, NextKeepsInv, PTL DEF Spec


-----------------------------------------------------------------------------
(* The path that the frames on a line lead along.                          *)

\* The frame belongs to the stream and is of a kind that is asked for.
Counts(f, K, id) == f.id = id /\ f.type \in K

\* The bytes a frame is worth on its stream.
Weight(f, K, id) == IF Counts(f, K, id) THEN f.size ELSE 0

\* t[i] is the position on a stream that the first i frames of L lead to.
Along(L, K, id, t) ==
  /\ t \in [0 .. Len(L) -> Nat]
  /\ \A i \in 1 .. Len(L) : t[i] = t[i - 1] + Weight(L[i], K, id)
  /\ \A i \in 0 .. Len(L) : t[i] <= t[Len(L)]

\* A frame never takes bytes away.
LEMMA WeightIsNat ==
  ASSUME NEW f \in Frames, NEW K, NEW id
  PROVE  Weight(f, K, id) \in Nat
BY DEF Weight, Frames

\* An empty line leads nowhere.
LEMMA EmptyAlong ==
  ASSUME NEW K, NEW id, NEW n \in Nat
  PROVE  Along(<<>>, K, id, [i \in 0 .. 0 |-> n])
<1>1. Len(<<>>) = 0 BY EmptySeq
<1>2. 1 .. 0 = {} /\ 0 .. 0 = {0} OBVIOUS
<1>3. [i \in 0 .. 0 |-> n] \in [0 .. 0 -> Nat] BY <1>2
<1> QED BY <1>1, <1>2, <1>3 DEF Along

\* One frame leads as far as it is worth.
LEMMA OneAlong ==
  ASSUME NEW K, NEW id, NEW f \in Frames
  PROVE  Along(<<f>>, K, id, [i \in 0 .. 1 |-> IF i = 0 THEN 0 ELSE Weight(f, K, id)])
<1> DEFINE w == Weight(f, K, id)
           t == [i \in 0 .. 1 |-> IF i = 0 THEN 0 ELSE w]
<1>1. w \in Nat BY WeightIsNat
<1>2. Len(<<f>>) = 1 /\ <<f>>[1] = f OBVIOUS
<1>3. 0 .. 1 = {0, 1} /\ 1 .. 1 = {1} OBVIOUS
<1>4. \A i \in 1 .. 1 : t[i] = t[i - 1] + Weight(<<f>>[i], K, id)
  <2>1. t[1] = w /\ t[0] = 0 OBVIOUS
  <2>2. \A i \in 1 .. 1 : i = 1 /\ i - 1 = 0 OBVIOUS
  <2> HIDE DEF t
  <2> QED BY <1>1, <1>2, <2>1, <2>2 DEF w
<1> HIDE DEF w
<1>5. t \in [0 .. 1 -> Nat] BY <1>1
<1>6. \A i \in 0 .. 1 : t[i] <= t[1] BY <1>1
<1> QED BY <1>2, <1>4, <1>5, <1>6 DEF Along, w

\* Frames behind the ones on the line lead on from where those end (the link is FIFO:
\* writeFrames appends).
LEMMA JoinedAlong ==
  ASSUME NEW L \in Seq(Frames), NEW F \in Seq(Frames), NEW K, NEW id, NEW t, NEW v,
         Along(L, K, id, t), Along(F, K, id, v), v[0] = 0
  PROVE  \E r : /\ Along(L \o F, K, id, r)
                /\ r[0] = t[0] /\ r[Len(L \o F)] = t[Len(L)] + v[Len(F)]
                /\ \A i \in 0 .. Len(L) : r[i] = t[i]
                /\ \A i \in 0 .. Len(F) : r[Len(L) + i] = t[Len(L)] + v[i]
<1> DEFINE m == Len(L)
           n == Len(F)
           M == L \o F
<1>1. /\ m \in Nat /\ n \in Nat /\ Len(M) = m + n
      /\ \A i \in 1 .. m + n : M[i] = IF i <= m THEN L[i] ELSE F[i - m]
      /\ \A i \in 1 .. m : L[i] \in Frames
      /\ \A i \in 1 .. n : F[i] \in Frames
  BY ConcatProperties, LenProperties, ElementOfSeq
<1>2. /\ t \in [0 .. m -> Nat] /\ v \in [0 .. n -> Nat]
      /\ \A i \in 1 .. m : t[i] = t[i - 1] + Weight(L[i], K, id)
      /\ \A i \in 1 .. n : v[i] = v[i - 1] + Weight(F[i], K, id)
      /\ \A i \in 0 .. m : t[i] <= t[m]
      /\ \A i \in 0 .. n : v[i] <= v[n]
  BY DEF Along
<1> DEFINE r == [i \in 0 .. m + n |-> IF i <= m THEN t[i] ELSE t[m] + v[i - m]]
<1>3. r = [i \in 0 .. m + n |-> IF i <= m THEN t[i] ELSE t[m] + v[i - m]] OBVIOUS
<1> HIDE DEF r, m, n, M
<1>4. \A i \in 0 .. m : r[i] = t[i] BY <1>1, <1>3
<1>5. \A i \in 0 .. n : r[m + i] = t[m] + v[i]
  <2> SUFFICES ASSUME NEW i \in 0 .. n PROVE r[m + i] = t[m] + v[i] OBVIOUS
  <2>1. CASE i = 0
    <3>1. r[m] = t[m] /\ t[m] \in Nat BY <1>1, <1>2, <1>4
    <3> QED BY <1>1, <2>1, <3>1
  <2>2. CASE i > 0
    <3>1. m + i \in 0 .. m + n /\ ~(m + i <= m) /\ (m + i) - m = i BY <1>1, <2>2
    <3> QED BY <1>3, <3>1
  <2> QED BY <1>1, <2>1, <2>2
<1>6. r \in [0 .. m + n -> Nat]
  <2> SUFFICES ASSUME NEW i \in 0 .. m + n PROVE (IF i <= m THEN t[i] ELSE t[m] + v[i - m]) \in Nat
    BY <1>3
  <2>1. CASE i <= m BY <1>1, <1>2, <2>1
  <2>2. CASE ~(i <= m)
    <3>1. i - m \in 0 .. n BY <1>1, <2>2
    <3>2. m \in 0 .. m BY <1>1
    <3>3. t[m] \in Nat /\ v[i - m] \in Nat BY <1>2, <3>1, <3>2
    <3> QED BY <2>2, <3>3
  <2> QED BY <2>1, <2>2
<1>7. ASSUME NEW i \in 1 .. m + n PROVE r[i] = r[i - 1] + Weight(M[i], K, id)
  <2>1. CASE i <= m
    <3>1. i \in 1 .. m /\ i \in 0 .. m /\ i - 1 \in 0 .. m BY <1>1, <2>1
    <3>2. r[i] = t[i] /\ r[i - 1] = t[i - 1] BY <1>4, <3>1
    <3>3. M[i] = L[i] BY <1>1, <2>1
    <3> QED BY <1>2, <3>1, <3>2, <3>3
  <2>2. CASE ~(i <= m)
    <3> DEFINE j == i - m
    <3>1. j \in 1 .. n /\ j \in 0 .. n /\ j - 1 \in 0 .. n /\ i = m + j /\ i - 1 = m + (j - 1)
      BY <1>1, <2>2
    <3>2. M[i] = F[j] BY <1>1, <2>2
    <3> HIDE DEF j
    <3>3. r[i] = t[m] + v[j] /\ r[i - 1] = t[m] + v[j - 1] BY <1>5, <3>1
    <3>4. v[j] = v[j - 1] + Weight(F[j], K, id) BY <1>2, <3>1
    <3>5. t[m] \in Nat /\ v[j] \in Nat /\ v[j - 1] \in Nat /\ Weight(F[j], K, id) \in Nat
      BY <1>1, <1>2, <3>1, WeightIsNat
    <3> QED BY <3>2, <3>3, <3>4, <3>5
  <2> QED BY <2>1, <2>2
<1>8. r[m + n] = t[m] + v[n]
  <2>1. n \in 0 .. n BY <1>1
  <2> QED BY <1>5, <2>1
<1>9. ASSUME NEW i \in 0 .. m + n PROVE r[i] <= r[m + n]
  <2>0. m \in 0 .. m /\ n \in 0 .. n BY <1>1
  <2>1. t[m] \in Nat /\ v[n] \in Nat BY <1>2, <2>0
  <2>2. CASE i <= m
    <3>1. i \in 0 .. m BY <2>2
    <3>2. r[i] = t[i] /\ t[i] \in Nat /\ t[i] <= t[m] BY <1>2, <1>4, <3>1
    <3> QED BY <1>8, <2>1, <3>2
  <2>3. CASE ~(i <= m)
    <3> DEFINE j == i - m
    <3>1. j \in 0 .. n /\ i = m + j BY <1>1, <2>3
    <3> HIDE DEF j
    <3>2. r[i] = t[m] + v[j] /\ v[j] \in Nat /\ v[j] <= v[n] BY <1>2, <1>5, <3>1
    <3> QED BY <1>8, <2>1, <3>2
  <2> QED BY <2>2, <2>3
<1>10. 0 \in 0 .. m BY <1>1
<1>11. Along(M, K, id, r)
  <2>1. \A i \in 1 .. m + n : r[i] = r[i - 1] + Weight(M[i], K, id) BY <1>7
  <2>2. \A i \in 0 .. m + n : r[i] <= r[m + n] BY <1>9
  <2> QED BY <1>1, <1>6, <2>1, <2>2, Zenon DEF Along
<1> QED BY <1>1, <1>4, <1>5, <1>8, <1>10, <1>11, Zenon DEF m, n, M

\* The rest of the path when the first frame is taken.
Rest(L, t) == [i \in 0 .. Len(L) - 1 |-> t[i + 1]]

\* When the first frame is taken the others still lead to the same position.
LEMMA RestAlong ==
  ASSUME NEW L \in Seq(Frames), L # <<>>, NEW K, NEW id, NEW t, Along(L, K, id, t)
  PROVE  LET r == Rest(L, t) IN
         /\ Along(Tail(L), K, id, r)
         /\ r[0] = t[0] + Weight(Head(L), K, id) /\ r[Len(Tail(L))] = t[Len(L)]
         /\ \A i \in 1 .. Len(Tail(L)) : r[i - 1] = t[i]
         /\ r[0] <= t[Len(L)]
<1> DEFINE r == Rest(L, t)
           m == Len(L)
           M == Tail(L)
<1>1. /\ m \in Nat \ {0} /\ Len(M) = m - 1 /\ Head(L) = L[1]
      /\ \A i \in 1 .. m - 1 : M[i] = L[i + 1]
  BY HeadTailProperties, EmptySeq
<1>2. /\ t \in [0 .. m -> Nat]
      /\ \A i \in 1 .. m : t[i] = t[i - 1] + Weight(L[i], K, id)
      /\ \A i \in 0 .. m : t[i] <= t[m]
  BY DEF Along
<1>3. r = [i \in 0 .. m - 1 |-> t[i + 1]] BY DEF Rest
<1> HIDE DEF r, m, M
<1>4. \A i \in 0 .. m - 1 : r[i] = t[i + 1] /\ i + 1 \in 0 .. m /\ i + 1 \in 1 .. m BY <1>1, <1>3
<1>5. r \in [0 .. m - 1 -> Nat] BY <1>2, <1>3, <1>4
<1>6. ASSUME NEW i \in 1 .. m - 1 PROVE r[i] = r[i - 1] + Weight(M[i], K, id)
  <2>1. i \in 0 .. m - 1 /\ i - 1 \in 0 .. m - 1 /\ (i - 1) + 1 = i /\ (i + 1) - 1 = i BY <1>1
  <2>2. r[i] = t[i + 1] /\ r[i - 1] = t[i] BY <1>4, <2>1
  <2>3. t[i + 1] = t[i] + Weight(L[i + 1], K, id)
    <3>1. i + 1 \in 1 .. m BY <1>4, <2>1
    <3>2. t[i + 1] = t[(i + 1) - 1] + Weight(L[i + 1], K, id) BY <1>2, <3>1
    <3> QED BY <2>1, <3>2
  <2> QED BY <1>1, <2>2, <2>3
<1>7. m - 1 \in 0 .. m - 1 /\ (m - 1) + 1 = m /\ 0 \in 0 .. m - 1 BY <1>1
<1>8. r[m - 1] = t[m] BY <1>4, <1>7
<1>9. \A i \in 0 .. m - 1 : r[i] <= r[m - 1] BY <1>2, <1>4, <1>8
<1>10. r[0] = t[0] + Weight(L[1], K, id)
  <2>1. 1 \in 1 .. m BY <1>1
  <2>2. t[1] = t[1 - 1] + Weight(L[1], K, id) BY <1>2, <2>1
  <2>3. r[0] = t[0 + 1] BY <1>4, <1>7
  <2> QED BY <2>2, <2>3
<1>11. \A i \in 1 .. m - 1 : r[i - 1] = t[i]
  <2> SUFFICES ASSUME NEW i \in 1 .. m - 1 PROVE r[i - 1] = t[i] OBVIOUS
  <2>1. i - 1 \in 0 .. m - 1 /\ (i - 1) + 1 = i BY <1>1
  <2> QED BY <1>4, <2>1
<1>12. Along(M, K, id, r)
  <2>1. \A i \in 1 .. m - 1 : r[i] = r[i - 1] + Weight(M[i], K, id) BY <1>6
  <2> QED BY <1>1, <1>5, <1>9, <2>1, Zenon DEF Along
<1>13. r[0] <= t[m] BY <1>7, <1>8, <1>9
<1> QED BY <1>1, <1>8, <1>10, <1>11, <1>12, <1>13 DEF r, m, M

-----------------------------------------------------------------------------
(* The receive ring.                                                       *)

\* The ring's indices.
LEMMA ModRange == \A n \in Int : n % StreamWindowBytes \in 0 .. StreamWindowBytes - 1
BY MuxAssumption

\* Turning around the ring once or twice leads back to the same place.
LEMMA Turned ==
  ASSUME NEW n \in 0 .. StreamWindowBytes - 1
  PROVE  /\ n % StreamWindowBytes = n
         /\ (n + StreamWindowBytes) % StreamWindowBytes = n
         /\ (n - StreamWindowBytes) % StreamWindowBytes = n
         /\ (n - 2 * StreamWindowBytes) % StreamWindowBytes = n
<1> DEFINE W == StreamWindowBytes
<1>0. W \in Nat \ {0} BY MuxAssumption
<1> HIDE DEF W
<1>1. n % W = n BY <1>0 DEF W
<1>2. (n + W) % W = n BY <1>0 DEF W
<1>3. (n - W) % W = n BY <1>0 DEF W
<1>4. (n - 2 * W) % W = n BY <1>0 DEF W
<1> QED BY <1>1, <1>2, <1>3, <1>4 DEF W

\* The unread bytes in the ring of s are the ones after the first n of the stream.
Ring(s, n) ==
  \A i \in 0 .. s.buffered - 1 :
    s.queue[(s.readIndex + i) % StreamWindowBytes] = n + 1 + i

\* The read index is a place of the ring.
Placed(s) == s.readIndex \in 0 .. StreamWindowBytes - 1

\* applyData's copy into the ring puts the bytes of a DATA frame, in order, behind the
\* unread ones, also when the copy wraps around.
LEMMA EnqueueKeepsRing ==
  ASSUME NEW s \in Objects, Placed(s), NEW f \in Frames, NEW n \in Nat, Ring(s, n),
         f.first = n + s.buffered + 1, s.buffered + f.size <= StreamWindowBytes,
         NEW i \in 0 .. s.buffered + f.size - 1
  PROVE  enqueue(s, f)[(s.readIndex + i) % StreamWindowBytes] = n + 1 + i
<1> DEFINE W == StreamWindowBytes
           r == s.readIndex
           b == s.buffered
           z == f.size
           k == (r + i) % W
           offset(j) == (j - r - b) % W
<1>1. W \in Nat \ {0} /\ r \in 0 .. W - 1 /\ b \in Nat /\ z \in Nat /\ b + z <= W
  BY MuxAssumption DEF Placed, Objects, Raw, Frames
<1>2. i \in 0 .. b + z - 1 OBVIOUS
<1>3. s.queue \in [0 .. W - 1 -> Int] BY DEF Objects, Raw
<1>4. enqueue(s, f) = [j \in 0 .. W - 1 |->
                         IF offset(j) < z THEN f.first + offset(j) ELSE s.queue[j]]
  <2>1. DOMAIN s.queue = 0 .. W - 1 BY <1>3, Zenon
  <2> QED BY <2>1, Zenon DEF enqueue
<1>5. \A m \in 0 .. W - 1 : m % W = m /\ (m + W) % W = m /\ (m - W) % W = m /\ (m - 2 * W) % W = m
  BY Turned
<1> HIDE DEF W, r, b, z
<1>6. r + i \in Int /\ (r + i \in 0 .. W - 1 \/ r + i - W \in 0 .. W - 1) BY <1>1, <1>2
<1>7. k \in 0 .. W - 1 /\ (k = r + i \/ k = r + i - W)
  <2>1. CASE r + i \in 0 .. W - 1 BY <1>5, <2>1
  <2>2. CASE r + i - W \in 0 .. W - 1
    <3>1. ((r + i - W) + W) % W = r + i - W BY <1>5, <2>2
    <3>2. (r + i - W) + W = r + i BY <1>1, <1>2
    <3> QED BY <2>2, <3>1, <3>2
  <2> QED BY <1>6, <2>1, <2>2
<1> HIDE DEF k
<1>8. CASE i >= b
  <2>1. i - b \in 0 .. W - 1 BY <1>1, <1>2, <1>8
  <2>2. k - r - b = i - b \/ k - r - b = (i - b) - W BY <1>1, <1>2, <1>7
  <2>3. offset(k) = i - b BY <1>5, <2>1, <2>2
  <2>4. i - b < z BY <1>1, <1>2
  <2>5. enqueue(s, f)[k] = f.first + (i - b)
    <3> HIDE DEF offset
    <3> QED BY <1>4, <1>7, <2>3, <2>4
  <2>6. f.first + (i - b) = n + 1 + i BY <1>1, <1>2 DEF b
  <2> QED BY <2>5, <2>6 DEF k, W, r
<1>9. CASE i < b
  <2>1. i - b + W \in 0 .. W - 1 BY <1>1, <1>2, <1>9
  <2>2. k - r - b = (i - b + W) - W \/ k - r - b = (i - b + W) - 2 * W BY <1>1, <1>2, <1>7
  <2>3. offset(k) = i - b + W BY <1>5, <2>1, <2>2
  <2>4. ~(i - b + W < z) BY <1>1, <1>2
  <2>5. enqueue(s, f)[k] = s.queue[k]
    <3> HIDE DEF offset
    <3> QED BY <1>4, <1>7, <2>3, <2>4
  <2>6. i \in 0 .. b - 1 BY <1>1, <1>2, <1>9
  <2>7. s.queue[k] = n + 1 + i BY <2>6 DEF Ring, k, r, b, W
  <2> QED BY <2>5, <2>7 DEF k, W, r
<1> QED BY <1>1, <1>2, <1>8, <1>9

\* consume moves the read index past the bytes it hands out, and the rest stay in
\* order.
LEMMA ConsumedKeepsRing ==
  ASSUME NEW s \in Objects, Placed(s), NEW n \in Nat, Ring(s, n),
         NEW size \in 1 .. s.buffered
  PROVE  Placed(consumed(s, size)) /\ Ring(consumed(s, size), n + size)
<1> DEFINE W == StreamWindowBytes
           r == s.readIndex
           b == s.buffered
           q == (r + size) % W
           t == consumed(s, size)
<1>0. s \in Raw /\ Booked(s) BY DEF Objects
<1>1. W \in Nat \ {0} /\ r \in 0 .. W - 1 /\ b \in Nat /\ b <= W
  <2>1. s.buffered \in Nat /\ s.available \in Nat /\ s.pending \in Nat BY <1>0 DEF Raw
  <2>2. s.buffered <= W BY <1>0, <2>1 DEF Booked
  <2> QED BY <2>1, <2>2, MuxAssumption DEF Placed
<1>2. size \in Nat /\ size <= b BY <1>1
<1>3. t.readIndex = q /\ t.buffered = b - size /\ t.queue = s.queue BY <1>0 DEF consumed, Raw
<1>5. \A m \in 0 .. W - 1 : m % W = m /\ (m + W) % W = m /\ (m - W) % W = m /\ (m - 2 * W) % W = m
  BY Turned
<1> HIDE DEF W, r, b, t
<1>6. r + size \in 0 .. W - 1 \/ r + size - W \in 0 .. W - 1 BY <1>1, <1>2
<1>7. q \in 0 .. W - 1 /\ (q = r + size \/ q = r + size - W)
  <2>1. CASE r + size \in 0 .. W - 1 BY <1>5, <2>1
  <2>2. CASE r + size - W \in 0 .. W - 1
    <3>1. ((r + size - W) + W) % W = r + size - W BY <1>5, <2>2
    <3>2. (r + size - W) + W = r + size BY <1>1, <1>2
    <3> QED BY <2>2, <3>1, <3>2
  <2> QED BY <1>6, <2>1, <2>2
<1> HIDE DEF q
<1>8. ASSUME NEW i \in 0 .. t.buffered - 1
      PROVE  t.queue[(t.readIndex + i) % W] = n + size + 1 + i
  <2>1. i \in 0 .. b - size - 1 /\ size + i \in 0 .. b - 1 BY <1>1, <1>2, <1>3
  <2>2. s.queue[(r + (size + i)) % W] = n + 1 + (size + i) BY <2>1 DEF Ring, r, b, W
  <2>3. (q + i) % W = (r + (size + i)) % W
    <3> DEFINE x == r + (size + i)
    <3>1. CASE x \in 0 .. W - 1
      <4>1. q + i = x BY <1>1, <1>2, <1>7, <2>1, <3>1
      <4> QED BY <4>1
    <3>2. CASE ~(x \in 0 .. W - 1)
      <4>1. x - W \in 0 .. W - 1 BY <1>1, <1>2, <2>1, <3>2
      <4>2. ((x - W) + W) % W = x - W /\ (x - W) % W = x - W BY <1>5, <4>1
      <4>3. (x - W) + W = x BY <1>1, <1>2, <2>1
      <4>4. q + i = x \/ q + i = x - W BY <1>1, <1>2, <1>7, <2>1
      <4> HIDE DEF x
      <4> QED BY <4>2, <4>3, <4>4 DEF x
    <3> QED BY <3>1, <3>2
  <2>4. n + 1 + (size + i) = n + size + 1 + i BY <1>2, <2>1
  <2> QED BY <1>3, <2>2, <2>3, <2>4
<1>9. Placed(t) BY <1>3, <1>7 DEF Placed, W
<1> QED BY <1>8, <1>9 DEF Ring, t, W

-----------------------------------------------------------------------------
(* What a line carries of one stream.                                      *)

\* The frames that give the receiver credit to send: OPEN's initial window and every
\* update.
Credits == {"OPEN", "WINDOW_UPDATE"}

\* No frame of these kinds is on the line for this stream.
NoneOf(L, K, id) == \A i \in 1 .. Len(L) : ~Counts(L[i], K, id)

\* The DATA frames on the line carry bytes a + 1 .. z of the stream without a gap or a
\* repetition, and a FIN comes after the last one.
DataLine(L, id, a, z) ==
  \E t : /\ Along(L, {"DATA"}, id, t) /\ t[0] = a /\ t[Len(L)] = z
         /\ \A i \in 1 .. Len(L) : Counts(L[i], {"DATA"}, id) => L[i].first = t[i - 1] + 1
         /\ \A i \in 1 .. Len(L) : Counts(L[i], {"FIN"}, id) => t[i] = z

\* The credit on the line leads from a bytes granted to z.
CreditLine(L, id, a, z) ==
  \E t : Along(L, Credits, id, t) /\ t[0] = a /\ t[Len(L)] = z

\* After FIN neither DATA nor FIN follows.
FinLine(L, id) ==
  \A i \in 1 .. Len(L) : Counts(L[i], {"FIN"}, id) =>
    \A j \in 1 .. Len(L) : j > i => ~Counts(L[j], {"DATA", "FIN"}, id)

\* dataFrames cuts what is written into frames of at most MaxDataBytes that carry it
\* from first byte to last.
LEMMA DataFramesAre ==
  ASSUME NEW id \in Ids, NEW first \in Nat, NEW size \in Nat \ {0}
  PROVE  LET F == dataFrames(id, first, size) IN
         /\ F \in Seq(Frames)
         /\ \A i \in 1 .. Len(F) : F[i].type = "DATA" /\ F[i].id = id
                     /\ F[i].size \in 1 .. MaxDataBytes
         /\ \E v : /\ Along(F, {"DATA"}, id, v) /\ v[0] = 0 /\ v[Len(F)] = size
                   /\ \A i \in 1 .. Len(F) : F[i].first = first + v[i - 1]
<1> DEFINE F == dataFrames(id, first, size)
           M == MaxDataBytes
           count == (size + M - 1) \div M
           start(i) == (i - 1) * M
           bytes(i) == IF i < count THEN M ELSE size - start(i)
           v == [i \in 0 .. count |-> IF i < count THEN i * M ELSE size]
<1>1. F \in Seq(Frames) BY DataAreFrames
<1>2. M \in Nat \ {0} BY MuxAssumption
<1>3. /\ count \in Nat \ {0} /\ (count - 1) * M < size /\ size <= count * M
  BY <1>2
<1>4. F = [i \in 1 .. count |-> Frame("DATA", id, bytes(i), first + start(i))] BY DEF dataFrames
<1> HIDE DEF F, M, count
<1>5. Len(F) = count
  <2>1. DOMAIN F = 1 .. count BY <1>4, Zenon
  <2>2. DOMAIN F = 1 .. Len(F) /\ Len(F) \in Nat BY <1>1, LenProperties
  <2>3. ASSUME NEW m \in Nat, NEW n \in Nat, 1 .. m = 1 .. n PROVE m = n
    <3>1. m \in 1 .. m => m \in 1 .. n BY <2>3
    <3>2. n \in 1 .. n => n \in 1 .. m BY <2>3
    <3> QED BY <3>1, <3>2
  <2> QED BY <1>3, <2>1, <2>2, <2>3
<1>6. \A i \in 1 .. count : /\ F[i].type = "DATA" /\ F[i].id = id
                            /\ F[i].size = bytes(i) /\ F[i].first = first + start(i)
  <2> HIDE DEF bytes, start
  <2> QED BY <1>4 DEF Frame
<1>7. ASSUME NEW i \in 0 .. count, i < count PROVE i * M \in Nat /\ i * M <= size
  <2>1. i \in Nat /\ i <= count - 1 BY <1>3, <1>7
  <2>2. i * M <= (count - 1) * M
    <3>1. ASSUME NEW x \in Nat, NEW y \in Nat, x <= y PROVE x * M <= y * M BY <1>2, <3>1
    <3>2. count - 1 \in Nat BY <1>3
    <3> QED BY <2>1, <3>1, <3>2
  <2>3. i * M \in Nat /\ (count - 1) * M \in Int BY <1>2, <1>3, <2>1
  <2> QED BY <1>3, <2>2, <2>3
<1>8. v \in [0 .. count -> Nat] /\ v[0] = 0 /\ v[count] = size
  <2>1. ASSUME NEW i \in 0 .. count PROVE (IF i < count THEN i * M ELSE size) \in Nat
    BY <1>7, <1>3
  <2>2. v[0] = 0 BY <1>2, <1>3
  <2>3. v[count] = size BY <1>3
  <2> QED BY <2>1, <2>2, <2>3
<1>9. \A i \in 0 .. count : v[i] <= v[count]
  <2> SUFFICES ASSUME NEW i \in 0 .. count PROVE v[i] <= size BY <1>8
  <2> QED BY <1>3, <1>7
<1>10. ASSUME NEW i \in 1 .. count
       PROVE  v[i - 1] = start(i) /\ v[i] = v[i - 1] + bytes(i) /\ bytes(i) \in 1 .. M
  <2>1. i - 1 \in 0 .. count /\ i - 1 < count /\ i \in 0 .. count BY <1>3
  <2>2. v[i - 1] = start(i) BY <2>1
  <2>3. start(i) \in Nat BY <1>7, <2>1
  <2>4. CASE i < count
    <3>1. v[i] = i * M /\ bytes(i) = M BY <2>1, <2>4
    <3>2. i * M = (i - 1) * M + M BY <1>2, <2>1
    <3> QED BY <1>2, <2>2, <3>1, <3>2
  <2>5. CASE ~(i < count)
    <3>1. i = count BY <1>3, <2>5
    <3>2. v[i] = size /\ bytes(i) = size - start(i) BY <2>1, <2>5
    <3>3. start(i) < size /\ size <= start(i) + M
      <4>1. start(count) + M = count * M BY <1>2, <1>3
      <4> QED BY <1>3, <3>1, <4>1
    <3> HIDE DEF start, bytes, v
    <3>4. size - start(i) \in 1 .. M /\ size = start(i) + (size - start(i)) BY <1>2, <1>3, <2>3,
             <3>3
    <3> QED BY <2>2, <3>2, <3>4
  <2> QED BY <2>4, <2>5
<1> HIDE DEF v, bytes, start
<1>11. ASSUME NEW i \in 1 .. count PROVE v[i] = v[i - 1] + Weight(F[i], {"DATA"}, id)
  <2>1. Weight(F[i], {"DATA"}, id) = bytes(i) BY <1>6 DEF Weight, Counts
  <2> QED BY <1>10, <2>1
<1>12. Along(F, {"DATA"}, id, v) BY <1>5, <1>8, <1>9, <1>11 DEF Along
<1>13. \A i \in 1 .. Len(F) : F[i].first = first + v[i - 1] BY <1>5, <1>6, <1>10
<1>14. \A i \in 1 .. Len(F) : F[i].type = "DATA" /\ F[i].id = id /\ F[i].size \in 1 .. MaxDataBytes
  BY <1>5, <1>6, <1>10 DEF M
<1>15. \E u : /\ Along(F, {"DATA"}, id, u) /\ u[0] = 0 /\ u[Len(F)] = size
              /\ \A i \in 1 .. Len(F) : F[i].first = first + u[i - 1]
  BY <1>5, <1>8, <1>12, <1>13
<1> QED BY <1>1, <1>14, <1>15 DEF F

\* M is L with frames added or the first one taken, none of them of kind K of id.
Carries(L, M, K, id) ==
  \/ M = L
  \/ \E F \in Seq(Frames) : M = L \o F /\ NoneOf(F, K, id)
  \/ L # <<>> /\ M = Tail(L) /\ ~Counts(Head(L), K, id)

\* Frames that do not count lead nowhere.
LEMMA IdleAlong ==
  ASSUME NEW F \in Seq(Frames), NEW K, NEW id, NoneOf(F, K, id)
  PROVE  Along(F, K, id, [i \in 0 .. Len(F) |-> 0])
<1>1. Len(F) \in Nat BY LenProperties
<1>2. \A i \in 1 .. Len(F) : Weight(F[i], K, id) = 0 BY DEF NoneOf, Weight
<1>3. \A i \in 1 .. Len(F) : i \in 0 .. Len(F) /\ i - 1 \in 0 .. Len(F) BY <1>1
<1>4. Len(F) \in 0 .. Len(F) BY <1>1
<1> QED BY <1>2, <1>3, <1>4 DEF Along

\* The credit on a line does not change when frames of other kinds come or go.
LEMMA CreditLineCarried ==
  ASSUME NEW L \in Seq(Frames), NEW M, NEW id, NEW a, NEW z,
         CreditLine(L, id, a, z), Carries(L, M, Credits, id)
  PROVE  CreditLine(M, id, a, z)
<1>1. PICK t : Along(L, Credits, id, t) /\ t[0] = a /\ t[Len(L)] = z BY DEF CreditLine
<1>0. t[0] \in Nat /\ t[Len(L)] \in Nat
  <2>1. Len(L) \in Nat BY LenProperties
  <2>2. 0 \in 0 .. Len(L) /\ Len(L) \in 0 .. Len(L) BY <2>1
  <2> QED BY <1>1, <2>2 DEF Along
<1>2. CASE M = L BY <1>2
<1>3. CASE \E F \in Seq(Frames) : M = L \o F /\ NoneOf(F, Credits, id)
  <2>1. PICK F \in Seq(Frames) : M = L \o F /\ NoneOf(F, Credits, id) BY <1>3
  <2> DEFINE v == [i \in 0 .. Len(F) |-> 0]
  <2>2. Along(F, Credits, id, v) BY <2>1, IdleAlong
  <2>3. v[0] = 0 /\ v[Len(F)] = 0
    <3>1. Len(F) \in Nat BY LenProperties
    <3> QED BY <3>1
  <2> HIDE DEF v
  <2>4. PICK r : Along(M, Credits, id, r) /\ r[0] = t[0] /\ r[Len(M)] = t[Len(L)] + 0
    BY <1>1, <2>1, <2>2, <2>3, JoinedAlong
  <2>5. t[Len(L)] + 0 = t[Len(L)] BY <1>0
  <2> QED BY <1>1, <2>4, <2>5 DEF CreditLine
<1>4. CASE L # <<>> /\ M = Tail(L) /\ ~Counts(Head(L), Credits, id)
  <2> DEFINE r == Rest(L, t)
  <2>1. Along(M, Credits, id, r) /\ r[0] = t[0] + Weight(Head(L), Credits, id)
           /\ r[Len(M)] = t[Len(L)]
    BY <1>1, <1>4, RestAlong
  <2>2. Weight(Head(L), Credits, id) = 0 BY <1>4 DEF Weight
  <2>3. t[0] + 0 = t[0] BY <1>0
  <2> QED BY <1>1, <2>1, <2>2, <2>3 DEF CreditLine
<1> QED BY <1>2, <1>3, <1>4 DEF Carries

\* A granting frame behind the others adds its size.
LEMMA CreditLineAdded ==
  ASSUME NEW L \in Seq(Frames), NEW f \in Frames, NEW id, NEW a, NEW z,
         CreditLine(L, id, a, z), Counts(f, Credits, id)
  PROVE  CreditLine(L \o <<f>>, id, a, z + f.size)
<1>1. PICK t : Along(L, Credits, id, t) /\ t[0] = a /\ t[Len(L)] = z BY DEF CreditLine
<1> DEFINE F == <<f>>
           w == Weight(f, Credits, id)
           v == [i \in 0 .. 1 |-> IF i = 0 THEN 0 ELSE w]
<1>2. Along(F, Credits, id, v) BY OneAlong
<1>3. v[0] = 0 /\ v[Len(F)] = f.size BY DEF Weight
<1>4. F \in Seq(Frames) OBVIOUS
<1> HIDE DEF v, F
<1>5. PICK r : Along(L \o F, Credits, id, r) /\ r[0] = t[0] /\ r[Len(L \o F)] = t[Len(L)] + f.size
  BY <1>1, <1>2, <1>3, <1>4, JoinedAlong
<1>6. CreditLine(L \o F, id, a, z + f.size) BY <1>1, <1>3, <1>5 DEF CreditLine
<1> QED BY <1>6 DEF F

\* A granting frame that is received moves its size from the line to the receiver.
LEMMA CreditLineTaken ==
  ASSUME NEW L \in Seq(Frames), L # <<>>, NEW id, NEW a, NEW z,
         CreditLine(L, id, a, z), Counts(Head(L), Credits, id)
  PROVE  /\ CreditLine(Tail(L), id, a + Head(L).size, z)
         /\ a + Head(L).size <= z
<1>1. PICK t : Along(L, Credits, id, t) /\ t[0] = a /\ t[Len(L)] = z BY DEF CreditLine
<1> DEFINE r == Rest(L, t)
<1>2. /\ Along(Tail(L), Credits, id, r) /\ r[0] = t[0] + Weight(Head(L), Credits, id)
      /\ r[Len(Tail(L))] = t[Len(L)] /\ r[0] <= t[Len(L)]
  BY <1>1, RestAlong
<1>3. Weight(Head(L), Credits, id) = Head(L).size BY DEF Weight
<1> HIDE DEF r
<1> QED BY <1>1, <1>2, <1>3 DEF CreditLine

\* An empty line carries neither credit nor data.
LEMMA CreditLineEmpty ==
  ASSUME NEW id, NEW n \in Nat
  PROVE  CreditLine(<<>>, id, n, n) /\ DataLine(<<>>, id, n, n)
<1> DEFINE t == [i \in 0 .. 0 |-> n]
<1>1. Along(<<>>, Credits, id, t) /\ Along(<<>>, {"DATA"}, id, t) BY EmptyAlong
<1>2. t[0] = n /\ Len(<<>>) = 0 BY EmptySeq
<1>3. \A i \in 1 .. Len(<<>>) : FALSE BY <1>2
<1> HIDE DEF t
<1> QED BY <1>1, <1>2, <1>3 DEF CreditLine, DataLine

\* Positions on a line are ordered.
LEMMA LineEnds ==
  ASSUME NEW L \in Seq(Frames), NEW id, NEW a, NEW z,
         CreditLine(L, id, a, z) \/ DataLine(L, id, a, z)
  PROVE  a \in Nat /\ z \in Nat /\ a <= z
<1>1. PICK K, t : Along(L, K, id, t) /\ t[0] = a /\ t[Len(L)] = z BY DEF CreditLine, DataLine
<1>2. Len(L) \in Nat BY LenProperties
<1>3. 0 \in 0 .. Len(L) /\ Len(L) \in 0 .. Len(L) BY <1>2
<1> QED BY <1>1, <1>3 DEF Along

\* The data on a line does not change when frames of other kinds come or go.
LEMMA DataLineCarried ==
  ASSUME NEW L \in Seq(Frames), NEW M, NEW id, NEW a, NEW z,
         DataLine(L, id, a, z), Carries(L, M, {"DATA", "FIN"}, id)
  PROVE  DataLine(M, id, a, z)
<1>1. PICK t : /\ Along(L, {"DATA"}, id, t) /\ t[0] = a /\ t[Len(L)] = z
               /\ \A i \in 1 .. Len(L) : Counts(L[i], {"DATA"}, id) => L[i].first = t[i - 1] + 1
               /\ \A i \in 1 .. Len(L) : Counts(L[i], {"FIN"}, id) => t[i] = z
  BY DEF DataLine
<1>0. t[0] \in Nat /\ t[Len(L)] \in Nat /\ Len(L) \in Nat
  <2>1. Len(L) \in Nat BY LenProperties
  <2>2. 0 \in 0 .. Len(L) /\ Len(L) \in 0 .. Len(L) BY <2>1
  <2> QED BY <1>1, <2>1, <2>2 DEF Along
<1>2. CASE M = L BY <1>2
<1>3. CASE \E F \in Seq(Frames) : M = L \o F /\ NoneOf(F, {"DATA", "FIN"}, id)
  <2>1. PICK F \in Seq(Frames) : M = L \o F /\ NoneOf(F, {"DATA", "FIN"}, id) BY <1>3
  <2>0. NoneOf(F, {"DATA"}, id) BY <2>1 DEF NoneOf, Counts
  <2> DEFINE v == [i \in 0 .. Len(F) |-> 0]
  <2>2. Along(F, {"DATA"}, id, v) BY <2>0, IdleAlong
  <2>3. v[0] = 0 /\ v[Len(F)] = 0 /\ Len(F) \in Nat
    <3>1. Len(F) \in Nat BY LenProperties
    <3> QED BY <3>1
  <2> HIDE DEF v
  <2>4. PICK r : /\ Along(M, {"DATA"}, id, r) /\ r[0] = t[0] /\ r[Len(M)] = t[Len(L)] + 0
                 /\ \A i \in 0 .. Len(L) : r[i] = t[i]
    BY <1>1, <2>1, <2>2, <2>3, JoinedAlong
  <2>5. t[Len(L)] + 0 = t[Len(L)] BY <1>0
  <2>6. ASSUME NEW i \in 1 .. Len(M)
        PROVE  /\ Counts(M[i], {"DATA"}, id) => M[i].first = r[i - 1] + 1
               /\ Counts(M[i], {"FIN"}, id) => r[i] = z
    <3>1. Len(M) = Len(L) + Len(F) /\ M[i] = IF i <= Len(L) THEN L[i] ELSE F[i - Len(L)]
      BY <2>1, ConcatProperties
    <3>2. CASE i <= Len(L)
      <4>1. i \in 1 .. Len(L) /\ i - 1 \in 0 .. Len(L) /\ i \in 0 .. Len(L) BY <1>0, <3>1, <3>2
      <4>2. M[i] = L[i] BY <3>1, <3>2
      <4> QED BY <1>1, <2>4, <4>1, <4>2
    <3>3. CASE ~(i <= Len(L))
      <4>1. i - Len(L) \in 1 .. Len(F) BY <1>0, <2>3, <3>1, <3>3
      <4> QED BY <2>1, <3>1, <3>3, <4>1 DEF NoneOf, Counts
    <3> QED BY <3>2, <3>3
  <2> QED BY <1>1, <2>4, <2>5, <2>6 DEF DataLine
<1>4. CASE L # <<>> /\ M = Tail(L) /\ ~Counts(Head(L), {"DATA", "FIN"}, id)
  <2> DEFINE r == Rest(L, t)
  <2>1. /\ Along(M, {"DATA"}, id, r) /\ r[0] = t[0] + Weight(Head(L), {"DATA"}, id)
        /\ r[Len(M)] = t[Len(L)] /\ \A i \in 1 .. Len(M) : r[i - 1] = t[i]
    BY <1>1, <1>4, RestAlong
  <2>2. Weight(Head(L), {"DATA"}, id) = 0 BY <1>4 DEF Weight, Counts
  <2>3. t[0] + 0 = t[0] BY <1>0
  <2>4. Len(M) = Len(L) - 1 /\ \A i \in 1 .. Len(M) : M[i] = L[i + 1] BY <1>4, HeadTailProperties
  <2>7. \A i \in 0 .. Len(L) - 1 : r[i] = t[i + 1] BY DEF Rest
  <2> HIDE DEF r
  <2>5. ASSUME NEW i \in 1 .. Len(M)
        PROVE  /\ Counts(M[i], {"DATA"}, id) => M[i].first = r[i - 1] + 1
               /\ Counts(M[i], {"FIN"}, id) => r[i] = z
    <3>1. i + 1 \in 1 .. Len(L) /\ (i + 1) - 1 = i /\ i \in 0 .. Len(L) - 1 BY <1>0, <2>4
    <3>2. Counts(M[i], {"DATA"}, id) => L[i + 1].first = t[(i + 1) - 1] + 1 BY <1>1, <2>4, <3>1
    <3> QED BY <1>1, <2>1, <2>4, <2>7, <3>1, <3>2
  <2> QED BY <1>1, <2>1, <2>2, <2>3, <2>5 DEF DataLine
<1> QED BY <1>2, <1>3, <1>4 DEF Carries

\* The first frame of the line: DATA is the next byte expected, FIN says that all bytes
\* have come.
LEMMA DataLineTaken ==
  ASSUME NEW L \in Seq(Frames), L # <<>>, NEW id, NEW a, NEW z, DataLine(L, id, a, z)
  PROVE  /\ DataLine(Tail(L), id, a + Weight(Head(L), {"DATA"}, id), z)
         /\ a + Weight(Head(L), {"DATA"}, id) <= z
         /\ Counts(Head(L), {"DATA"}, id) => Head(L).first = a + 1
         /\ Counts(Head(L), {"FIN"}, id) => a + Weight(Head(L), {"DATA"}, id) = z
<1>1. PICK t : /\ Along(L, {"DATA"}, id, t) /\ t[0] = a /\ t[Len(L)] = z
               /\ \A i \in 1 .. Len(L) : Counts(L[i], {"DATA"}, id) => L[i].first = t[i - 1] + 1
               /\ \A i \in 1 .. Len(L) : Counts(L[i], {"FIN"}, id) => t[i] = z
  BY DEF DataLine
<1> DEFINE M == Tail(L)
           r == Rest(L, t)
           w == Weight(Head(L), {"DATA"}, id)
<1>0. Len(L) \in Nat \ {0} /\ Head(L) = L[1] BY EmptySeq, LenProperties
<1>2. /\ Along(M, {"DATA"}, id, r) /\ r[0] = t[0] + w
      /\ r[Len(M)] = t[Len(L)] /\ \A i \in 1 .. Len(M) : r[i - 1] = t[i]
      /\ r[0] <= t[Len(L)]
  BY <1>1, RestAlong
<1>4. Len(M) = Len(L) - 1 /\ \A i \in 1 .. Len(M) : M[i] = L[i + 1] BY HeadTailProperties
<1>7. \A i \in 0 .. Len(L) - 1 : r[i] = t[i + 1] BY DEF Rest
<1>5. /\ Counts(Head(L), {"DATA"}, id) => Head(L).first = a + 1
      /\ Counts(Head(L), {"FIN"}, id) => r[0] = z
  <2>1. 1 \in 1 .. Len(L) /\ 1 - 1 = 0 /\ 0 \in 0 .. Len(L) - 1 /\ 0 + 1 = 1 BY <1>0
  <2> HIDE DEF r
  <2> QED BY <1>0, <1>1, <1>7, <2>1
<1> HIDE DEF r, M, w
<1>6. ASSUME NEW i \in 1 .. Len(M)
      PROVE  /\ Counts(M[i], {"DATA"}, id) => M[i].first = r[i - 1] + 1
             /\ Counts(M[i], {"FIN"}, id) => r[i] = z
  <2>1. i + 1 \in 1 .. Len(L) /\ (i + 1) - 1 = i /\ i \in 0 .. Len(L) - 1 BY <1>0, <1>4
  <2>2. Counts(M[i], {"DATA"}, id) => L[i + 1].first = t[(i + 1) - 1] + 1 BY <1>1, <1>4, <2>1
  <2> QED BY <1>1, <1>2, <1>4, <1>7, <2>1, <2>2
<1>8. DataLine(M, id, a + w, z) BY <1>1, <1>2, <1>6 DEF DataLine
<1> QED BY <1>1, <1>2, <1>5, <1>8 DEF M, w

\* Frames behind the last one, and what they add.
LEMMA DataLineJoined ==
  ASSUME NEW L \in Seq(Frames), NEW F \in Seq(Frames), NEW id, NEW a, NEW z, DataLine(L, id, a, z),
         NoneOf(L, {"FIN"}, id), NEW v, NEW n \in Nat, Along(F, {"DATA"}, id, v), v[0] = 0,
                  v[Len(F)] = n,
         \A i \in 1 .. Len(F) : /\ Counts(F[i], {"DATA"}, id) => F[i].first = (z + 1) + v[i - 1]
                                /\ Counts(F[i], {"FIN"}, id) => v[i] = n
  PROVE  DataLine(L \o F, id, a, z + n)
<1>1. PICK t : /\ Along(L, {"DATA"}, id, t) /\ t[0] = a /\ t[Len(L)] = z
               /\ \A i \in 1 .. Len(L) : Counts(L[i], {"DATA"}, id) => L[i].first = t[i - 1] + 1
  BY DEF DataLine
<1> DEFINE M == L \o F
<1>2. z \in Nat BY LineEnds
<1>3. L \in Seq(Frames) /\ Along(L, {"DATA"}, id, t) BY <1>1
<1>4. F \in Seq(Frames) /\ Along(F, {"DATA"}, id, v) OBVIOUS
<1>5. v[0] = 0 /\ v[Len(F)] = n OBVIOUS
<1>6. PICK r : /\ Along(M, {"DATA"}, id, r) /\ r[0] = t[0] /\ r[Len(M)] = t[Len(L)] + n
               /\ \A i \in 0 .. Len(L) : r[i] = t[i]
               /\ \A i \in 0 .. Len(F) : r[Len(L) + i] = t[Len(L)] + v[i]
  BY ONLY <1>3, <1>4, <1>5, JoinedAlong
<1>7. Len(L) \in Nat /\ Len(F) \in Nat BY LenProperties
<1>8. v \in [0 .. Len(F) -> Nat] BY DEF Along
<1>9. ASSUME NEW i \in 1 .. Len(M)
      PROVE  /\ Counts(M[i], {"DATA"}, id) => M[i].first = r[i - 1] + 1
             /\ Counts(M[i], {"FIN"}, id) => r[i] = z + n
  <2>1. Len(M) = Len(L) + Len(F) /\ M[i] = IF i <= Len(L) THEN L[i] ELSE F[i - Len(L)]
    BY ConcatProperties
  <2>2. CASE i <= Len(L)
    <3>1. i \in 1 .. Len(L) /\ i - 1 \in 0 .. Len(L) BY <1>7, <2>1, <2>2
    <3>2. M[i] = L[i] BY <2>1, <2>2
    <3> HIDE DEF M
    <3> QED BY <1>1, <1>6, <3>1, <3>2 DEF NoneOf
  <2>3. CASE ~(i <= Len(L))
    <3> DEFINE j == i - Len(L)
    <3>1. j \in 1 .. Len(F) /\ j \in 0 .. Len(F) /\ j - 1 \in 0 .. Len(F)
             /\ i - 1 = Len(L) + (j - 1) /\ i = Len(L) + j
      BY <1>7, <2>1, <2>3
    <3>2. M[i] = F[j] BY <2>1, <2>3
    <3> HIDE DEF j, M
    <3>4. r[i - 1] = z + v[j - 1] /\ r[i] = z + v[j] BY <1>1, <1>6, <3>1
    <3>5. v[j - 1] \in Nat BY <1>8, <3>1
    <3>6. \A x \in Nat : z + x + 1 = (z + 1) + x BY <1>2
    <3> QED BY <3>1, <3>2, <3>4, <3>5, <3>6
  <2> QED BY <2>2, <2>3
<1> QED BY <1>1, <1>6, <1>9 DEF DataLine

\* Write sends the bytes after the last one on the line.
LEMMA DataLineWritten ==
  ASSUME NEW L \in Seq(Frames), NEW id \in Ids, NEW a, NEW z, DataLine(L, id, a, z),
         NoneOf(L, {"FIN"}, id), NEW size \in Nat \ {0}
  PROVE  DataLine(L \o dataFrames(id, z + 1, size), id, a, z + size)
<1> DEFINE F == dataFrames(id, z + 1, size)
<1>2. z \in Nat BY LineEnds
<1>3. z + 1 \in Nat BY <1>2
<1>4. /\ F \in Seq(Frames)
      /\ \A i \in 1 .. Len(F) : F[i].type = "DATA"
      /\ \E v : /\ Along(F, {"DATA"}, id, v) /\ v[0] = 0 /\ v[Len(F)] = size
                /\ \A i \in 1 .. Len(F) : F[i].first = (z + 1) + v[i - 1]
  BY <1>3, DataFramesAre
<1>5. PICK v : /\ Along(F, {"DATA"}, id, v) /\ v[0] = 0 /\ v[Len(F)] = size
               /\ \A i \in 1 .. Len(F) : F[i].first = (z + 1) + v[i - 1]
  BY <1>4
<1> HIDE DEF F
<1>6. F \in Seq(Frames) BY <1>4
<1>7. \A i \in 1 .. Len(F) : ~Counts(F[i], {"FIN"}, id) BY <1>4 DEF Counts
<1>8. DataLine(L \o F, id, a, z + size) BY <1>5, <1>6, <1>7, DataLineJoined
<1> QED BY <1>8 DEF F

\* FIN goes behind the last byte.
LEMMA DataLineEnded ==
  ASSUME NEW L \in Seq(Frames), NEW id, NEW a, NEW z, DataLine(L, id, a, z),
         NoneOf(L, {"FIN"}, id), NEW f \in Frames, f.type = "FIN"
  PROVE  DataLine(L \o <<f>>, id, a, z)
<1> DEFINE F == <<f>>
           w == Weight(f, {"DATA"}, id)
           v == [i \in 0 .. 1 |-> IF i = 0 THEN 0 ELSE w]
<1>1. Along(F, {"DATA"}, id, v) BY OneAlong
<1>2. w = 0 BY DEF Weight, Counts
<1>3. Len(F) = 1 /\ F[1] = f /\ v[0] = 0 /\ v[1] = 0 BY <1>2
<1>4. F \in Seq(Frames) OBVIOUS
<1>5. \A i \in 1 .. Len(F) : i = 1 BY <1>3
<1> HIDE DEF F, v
<1>6. \A i \in 1 .. Len(F) : /\ Counts(F[i], {"DATA"}, id) => F[i].first = (z + 1) + v[i - 1]
                             /\ Counts(F[i], {"FIN"}, id) => v[i] = 0
  BY <1>3, <1>5 DEF Counts
<1>7. v[Len(F)] = 0 /\ v[0] = 0 BY <1>3
<1>8. DataLine(L \o F, id, a, z + 0) BY <1>1, <1>4, <1>6, <1>7, DataLineJoined
<1>9. z + 0 = z BY LineEnds
<1> QED BY <1>8, <1>9 DEF F

-----------------------------------------------------------------------------
(* What is not on a link, or ends it. *)

\* A line without frames of a kind stays so when no such frame is added.
LEMMA NoneCarried ==
  ASSUME NEW L \in Seq(Frames), NEW M, NEW id, NEW K, NEW J, J \subseteq K,
         NoneOf(L, J, id), Carries(L, M, K, id)
  PROVE  NoneOf(M, J, id)
<1>0. Len(L) \in Nat BY LenProperties
<1>1. CASE M = L BY <1>1
<1>2. CASE \E F \in Seq(Frames) : M = L \o F /\ NoneOf(F, K, id)
  <2>1. PICK F \in Seq(Frames) : M = L \o F /\ NoneOf(F, K, id) BY <1>2
  <2>2. Len(F) \in Nat BY LenProperties
  <2>3. /\ Len(M) = Len(L) + Len(F)
        /\ \A i \in 1 .. Len(M) : M[i] = IF i <= Len(L) THEN L[i] ELSE F[i - Len(L)]
    BY <2>1, ConcatProperties
  <2>4. \A i \in 1 .. Len(M) : i <= Len(L) => i \in 1 .. Len(L) BY <1>0, <2>2, <2>3
  <2>5. \A i \in 1 .. Len(M) : ~(i <= Len(L)) => i - Len(L) \in 1 .. Len(F) BY <1>0, <2>2, <2>3
  <2> QED BY <2>1, <2>3, <2>4, <2>5 DEF NoneOf, Counts
<1>3. CASE L # <<>> /\ M = Tail(L)
  <2>1. Len(M) = Len(L) - 1 /\ \A i \in 1 .. Len(M) : M[i] = L[i + 1] BY <1>3, HeadTailProperties
  <2>2. \A i \in 1 .. Len(M) : i + 1 \in 1 .. Len(L) BY <1>0, <2>1
  <2> QED BY <2>1, <2>2 DEF NoneOf
<1> QED BY <1>1, <1>2, <1>3 DEF Carries

\* The same for the end of a stream.
LEMMA FinCarried ==
  ASSUME NEW L \in Seq(Frames), NEW M, NEW id,
         FinLine(L, id), Carries(L, M, {"DATA", "FIN"}, id)
  PROVE  FinLine(M, id)
<1>0. Len(L) \in Nat BY LenProperties
<1>1. CASE M = L BY <1>1
<1>2. CASE \E F \in Seq(Frames) : M = L \o F /\ NoneOf(F, {"DATA", "FIN"}, id)
  <2>1. PICK F \in Seq(Frames) : M = L \o F /\ NoneOf(F, {"DATA", "FIN"}, id) BY <1>2
  <2>2. Len(F) \in Nat BY LenProperties
  <2>3. /\ Len(M) = Len(L) + Len(F)
        /\ \A i \in 1 .. Len(M) : M[i] = IF i <= Len(L) THEN L[i] ELSE F[i - Len(L)]
    BY <2>1, ConcatProperties
  <2>4. \A i \in 1 .. Len(M) : i <= Len(L) => i \in 1 .. Len(L) BY <1>0, <2>2, <2>3
  <2>5. \A i \in 1 .. Len(M) : ~(i <= Len(L)) => i - Len(L) \in 1 .. Len(F) BY <1>0, <2>2, <2>3
  <2> QED BY <2>1, <2>3, <2>4, <2>5 DEF NoneOf, FinLine, Counts
<1>3. CASE L # <<>> /\ M = Tail(L)
  <2>1. Len(M) = Len(L) - 1 /\ \A i \in 1 .. Len(M) : M[i] = L[i + 1] BY <1>3, HeadTailProperties
  <2>2. \A i \in 1 .. Len(M) : i + 1 \in 1 .. Len(L)
           /\ \A j \in 1 .. Len(M) : j > i => j + 1 > i + 1 BY <1>0, <2>1
  <2> QED BY <2>1, <2>2 DEF FinLine
<1> QED BY <1>1, <1>2, <1>3 DEF Carries

\* When FIN is received nothing of the stream's data is behind it.
LEMMA FinTaken ==
  ASSUME NEW L \in Seq(Frames), L # <<>>, NEW id, FinLine(L, id)
  PROVE  /\ FinLine(Tail(L), id)
         /\ \A K : NoneOf(L, K, id) => NoneOf(Tail(L), K, id) /\ ~Counts(Head(L), K, id)
         /\ Counts(Head(L), {"FIN"}, id) => NoneOf(Tail(L), {"DATA", "FIN"}, id)
<1>0. Len(L) \in Nat \ {0} /\ Head(L) = L[1] BY EmptySeq, LenProperties
<1>1. Len(Tail(L)) = Len(L) - 1
         /\ \A i \in 1 .. Len(Tail(L)) : Tail(L)[i] = L[i + 1] BY HeadTailProperties
<1>2. \A i \in 1 .. Len(L) - 1 : i + 1 \in 1 .. Len(L) /\ i + 1 > 1
         /\ \A j \in 1 .. Len(L) - 1 : j > i => j + 1 > i + 1
  BY <1>0
<1>3. 1 \in 1 .. Len(L) BY <1>0
<1>4. FinLine(Tail(L), id) BY <1>1, <1>2 DEF FinLine
<1>5. \A K : NoneOf(L, K, id) => NoneOf(Tail(L), K, id) /\ ~Counts(Head(L), K, id)
  BY <1>0, <1>1, <1>2, <1>3 DEF NoneOf
<1>6. Counts(Head(L), {"FIN"}, id) => NoneOf(Tail(L), {"DATA", "FIN"}, id)
  BY <1>0, <1>1, <1>2, <1>3 DEF NoneOf, FinLine
<1> QED BY <1>4, <1>5, <1>6

\* One frame behind a line without FIN.
LEMMA FinAdded ==
  ASSUME NEW L \in Seq(Frames), NEW id, NoneOf(L, {"FIN"}, id), NEW f \in Frames
  PROVE  FinLine(L \o <<f>>, id)
<1> DEFINE F == <<f>>
           M == L \o F
<1>1. F \in Seq(Frames) /\ Len(F) = 1 OBVIOUS
<1>0. Len(L) \in Nat BY LenProperties
<1> HIDE DEF F
<1>2. /\ Len(M) = Len(L) + 1
      /\ \A i \in 1 .. Len(M) : M[i] = IF i <= Len(L) THEN L[i] ELSE F[i - Len(L)]
  BY <1>1, ConcatProperties
<1>3. \A i \in 1 .. Len(M) : i <= Len(L) => i \in 1 .. Len(L) BY <1>0, <1>2
<1>4. \A i, j \in 1 .. Len(M) : ~(i <= Len(L)) => ~(j > i) BY <1>0, <1>2
<1> HIDE DEF M
<1>5. FinLine(M, id) BY <1>2, <1>3, <1>4 DEF FinLine, NoneOf
<1> QED BY <1>5 DEF M, F

\* A line without FIN has nothing after it.
LEMMA NoFinIsLine ==
  ASSUME NEW L, NEW id, NoneOf(L, {"FIN"}, id)
  PROVE  FinLine(L, id)
BY DEF NoneOf, FinLine

-----------------------------------------------------------------------------
(* The ids on a line.                                                      *)

\* The initiator opens the odd ids, the responder the even ones (nextID).
Mine(e, id) == (id % 2 = 1) = (e = "init")

\* The OPEN frames on the line to e are the ids that follow a, one by one, up to z;
\* every other frame names an id that its receiver will know by then, its own (up to n)
\* or one opened before it.
OpenLine(L, e, a, z, n) ==
  \E o : /\ o \in [0 .. Len(L) -> Nat] /\ o[0] = a /\ o[Len(L)] = z
         /\ \A i \in 0 .. Len(L) : o[i] <= z
         /\ \A i \in 1 .. Len(L) :
              IF L[i].type = "OPEN" THEN L[i].id = nextId(o[i - 1], e # "init") /\ o[i] = L[i].id
              ELSE o[i] = o[i - 1] /\ L[i].id <= IF Mine(e, L[i].id) THEN n ELSE o[i]

\* Ids are positive, and the fields of a frame have their types.
LEMMA FrameFields ==
  /\ \A id \in Ids : id \in Nat \ {0}
  /\ \A f \in Frames : f.id \in Ids /\ f.id \in Nat \ {0} /\ f.size \in Nat /\ f.type \in Kinds
<1>1. \A id \in Ids : id \in Nat \ {0} BY MuxAssumption DEF Ids
<1>2. \A f \in Frames : f.id \in Ids /\ f.size \in Nat /\ f.type \in Kinds BY DEF Frames
<1> QED BY <1>1, <1>2

\* The two ends.
LEMMA PeerIsEnd ==
  ASSUME NEW e \in Ends
  PROVE  /\ Peer(e) \in Ends /\ Peer(e) # e /\ Peer(Peer(e)) = e /\ Ends = {e, Peer(e)}
         /\ \A id : Mine(Peer(e), id) <=> ~Mine(e, id)
         /\ (e # "init") <=> (Peer(e) = "init")
BY DEF Ends, Peer, Mine

\* nextID gives the next id of the end's own parity.
LEMMA NextIsMine ==
  ASSUME NEW e \in Ends, NEW last \in Nat, last = 0 \/ Mine(e, last)
  PROVE  /\ nextId(last, e = "init") \in Nat \ {0} /\ nextId(last, e = "init") > last
         /\ Mine(e, nextId(last, e = "init"))
         /\ \A id \in Nat \ {0} : Mine(e, id) =>
              (id <= nextId(last, e = "init") <=> id <= last \/ id = nextId(last, e = "init"))
<1>1. CASE e = "init" BY <1>1 DEF nextId, Mine
<1>2. CASE e = "resp" BY <1>2 DEF nextId, Mine
<1> QED BY <1>1, <1>2 DEF Ends

\* The ids on a line are ordered.
LEMMA OpenLineEnds ==
  ASSUME NEW L \in Seq(Frames), NEW e, NEW a, NEW z, NEW n, OpenLine(L, e, a, z, n)
  PROVE  a \in Nat /\ z \in Nat /\ a <= z
<1>1. Len(L) \in Nat BY LenProperties
<1>2. 0 \in 0 .. Len(L) /\ Len(L) \in 0 .. Len(L) BY <1>1
<1> QED BY <1>2 DEF OpenLine

\* An empty line opens nothing.
LEMMA OpenLineEmpty ==
  ASSUME NEW e, NEW a \in Nat, NEW n
  PROVE  OpenLine(<<>>, e, a, a, n)
<1> DEFINE o == [i \in 0 .. 0 |-> a]
<1>1. Len(<<>>) = 0 BY EmptySeq
<1>2. 1 .. 0 = {} /\ 0 .. 0 = {0} OBVIOUS
<1>3. o \in [0 .. 0 -> Nat] /\ o[0] = a OBVIOUS
<1>4. \A i \in 0 .. 0 : o[i] <= a BY <1>2, <1>3
<1> HIDE DEF o
<1> QED BY <1>1, <1>2, <1>3, <1>4 DEF OpenLine

\* Later ids of this end only make more frames known.
LEMMA OpenLineMore ==
  ASSUME NEW L \in Seq(Frames), NEW e, NEW a, NEW z, NEW n \in Nat, NEW m \in Nat, n <= m,
         OpenLine(L, e, a, z, n)
  PROVE  OpenLine(L, e, a, z, m)
<1>1. PICK o :
         /\ o \in [0 .. Len(L) -> Nat] /\ o[0] = a /\ o[Len(L)] = z
         /\ \A i \in 0 .. Len(L) : o[i] <= z
         /\ \A i \in 1 .. Len(L) :
              IF L[i].type = "OPEN" THEN L[i].id = nextId(o[i - 1], e # "init") /\ o[i] = L[i].id
              ELSE o[i] = o[i - 1] /\ L[i].id <= IF Mine(e, L[i].id) THEN n ELSE o[i]
  BY DEF OpenLine
<1>2. \A i \in 1 .. Len(L) : L[i].id \in Nat BY ElementOfSeq, FrameFields
<1>3. ASSUME NEW i \in 1 .. Len(L)
      PROVE  IF L[i].type = "OPEN" THEN L[i].id = nextId(o[i - 1], e # "init") /\ o[i] = L[i].id
             ELSE o[i] = o[i - 1] /\ L[i].id <= IF Mine(e, L[i].id) THEN m ELSE o[i]
  <2>1. \A x \in Nat : x <= n => x <= m OBVIOUS
  <2> QED BY <1>1, <1>2, <2>1
<1> QED BY <1>1, <1>3 DEF OpenLine

\* The first frame of the line: an OPEN is the id that admitOpen expects, any other
\* frame names an id that is known.
LEMMA OpenLineTaken ==
  ASSUME NEW L \in Seq(Frames), L # <<>>, NEW e, NEW a, NEW z, NEW n, OpenLine(L, e, a, z, n)
  PROVE  /\ Head(L).type = "OPEN" =>
              /\ Head(L).id = nextId(a, e # "init") /\ Head(L).id <= z
              /\ OpenLine(Tail(L), e, Head(L).id, z, n)
         /\ Head(L).type # "OPEN" =>
              /\ Head(L).id <= IF Mine(e, Head(L).id) THEN n ELSE a
              /\ OpenLine(Tail(L), e, a, z, n)
<1>1. PICK o :
         /\ o \in [0 .. Len(L) -> Nat] /\ o[0] = a /\ o[Len(L)] = z
         /\ \A i \in 0 .. Len(L) : o[i] <= z
         /\ \A i \in 1 .. Len(L) :
              IF L[i].type = "OPEN" THEN L[i].id = nextId(o[i - 1], e # "init") /\ o[i] = L[i].id
              ELSE o[i] = o[i - 1] /\ L[i].id <= IF Mine(e, L[i].id) THEN n ELSE o[i]
  BY DEF OpenLine
<1> DEFINE m == Len(L) - 1
           M == Tail(L)
           r == [i \in 0 .. m |-> o[i + 1]]
<1>2. Len(L) \in Nat \ {0} /\ Head(L) = L[1] BY EmptySeq, LenProperties
<1>3. Len(M) = m /\ \A i \in 1 .. m : M[i] = L[i + 1] BY HeadTailProperties
<1>4. m \in Nat /\ Len(L) = m + 1 BY <1>2
<1> HIDE DEF m, M
<1>5. \A i \in 0 .. m : r[i] = o[i + 1] /\ i + 1 \in 0 .. Len(L) BY <1>4
<1>6. r \in [0 .. m -> Nat] BY <1>1, <1>5
<1>7. r[m] = z /\ \A i \in 0 .. m : r[i] <= z BY <1>1, <1>4, <1>5
<1>8. ASSUME NEW i \in 1 .. m
      PROVE  IF M[i].type = "OPEN" THEN M[i].id = nextId(r[i - 1], e # "init") /\ r[i] = M[i].id
             ELSE r[i] = r[i - 1] /\ M[i].id <= IF Mine(e, M[i].id) THEN n ELSE r[i]
  <2>1. i \in 0 .. m /\ i - 1 \in 0 .. m /\ (i - 1) + 1 = i /\ i + 1 \in 1 .. Len(L)
           /\ (i + 1) - 1 = i BY <1>4
  <2>2. r[i] = o[i + 1] /\ r[i - 1] = o[i] BY <1>5, <2>1
  <2>3. M[i] = L[i + 1] BY <1>3
  <2>4. IF L[i + 1].type = "OPEN" THEN L[i + 1].id = nextId(o[(i + 1) - 1], e # "init")
           /\ o[i + 1] = L[i + 1].id
        ELSE o[i + 1] = o[(i + 1) - 1] /\ L[i + 1].id <= IF Mine(e,
                 L[i + 1].id) THEN n ELSE o[i + 1]
    BY <1>1, <2>1
  <2> HIDE DEF r
  <2> QED BY <2>1, <2>2, <2>3, <2>4
<1>9. OpenLine(M, e, r[0], z, n)
  <2> HIDE DEF r
  <2> QED BY <1>3, <1>6, <1>7, <1>8 DEF OpenLine
<1>10. r[0] = o[1] BY <1>4
<1>11. /\ IF L[1].type = "OPEN" THEN L[1].id = nextId(o[0], e # "init") /\ o[1] = L[1].id
          ELSE o[1] = o[0] /\ L[1].id <= IF Mine(e, L[1].id) THEN n ELSE o[1]
       /\ o[1] <= z
  <2>1. 1 \in 1 .. Len(L) /\ 1 - 1 = 0 /\ 1 \in 0 .. Len(L) BY <1>2
  <2> QED BY <1>1, <2>1
<1> HIDE DEF r
<1> QED BY <1>1, <1>2, <1>9, <1>10, <1>11 DEF M

\* Frames that open nothing go behind the rest when the receiver will know their ids.
LEMMA OpenLineSent ==
  ASSUME NEW L \in Seq(Frames), NEW F \in Seq(Frames), NEW e, NEW a, NEW z, NEW n, OpenLine(L, e,
           a, z, n),
         \A i \in 1 .. Len(F) : F[i].type # "OPEN" /\ (F[i].id <= IF Mine(e, F[i].id) THEN n ELSE z)
  PROVE  OpenLine(L \o F, e, a, z, n)
<1>1. PICK o :
         /\ o \in [0 .. Len(L) -> Nat] /\ o[0] = a /\ o[Len(L)] = z
         /\ \A i \in 0 .. Len(L) : o[i] <= z
         /\ \A i \in 1 .. Len(L) :
              IF L[i].type = "OPEN" THEN L[i].id = nextId(o[i - 1], e # "init") /\ o[i] = L[i].id
              ELSE o[i] = o[i - 1] /\ L[i].id <= IF Mine(e, L[i].id) THEN n ELSE o[i]
  BY DEF OpenLine
<1> DEFINE k == Len(L)
           m == Len(F)
           M == L \o F
           r == [i \in 0 .. k + m |-> IF i <= k THEN o[i] ELSE z]
<1>2. k \in Nat /\ m \in Nat BY LenProperties
<1>3. Len(M) = k + m
         /\ \A i \in 1 .. k + m : M[i] = IF i <= k THEN L[i] ELSE F[i - k] BY ConcatProperties
<1>4. z \in Nat BY OpenLineEnds
<1> HIDE DEF k, m, M
<1>5. /\ \A i \in 0 .. k : r[i] = o[i]
      /\ \A i \in k .. k + m : r[i] = z
  <2>1. \A i \in 0 .. k : r[i] = o[i] BY <1>2
  <2>2. o[k] = z BY <1>1 DEF k
  <2>3. \A i \in k .. k + m : r[i] = z BY <1>2, <2>2
  <2> QED BY <2>1, <2>3
<1>6. r \in [0 .. k + m -> Nat] BY <1>1, <1>2, <1>4 DEF k
<1>7. r[0] = a /\ r[k + m] = z /\ \A i \in 0 .. k + m : r[i] <= z
  <2>1. 0 \in 0 .. k /\ k + m \in k .. k + m BY <1>2
  <2>2. ASSUME NEW i \in 0 .. k + m PROVE r[i] <= z
    <3>1. i \in 0 .. k \/ i \in k .. k + m BY <1>2
    <3> HIDE DEF r
    <3> QED BY <1>1, <1>4, <1>5, <3>1 DEF k
  <2> HIDE DEF r
  <2> QED BY <1>1, <1>5, <2>1, <2>2
<1>8. ASSUME NEW i \in 1 .. k + m
      PROVE  IF M[i].type = "OPEN" THEN M[i].id = nextId(r[i - 1], e # "init") /\ r[i] = M[i].id
             ELSE r[i] = r[i - 1] /\ M[i].id <= IF Mine(e, M[i].id) THEN n ELSE r[i]
  <2> HIDE DEF r
  <2>1. CASE i <= k
    <3>1. i \in 1 .. k /\ i \in 0 .. k /\ i - 1 \in 0 .. k BY <1>2, <2>1
    <3>2. M[i] = L[i] BY <1>3, <2>1
    <3>3. r[i] = o[i] /\ r[i - 1] = o[i - 1] BY <1>5, <3>1
    <3> QED BY <1>1, <3>1, <3>2, <3>3 DEF k
  <2>2. CASE ~(i <= k)
    <3>1. i - k \in 1 .. m /\ i \in k .. k + m /\ i - 1 \in k .. k + m BY <1>2, <2>2
    <3>2. M[i] = F[i - k] BY <1>3, <2>2
    <3>3. r[i] = z /\ r[i - 1] = z BY <1>5, <3>1
    <3>4. F[i - k].type # "OPEN" /\ (F[i - k].id <= IF Mine(e,
             F[i - k].id) THEN n ELSE z) BY <3>1 DEF m
    <3> QED BY <3>2, <3>3, <3>4
  <2> QED BY <2>1, <2>2
<1> HIDE DEF r
<1> QED BY <1>3, <1>6, <1>7, <1>8 DEF OpenLine, M

\* OpenStream's id follows the last one on the line.
LEMMA OpenLineOpened ==
  ASSUME NEW L \in Seq(Frames), NEW f \in Frames, NEW e, NEW a, NEW z, NEW n, OpenLine(L, e, a,
           z, n),
         f.type = "OPEN", f.id = nextId(z, e # "init"), f.id > z
  PROVE  OpenLine(L \o <<f>>, e, a, f.id, n)
<1>1. PICK o :
         /\ o \in [0 .. Len(L) -> Nat] /\ o[0] = a /\ o[Len(L)] = z
         /\ \A i \in 0 .. Len(L) : o[i] <= z
         /\ \A i \in 1 .. Len(L) :
              IF L[i].type = "OPEN" THEN L[i].id = nextId(o[i - 1], e # "init") /\ o[i] = L[i].id
              ELSE o[i] = o[i - 1] /\ L[i].id <= IF Mine(e, L[i].id) THEN n ELSE o[i]
  BY DEF OpenLine
<1> DEFINE k == Len(L)
           M == L \o <<f>>
           r == [i \in 0 .. k + 1 |-> IF i <= k THEN o[i] ELSE f.id]
<1>2. k \in Nat BY LenProperties
<1>3. Len(M) = k + 1 /\ (\A i \in 1 .. k : M[i] = L[i]) /\ M[k + 1] = f
  BY <1>2, AppendProperties, AppendIsConcat
<1>4. z \in Nat /\ f.id \in Nat BY OpenLineEnds, FrameFields
<1> HIDE DEF k, M
<1>5. (\A i \in 0 .. k : r[i] = o[i]) /\ r[k + 1] = f.id BY <1>2
<1>6. r \in [0 .. k + 1 -> Nat] BY <1>1, <1>2, <1>4 DEF k
<1> HIDE DEF r
<1>7. r[0] = a /\ \A i \in 0 .. k + 1 : r[i] <= f.id
  <2>1. 0 \in 0 .. k BY <1>2
  <2>2. ASSUME NEW i \in 0 .. k + 1 PROVE r[i] <= f.id
    <3>1. i \in 0 .. k \/ i = k + 1 BY <1>2
    <3>2. CASE i \in 0 .. k
      <4>1. r[i] = o[i] /\ o[i] <= z /\ o[i] \in Nat BY <1>1, <1>5, <3>2 DEF k
      <4> QED BY <1>4, <4>1
    <3>3. CASE i = k + 1 BY <1>4, <1>5, <3>3
    <3> QED BY <3>1, <3>2, <3>3
  <2> QED BY <1>1, <1>5, <2>1, <2>2
<1>8. ASSUME NEW i \in 1 .. k + 1
      PROVE  IF M[i].type = "OPEN" THEN M[i].id = nextId(r[i - 1], e # "init") /\ r[i] = M[i].id
             ELSE r[i] = r[i - 1] /\ M[i].id <= IF Mine(e, M[i].id) THEN n ELSE r[i]
  <2>1. CASE i <= k
    <3>1. i \in 1 .. k /\ i \in 0 .. k /\ i - 1 \in 0 .. k BY <1>2, <2>1
    <3>2. M[i] = L[i] BY <1>3, <3>1
    <3>3. r[i] = o[i] /\ r[i - 1] = o[i - 1] BY <1>5, <3>1
    <3> QED BY <1>1, <3>1, <3>2, <3>3 DEF k
  <2>2. CASE ~(i <= k)
    <3>1. i = k + 1 /\ i - 1 = k /\ k \in 0 .. k BY <1>2, <2>2
    <3>2. M[i] = f /\ r[i] = f.id /\ r[i - 1] = o[k] BY <1>3, <1>5, <3>1
    <3>3. o[k] = z BY <1>1 DEF k
    <3> QED BY <3>2, <3>3
  <2> QED BY <2>1, <2>2
<1>9. OpenLine(M, e, a, f.id, n) BY <1>3, <1>5, <1>6, <1>7, <1>8 DEF OpenLine
<1> QED BY <1>9 DEF M

-----------------------------------------------------------------------------
(* The inductive invariant.                                                *)

\* The stream still exchanges frames at e, or is not known there yet.
Live(e, id) == err[e] = "" /\ (id \in streams[e] \/ ~knew(e, id))

\* Nothing more is written to the stream by e.
Mute(e, id) == stream[<<e, id>>].writeClosed \/ stream[<<e, id>>].err # ""

\* An application of e has the stream, or it waits to be accepted.
Used(e, id) == id \in held[e] \/ \E i \in 1 .. Len(accepted[e]) : accepted[e][i] = id

\* The credit that has reached the writer at e, spent or not.
received(e, id) ==
  IF stream[<<e, id>>].credit = NoWindow THEN 0 ELSE stream[<<e, id>>].credit + wrote[<<e, id>>]

\* The credit that e has given away: the window when the stream is known, and what was
\* read since.
issued(e, id) == got[<<e, id>>] + (IF knew(e, id) THEN StreamWindowBytes ELSE 0)

\* The bytes that have reached e, read or not.
arrived(e, id) == got[<<e, id>>] + stream[<<e, id>>].buffered

\* The fields of a stream within their bounds.
Sized(s) ==
  /\ s.credit \in NoWindow .. StreamWindowBytes /\ s.owed \in 0 .. StreamWindowBytes
  /\ Placed(s) /\ s.queue \in [0 .. StreamWindowBytes - 1 -> 0 .. MaxBytes]

\* No mux fails but by being closed, and the ids and counters have their types.
Base ==
  /\ err \in [Ends -> {"", "closed"}]
  /\ lastLocal \in [Ends -> 0 .. MaxId] /\ lastRemote \in [Ends -> 0 .. MaxId]
  /\ got \in [Ends \X Ids -> Nat]
  /\ listening \in [Ends -> BOOLEAN] /\ linkUp \in BOOLEAN
  /\ waiting \subseteq Ends \X Ids \X {"read", "write"}

\* The last ids given out and admitted have their end's parity, and no id is admitted
\* that was not opened.
Parity(e) ==
  /\ lastLocal[e] = 0 \/ Mine(e, lastLocal[e])
  /\ lastRemote[e] = 0 \/ ~Mine(e, lastRemote[e])
  /\ lastRemote[e] <= lastLocal[Peer(e)]

\* A mux that ended holds no stream.
Ended(e) == err[e] # "" => streams[e] = {} /\ accepted[e] = <<>>

\* The frames on the line are ones that the framing admits.
Sent(e) ==
  \A i \in 1 .. Len(link[e]) :
    /\ link[e][i].type = "DATA" => link[e][i].size \in 1 .. MaxDataBytes
    /\ link[e][i].type = "OPEN" => link[e][i].size = StreamWindowBytes

\* The OPEN frames on the line are the ids between the last admitted and the last given
\* out.
Opens(e) == err[e] = "" => OpenLine(link[e], e, lastRemote[e], lastLocal[Peer(e)], lastLocal[e])

\* A stream in the mux is whole and known, an unknown one is fresh, one that an
\* application has is in the mux until it is done.
Known(e, id) ==
  /\ id \in streams[e] => stream[<<e, id>>].err = ""
  /\ id \in streams[e] \/ Used(e, id) => knew(e, id)
  /\ ~knew(e, id) => stream[<<e, id>>] = Fresh
  /\ Used(e, id) /\ stream[<<e, id>>].err = "" => id \in streams[e] \/ retires(stream[<<e, id>>])
  /\ want[<<e, id>>] > 0 => id \in held[e]

\* What both ends send stays within the bound, and no more arrives than was sent.
Budget(e, id) ==
  /\ wrote[<<e, id>>] + want[<<e, id>>] + wrote[<<Peer(e), id>>] + want[<<Peer(e), id>>] <= MaxBytes
  /\ arrived(e, id) <= wrote[<<Peer(e), id>>]

\* The stream's fields are within their bounds and its ring holds the next bytes.
Whole(e, id) == Sized(stream[<<e, id>>]) /\ Ring(stream[<<e, id>>], got[<<e, id>>])

\* FIN has come: the other end wrote no more, and all that it wrote is here.
FinOK(e, id) ==
  stream[<<e, id>>].finished => Mute(Peer(e), id) /\ arrived(e, id) = wrote[<<Peer(e), id>>]

\* The bytes on the way are exactly those between what arrived and what was written,
\* they fit into the window, and FIN is the last of them.
DataOK(e, id) ==
  Live(e, id) =>
    /\ DataLine(link[e], id, arrived(e, id), wrote[<<Peer(e), id>>])
    /\ wrote[<<Peer(e), id>>] - got[<<e, id>>] <= StreamWindowBytes
    /\ FinLine(link[e], id)
    /\ NoneOf(link[e], {"FIN"}, id) \/ Mute(Peer(e), id)
    /\ stream[<<e, id>>].finished => NoneOf(link[e], {"DATA", "FIN"}, id)

\* Before the first credit has come, all credit on the way is the initial window.
Grants(L, id) == \A i \in 1 .. Len(L) : Counts(L[i], Credits, id) => L[i].size = StreamWindowBytes

\* The credit on its way leads from what the writer received to what the reader gave
\* away, never to more than the window, and credit spent but not yet given back makes
\* up the rest of it.
CreditOK(e, id) ==
  Live(e, id) =>
    /\ \E z : /\ CreditLine(link[e], id, received(e, id), z)
              /\ z <= StreamWindowBytes + wrote[<<e, id>>]
              /\ Live(Peer(e), id) => z = issued(Peer(e), id)
    /\ stream[<<e, id>>].credit = NoWindow =>
         stream[<<e, id>>].owed = 0 /\ wrote[<<e, id>>] = 0 /\ Grants(link[e], id)
    /\ stream[<<e, id>>].credit # NoWindow =>
         stream[<<e, id>>].credit + stream[<<e, id>>].owed = StreamWindowBytes

\* The parts about one end.
PerEnd == \A e \in Ends : Parity(e) /\ Ended(e) /\ Sent(e) /\ Opens(e)

\* The parts about one stream at one end.
PerStream ==
  \A e \in Ends, id \in Ids :
    Known(e, id) /\ Budget(e, id) /\ Whole(e, id) /\ FinOK(e, id) /\ DataOK(e, id) /\ CreditOK(e,
             id)

\* The inductive invariant of NoProtocolFailure, ReadsInOrder and TypeOK.
Inv == MuxInv /\ Base /\ PerEnd /\ PerStream

\* Typing facts.
LEMMA Facts ==
  ASSUME MuxInv, Base, NEW e \in Ends, NEW id \in Ids
  PROVE  /\ stream[<<e, id>>] \in Objects
         /\ stream[<<e, id>>].buffered \in Nat /\ stream[<<e, id>>].pending = stream[<<e,
                     id>>].buffered
         /\ stream[<<e, id>>].available = StreamWindowBytes - stream[<<e, id>>].buffered
         /\ stream[<<e, id>>].credit \in Int /\ stream[<<e, id>>].owed \in Int
         /\ link[e] \in Seq(Frames)
         /\ want[<<e, id>>] \in Nat /\ wrote[<<e, id>>] \in Nat /\ got[<<e, id>>] \in Nat
         /\ arrived(e, id) \in Nat /\ got[<<e, id>>] <= arrived(e, id)
         /\ lastLocal[e] \in Nat /\ lastRemote[e] \in Nat
         /\ StreamWindowBytes \in Nat \ {0}
<1>1. stream[<<e, id>>] \in Objects BY DEF MuxInv, Shape
<1>2. stream[<<e, id>>] \in Raw /\ Booked(stream[<<e, id>>]) BY <1>1 DEF Objects
<1>3. /\ stream[<<e, id>>].buffered \in Nat /\ stream[<<e, id>>].pending \in Nat
      /\ stream[<<e, id>>].available \in Nat
      /\ stream[<<e, id>>].credit \in Int /\ stream[<<e, id>>].owed \in Int
  BY <1>2 DEF Raw
<1>4. /\ link[e] \in Seq(Frames) /\ want[<<e, id>>] \in Nat /\ wrote[<<e, id>>] \in Nat
      /\ got[<<e, id>>] \in Nat /\ lastLocal[e] \in Nat /\ lastRemote[e] \in Nat
  <2>1. /\ link[e] \in Seq(Frames) /\ want[<<e, id>>] \in Nat /\ wrote[<<e, id>>] \in Nat
        /\ lastLocal[e] \in Nat
    BY DEF MuxInv, Shape
  <2>2. got[<<e, id>>] \in Nat /\ lastRemote[e] \in 0 .. MaxId BY DEF Base
  <2> QED BY <2>1, <2>2, MuxAssumption
<1>5. StreamWindowBytes \in Nat \ {0} BY MuxAssumption
<1>6. arrived(e, id) \in Nat /\ got[<<e, id>>] <= arrived(e, id) BY <1>3, <1>4 DEF arrived
<1>7. /\ stream[<<e, id>>].pending = stream[<<e, id>>].buffered
      /\ stream[<<e, id>>].available = StreamWindowBytes - stream[<<e, id>>].buffered
  BY <1>2, <1>3, <1>5 DEF Booked
<1> QED BY <1>1, <1>3, <1>4, <1>5, <1>6, <1>7

\* A step that leaves a stream's data alone at both ends and on the line keeps DataOK.
LEMMA DataCarry ==
  ASSUME MuxInv, Base, NEW e \in Ends, NEW id \in Ids, DataOK(e, id), Base', MuxInv',
         Live(e, id)' => /\ Live(e, id) /\ Carries(link[e], link'[e], {"DATA", "FIN"}, id)
                         /\ arrived(e, id)' = arrived(e, id)
                         /\ wrote'[<<Peer(e), id>>] = wrote[<<Peer(e), id>>]
                         /\ got'[<<e, id>>] >= got[<<e, id>>]
                         /\ stream'[<<e, id>>].finished => stream[<<e, id>>].finished,
         Mute(Peer(e), id) => Mute(Peer(e), id)'
  PROVE  DataOK(e, id)'
<1> SUFFICES ASSUME Live(e, id)'
             PROVE  /\ DataLine(link'[e], id, arrived(e, id)', wrote'[<<Peer(e), id>>])
                    /\ wrote'[<<Peer(e), id>>] - got'[<<e, id>>] <= StreamWindowBytes
                    /\ FinLine(link'[e], id)
                    /\ NoneOf(link'[e], {"FIN"}, id) \/ Mute(Peer(e), id)'
                    /\ stream'[<<e, id>>].finished => NoneOf(link'[e], {"DATA", "FIN"}, id)
  BY DEF DataOK
<1>1. link[e] \in Seq(Frames) BY Facts
<1>2. DataLine(link'[e], id, arrived(e, id)', wrote'[<<Peer(e), id>>])
  BY <1>1, DataLineCarried DEF DataOK
<1>3. FinLine(link'[e], id) BY <1>1, FinCarried DEF DataOK
<1>4. {"FIN"} \subseteq {"DATA", "FIN"} /\ {"DATA", "FIN"} \subseteq {"DATA", "FIN"} OBVIOUS
<1>5. NoneOf(link'[e], {"FIN"}, id) \/ Mute(Peer(e), id)' BY <1>1, <1>4, NoneCarried DEF DataOK
<1>6. stream'[<<e, id>>].finished => NoneOf(link'[e], {"DATA", "FIN"}, id)
  BY <1>1, <1>4, NoneCarried DEF DataOK
<1>7. wrote'[<<Peer(e), id>>] - got'[<<e, id>>] <= StreamWindowBytes
  <2>1. wrote[<<Peer(e), id>>] - got[<<e, id>>] <= StreamWindowBytes BY DEF DataOK
  <2>2. got[<<e, id>>] \in Nat /\ got'[<<e, id>>] \in Nat BY DEF Base
  <2>3. wrote[<<Peer(e), id>>] \in Nat BY PeerIsEnd, Facts
  <2> QED BY <2>1, <2>2, <2>3, MuxAssumption
<1> QED BY <1>2, <1>3, <1>5, <1>6, <1>7

\* Initial windows stay initial windows on the line.
LEMMA GrantsCarried ==
  ASSUME NEW L \in Seq(Frames), NEW M, NEW id, Grants(L, id)
  PROVE  /\ Carries(L, M, Credits, id) => Grants(M, id)
         /\ L # <<>> /\ M = Tail(L) => Grants(M, id)
         /\ \A f \in Frames : f.size = StreamWindowBytes /\ M = L \o <<f>> => Grants(M, id)
<1>0. Len(L) \in Nat BY LenProperties
<1>1. CASE M = L BY <1>1
<1>2. CASE \E F \in Seq(Frames) : M = L \o F /\ NoneOf(F, Credits, id)
  <2>1. PICK F \in Seq(Frames) : M = L \o F /\ NoneOf(F, Credits, id) BY <1>2
  <2>2. Len(F) \in Nat BY LenProperties
  <2>3. /\ Len(M) = Len(L) + Len(F)
        /\ \A i \in 1 .. Len(M) : M[i] = IF i <= Len(L) THEN L[i] ELSE F[i - Len(L)]
    BY <2>1, ConcatProperties
  <2>4. \A i \in 1 .. Len(M) : i <= Len(L) => i \in 1 .. Len(L) BY <1>0, <2>2, <2>3
  <2>5. \A i \in 1 .. Len(M) : ~(i <= Len(L)) => i - Len(L) \in 1 .. Len(F) BY <1>0, <2>2, <2>3
  <2> QED BY <2>1, <2>3, <2>4, <2>5 DEF NoneOf, Grants
<1>3. CASE L # <<>> /\ M = Tail(L)
  <2>1. Len(M) = Len(L) - 1 /\ \A i \in 1 .. Len(M) : M[i] = L[i + 1] BY <1>3, HeadTailProperties
  <2>2. \A i \in 1 .. Len(M) : i + 1 \in 1 .. Len(L) BY <1>0, <2>1
  <2> QED BY <2>1, <2>2 DEF Grants
<1>4. CASE \E f \in Frames : f.size = StreamWindowBytes /\ M = L \o <<f>>
  <2>1. PICK f \in Frames : f.size = StreamWindowBytes /\ M = L \o <<f>> BY <1>4
  <2>2. M = Append(L, f) BY <2>1, AppendIsConcat
  <2>3. Len(M) = Len(L) + 1 /\ (\A i \in 1 .. Len(L) : M[i] = L[i]) /\ M[Len(L) + 1] = f
    BY <2>2, AppendProperties
  <2>4. \A i \in 1 .. Len(M) : i \in 1 .. Len(L) \/ i = Len(L) + 1 BY <1>0, <2>3
  <2> QED BY <2>1, <2>3, <2>4 DEF Grants
<1> QED BY <1>1, <1>2, <1>3, <1>4 DEF Carries

\* A step that leaves a stream's credit alone at both ends and on the line keeps
\* CreditOK.
LEMMA CreditCarry ==
  ASSUME MuxInv, Base, NEW e \in Ends, NEW id \in Ids, CreditOK(e, id), Base', MuxInv',
         Live(e, id)' => /\ Live(e, id) /\ Carries(link[e], link'[e], Credits, id)
                         /\ received(e, id)' = received(e, id)
                         /\ wrote'[<<e, id>>] >= wrote[<<e, id>>]
                         /\ (stream'[<<e, id>>].credit = NoWindow) <=> (stream[<<e,
                                     id>>].credit = NoWindow)
                         /\ stream[<<e, id>>].credit = NoWindow =>
                              /\ wrote'[<<e, id>>] = wrote[<<e, id>>]
                              /\ stream'[<<e, id>>].owed = stream[<<e, id>>].owed
                         /\ stream'[<<e, id>>].credit + stream'[<<e, id>>].owed
                              = stream[<<e, id>>].credit + stream[<<e, id>>].owed,
         Live(Peer(e), id)' => Live(Peer(e), id) /\ issued(Peer(e), id)' = issued(Peer(e), id)
  PROVE  CreditOK(e, id)'
<1> SUFFICES ASSUME Live(e, id)'
             PROVE  /\ \E z : /\ CreditLine(link'[e], id, received(e, id)', z)
                              /\ z <= StreamWindowBytes + wrote'[<<e, id>>]
                              /\ Live(Peer(e), id)' => z = issued(Peer(e), id)'
                    /\ stream'[<<e, id>>].credit = NoWindow =>
                         stream'[<<e, id>>].owed = 0 /\ wrote'[<<e, id>>] = 0 /\ Grants(link'[e],
                                  id)
                    /\ stream'[<<e, id>>].credit # NoWindow =>
                         stream'[<<e, id>>].credit + stream'[<<e, id>>].owed = StreamWindowBytes
  BY DEF CreditOK
<1>1. link[e] \in Seq(Frames) BY Facts
<1>2. PICK z : /\ CreditLine(link[e], id, received(e, id), z)
               /\ z <= StreamWindowBytes + wrote[<<e, id>>]
               /\ Live(Peer(e), id) => z = issued(Peer(e), id)
  BY DEF CreditOK
<1>3. CreditLine(link'[e], id, received(e, id)', z) BY <1>1, <1>2, CreditLineCarried
<1>4. z <= StreamWindowBytes + wrote'[<<e, id>>]
  <2>1. wrote[<<e, id>>] \in Nat /\ wrote'[<<e, id>>] \in Nat BY DEF MuxInv, Shape
  <2>2. z \in Nat BY <1>1, <1>2, LineEnds
  <2> QED BY <1>2, <2>1, <2>2, MuxAssumption
<1>5. Live(Peer(e), id)' => z = issued(Peer(e), id)' BY <1>2
<1>6. stream'[<<e, id>>].credit = NoWindow =>
                         stream'[<<e, id>>].owed = 0 /\ wrote'[<<e, id>>] = 0 /\ Grants(link'[e],
                                  id)
  <2> SUFFICES ASSUME stream'[<<e, id>>].credit = NoWindow
               PROVE  stream'[<<e, id>>].owed = 0 /\ wrote'[<<e, id>>] = 0 /\ Grants(link'[e], id)
    OBVIOUS
  <2>1. stream[<<e, id>>].credit = NoWindow OBVIOUS
  <2>2. stream[<<e, id>>].owed = 0 /\ wrote[<<e, id>>] = 0 /\ Grants(link[e], id) BY <2>1
           DEF CreditOK
  <2>3. Carries(link[e], link'[e], Credits, id) OBVIOUS
  <2>4. Grants(link'[e], id) BY <1>1, <2>2, <2>3, GrantsCarried
  <2> QED BY <2>1, <2>2, <2>4
<1>7. stream'[<<e, id>>].credit # NoWindow =>
                         stream'[<<e, id>>].credit + stream'[<<e, id>>].owed = StreamWindowBytes
  BY DEF CreditOK
<1> QED BY <1>3, <1>4, <1>5, <1>6, <1>7

-----------------------------------------------------------------------------
(* A receive never fails.                                                  *)

\* admitOpen of a stream for which there is no listener or no room: the id is used up
\* and RESET answers.
Refuses(e) ==
  /\ link[e] # <<>> /\ err[e] = "" /\ Head(link[e]).type = "OPEN"
  /\ Head(link[e]).id = nextId(lastRemote[e], e # "init")
  /\ lastRemote' = [lastRemote EXCEPT ![e] = Head(link[e]).id]
  /\ Take(e, <<Signal("RESET", Head(link[e]).id, 0)>>)
  /\ UNCHANGED <<err, listening, waiting, stream, streams, accepted, lastLocal, held, want,
                 wrote, got, linkUp>>

\* admitOpen of a stream that is taken in: the initial window is granted and Accept
\* will hand it out.
Admits(e) ==
  LET f == Head(link[e]) IN
  /\ link[e] # <<>> /\ err[e] = "" /\ f.type = "OPEN"
  /\ f.id = nextId(lastRemote[e], e # "init") /\ f.size = StreamWindowBytes
  /\ lastRemote' = [lastRemote EXCEPT ![e] = f.id]
  /\ Take(e, <<Signal("WINDOW_UPDATE", f.id, StreamWindowBytes)>>)
  /\ stream' = [stream EXCEPT ![<<e, f.id>>] = [Fresh EXCEPT !.credit = f.size]]
  /\ streams' = [streams EXCEPT ![e] = @ \cup {f.id}]
  /\ accepted' = [accepted EXCEPT ![e] = Append(@, f.id)]
  /\ UNCHANGED <<err, listening, waiting, lastLocal, held, want, wrote, got, linkUp>>

\* A frame for a stream that is gone.
Ignores(e) ==
  /\ link[e] # <<>> /\ err[e] = "" /\ Head(link[e]).type # "OPEN"
  /\ Head(link[e]).id \notin streams[e] /\ knew(e, Head(link[e]).id)
  /\ Take(e, <<>>)
  /\ UNCHANGED <<err, stream, streams, accepted, listening, waiting, lastLocal, lastRemote, held,
                 want, wrote, got, linkUp>>

\* A frame for a stream in the mux, which the checks of the frame loop admit.
Applies(e) ==
  LET f == Head(link[e])
      s == stream[<<e, f.id>>]
  IN
  /\ link[e] # <<>> /\ err[e] = "" /\ f.type # "OPEN" /\ f.id \in streams[e]
  /\ admissible(f, s)
  /\ Take(e, <<>>)
  /\ Put(e, f.id, applied(f, s)) /\ notify(e)
  /\ UNCHANGED <<err, accepted, listening, lastLocal, lastRemote, held, want, wrote, got, linkUp>>

\* The next frame to be received.
LEMMA HeadFrame ==
  ASSUME MuxInv, NEW e \in Ends, link[e] # <<>>
  PROVE  /\ Head(link[e]) \in Frames /\ Head(link[e]).id \in Ids /\ Head(link[e]).size \in Nat
         /\ Head(link[e]).type \in Kinds /\ Head(link[e]) = link[e][1] /\ 1 \in 1 .. Len(link[e])
         /\ link[e] \in Seq(Frames)
<1>1. link[e] \in Seq(Frames) BY DEF MuxInv, Shape
<1>2. Head(link[e]) \in Frames BY <1>1, HeadTailProperties
<1>3. Len(link[e]) \in Nat \ {0} BY <1>1, EmptySeq
<1> QED BY <1>1, <1>2, <1>3, FrameFields

\* What fits into the window fits into the ring.
LEMMA RoomLeft ==
  \A n, g, b, w, W \in Nat : (w - g <= W /\ (g + b) + n <= w) => n <= W - b
OBVIOUS

\* Credit that comes back was spent before.
LEMMA CreditOwed ==
  \A n, w, W, x \in Nat : \A c, o \in Int :
    ((c + w) + n <= x /\ x <= W + w /\ c + o = W) => n <= o
OBVIOUS

\* The bounds themselves.
LEMMA WithinBounds ==
  /\ \A n : n \in 1 .. MaxDataBytes => n <= MaxDataBytes
  /\ StreamWindowBytes <= StreamWindowBytes
BY MuxAssumption

\* No frame from an honest peer fails a check of the frame loop: the data fits, the
\* credit was spent, FIN comes once.
LEMMA AlwaysAdmissible ==
  ASSUME Inv, NEW e \in Ends, link[e] # <<>>, err[e] = "", Head(link[e]).type # "OPEN",
         Head(link[e]).id \in streams[e]
  PROVE  admissible(Head(link[e]), stream[<<e, Head(link[e]).id>>])
<1> DEFINE f == Head(link[e])
           id == f.id
           s == stream[<<e, id>>]
<1>1. /\ f \in Frames /\ id \in Ids /\ f.size \in Nat /\ f.type \in Kinds
      /\ f = link[e][1] /\ 1 \in 1 .. Len(link[e]) /\ link[e] \in Seq(Frames)
  BY HeadFrame DEF Inv
<1>2. Live(e, id) BY DEF Live
<1>3. DataOK(e, id) /\ CreditOK(e, id) /\ Sent(e) BY <1>1 DEF Inv, PerStream, PerEnd
<1> DEFINE p == Peer(e)
<1>4. p \in Ends BY PeerIsEnd
<1>5. /\ s.buffered \in Nat /\ s.available = StreamWindowBytes - s.buffered
         /\ s.credit \in Int /\ s.owed \in Int
      /\ wrote[<<p, id>>] \in Nat /\ wrote[<<e, id>>] \in Nat /\ got[<<e, id>>] \in Nat
      /\ StreamWindowBytes \in Nat \ {0}
  BY <1>1, <1>4, Facts DEF Inv
<1> HIDE DEF f, id, p
<1>6. s.finished => ~Counts(f, {"DATA", "FIN"}, id)
  <2>1. FinLine(link[e], id) /\ (s.finished => NoneOf(link[e], {"DATA", "FIN"}, id)) BY <1>2,
           <1>3 DEF DataOK
  <2> QED BY <1>1, <2>1 DEF NoneOf
<1>7. CASE f.type = "DATA"
  <2>1. ~s.finished BY <1>6, <1>7 DEF Counts, id
  <2>2. f.size <= MaxDataBytes
    <3>1. f.size \in 1 .. MaxDataBytes BY <1>1, <1>3, <1>7 DEF Sent
    <3> QED BY <3>1, WithinBounds
  <2>3. DataLine(link[e], id, arrived(e, id), wrote[<<p, id>>])
        /\ wrote[<<p, id>>] - got[<<e, id>>] <= StreamWindowBytes
    BY <1>2, <1>3 DEF DataOK, p
  <2>4. Weight(f, {"DATA"}, id) = f.size BY <1>7 DEF Weight, Counts, id
  <2>5. arrived(e, id) + f.size <= wrote[<<p, id>>] BY <1>1, <2>3, <2>4, DataLineTaken DEF f
  <2>6. arrived(e, id) = got[<<e, id>>] + s.buffered BY DEF arrived
  <2>7. f.size <= s.available
    <3> HIDE DEF s
    <3>1. (got[<<e, id>>] + s.buffered) + f.size <= wrote[<<p, id>>] BY <2>5, <2>6, Zenon
    <3>2. f.size <= StreamWindowBytes - s.buffered BY <1>1, <1>5, <2>3, <3>1, RoomLeft, Zenon
    <3> QED BY <1>5, <3>2, Zenon
  <2> QED BY <1>7, <2>1, <2>2, <2>7 DEF admissible, f, id
<1>8. CASE f.type = "WINDOW_UPDATE"
  <2>0. Counts(f, Credits, id) BY <1>8 DEF Counts, Credits, id
  <2>1. CASE s.credit = NoWindow
    <3>1. f.size = StreamWindowBytes BY <1>1, <1>2, <1>3, <2>0, <2>1 DEF CreditOK, Grants
    <3>2. f.size <= StreamWindowBytes BY <3>1, WithinBounds
    <3> QED BY <1>8, <2>1, <3>2 DEF admissible, f, id
  <2>2. CASE s.credit # NoWindow
    <3>1. PICK z : CreditLine(link[e], id, received(e, id), z)
             /\ z <= StreamWindowBytes + wrote[<<e, id>>]
      BY <1>2, <1>3 DEF CreditOK
    <3>2. received(e, id) + f.size <= z BY <1>1, <2>0, <3>1, CreditLineTaken DEF f
    <3>3. received(e, id) = s.credit + wrote[<<e, id>>] BY <2>2 DEF received
    <3>4. s.credit + s.owed = StreamWindowBytes BY <1>2, <1>3, <2>2 DEF CreditOK
    <3>5. z \in Nat BY <1>1, <3>1, LineEnds
    <3>6. f.size <= s.owed
      <4> HIDE DEF s
      <4> QED BY <1>1, <1>5, <3>1, <3>2, <3>3, <3>4, <3>5, CreditOwed, Zenon
    <3> QED BY <1>8, <2>2, <3>6 DEF admissible, f, id
  <2> QED BY <2>1, <2>2
<1>9. CASE f.type = "FIN"
  <2>1. ~s.finished BY <1>6, <1>9 DEF Counts, id
  <2> QED BY <1>9, <2>1 DEF admissible, f, id
<1>10. CASE f.type = "RESET" BY <1>10 DEF admissible, f
<1> QED BY <1>1, <1>7, <1>8, <1>9, <1>10 DEF Kinds, f

\* So that a receive is one of four things, and never the protocol failure.
LEMMA Honest ==
  ASSUME Inv, NEW e \in Ends, Receive(e)
  PROVE  Refuses(e) \/ Admits(e) \/ Ignores(e) \/ Applies(e)
<1> DEFINE f == Head(link[e])
<1>1. link[e] # <<>> /\ err[e] = "" BY DEF Receive, admitOpen, admitRetired, admit, Take
<1>2. /\ f \in Frames /\ f.id \in Ids /\ f.size \in Nat /\ f.type \in Kinds
      /\ f = link[e][1] /\ 1 \in 1 .. Len(link[e]) /\ link[e] \in Seq(Frames)
  BY <1>1, HeadFrame DEF Inv
<1>3. OpenLine(link[e], e, lastRemote[e], lastLocal[Peer(e)], lastLocal[e]) /\ Sent(e)
  BY <1>1 DEF Inv, PerEnd, Opens
<1>4. /\ f.type = "OPEN" => f.id = nextId(lastRemote[e], e # "init")
      /\ f.type # "OPEN" => f.id <= IF Mine(e, f.id) THEN lastLocal[e] ELSE lastRemote[e]
  BY <1>1, <1>2, <1>3, OpenLineTaken
<1>5. f.type = "OPEN" => f.size = StreamWindowBytes BY <1>2, <1>3 DEF Sent
<1>6. f.type # "OPEN" => knew(e, f.id) BY <1>4 DEF knew, Mine
<1>7. CASE admitOpen(e)
  <2>1. f.type = "OPEN" BY <1>7 DEF admitOpen
  <2>2. f.id = nextId(lastRemote[e], e # "init") /\ f.size = StreamWindowBytes BY <1>4, <1>5, <2>1
  <2>3. f.size \in 1 .. StreamWindowBytes BY <2>2, MuxAssumption
  <2> QED BY <1>1, <1>7, <2>1, <2>2, <2>3 DEF admitOpen, Refuses, Admits
<1>8. CASE admitRetired(e)
  <2>1. f.type # "OPEN" BY <1>8 DEF admitRetired
  <2> QED BY <1>1, <1>6, <1>8, <2>1 DEF admitRetired, Ignores
<1>9. CASE admit(e)
  <2>1. f.type # "OPEN" /\ f.id \in streams[e] BY <1>9 DEF admit
  <2>2. admissible(f, stream[<<e, f.id>>]) BY <1>1, <2>1, AlwaysAdmissible
  <2> QED BY <1>1, <1>9, <2>1, <2>2 DEF admit, Applies
<1> QED BY <1>7, <1>8, <1>9 DEF Receive

\* What Send and Take do to the links.
LEMMA Sending ==
  ASSUME MuxInv, NEW e \in Ends, NEW F \in Seq(Frames)
  PROVE  /\ Send(e, F) => /\ link'[e] = link[e]
                          /\ link'[Peer(e)] = IF err[Peer(e)] = "" THEN link[Peer(e)] \o F ELSE link[Peer(e)]
         /\ Take(e, F) => /\ link'[e] = Tail(link[e])
                          /\ link'[Peer(e)] = IF err[Peer(e)] = "" THEN link[Peer(e)] \o F ELSE link[Peer(e)]
         /\ Take(e, <<>>) => link'[e] = Tail(link[e]) /\ link'[Peer(e)] = link[Peer(e)]
<1>1. Peer(e) \in Ends /\ Peer(e) # e BY PeerIsEnd
<1>2. link \in [Ends -> Seq(Frames)] /\ link[Peer(e)] \in Seq(Frames) BY <1>1 DEF MuxInv, Shape
<1>3. link[Peer(e)] \o <<>> = link[Peer(e)] BY <1>2, ConcatEmptySeq
<1>4. \A G : toPeer(e, G) = IF err[Peer(e)] = "" THEN G ELSE <<>> BY DEF toPeer
<1>5. \A G : Send(e, G) => /\ link'[e] = link[e] /\ link'[Peer(e)] = link[Peer(e)] \o toPeer(e, G)
  BY <1>1, <1>2, Zenon DEF Send
<1>6. \A G : Take(e, G) => /\ link'[e] = Tail(link[e])
         /\ link'[Peer(e)] = link[Peer(e)] \o toPeer(e, G)
  BY <1>1, <1>2, Zenon DEF Take
<1> HIDE DEF Send, Take
<1> QED BY <1>3, <1>4, <1>5, <1>6

-----------------------------------------------------------------------------
(* Steps, and the ids they make known.                                     *)

\* The steps of readers and writers that change no stream.
Waits(e, id) ==
  \/ ReadWaits(e, id) \/ WriteBegins(e, id) \/ WriteWaits(e, id) \/ WriteFails(e, id)
  \/ \E op \in {"read", "write"} : WaitCancelled(e, id, op)

\* The steps of readers and writers that change the stream k of e.
Moves(e, id) == Read(e, id) \/ Write(e, id) \/ CloseWrite(e, id) \/ CloseStream(e, id)

\* A step of the mux at e.
Step(e) ==
  \/ Open(e) \/ Accept(e) \/ Refuses(e) \/ Admits(e) \/ Ignores(e) \/ Applies(e)
  \/ Failing(e, linkUp) \/ Failing(e, FALSE)
  \/ \E id \in Ids : Waits(e, id) \/ Moves(e, id)

\* Every step of the specification is one of these.
LEMMA NextIsStep ==
  ASSUME Inv, Next
  PROVE  \E e \in Ends : Step(e)
<1>1. PICK e \in Ends : EndStep(e) BY DEF Next
<1>2. Receive(e) => Step(e) BY Honest DEF Step
<1>3. Close(e) \/ LinkDone(e) => Step(e) BY DEF Step, Close, LinkDone
<1>4. (\E id \in Ids : StreamStep(e, id)) => Step(e)
  BY DEF Step, StreamStep, Reader, Writer, Waits, Moves
<1> QED BY <1>1, <1>2, <1>3, <1>4 DEF EndStep, Step

\* OpenStream makes one more id known at its end.
LEMMA OpenKnows ==
  ASSUME Inv, NEW e \in Ends, Open(e)
  PROVE  \E k \in Ids :
           /\ k = nextId(lastLocal[e], e = "init") /\ Mine(e, k) /\ k > lastLocal[e]
           /\ ~knew(e, k)
           /\ lastLocal' = [lastLocal EXCEPT ![e] = k] /\ lastRemote' = lastRemote
           /\ \A d \in Ends, id \in Ids : knew(d, id)' <=> knew(d, id) \/ (d = e /\ id = k)
<1> DEFINE k == nextId(lastLocal[e], e = "init")
<1>1. lastLocal[e] \in Nat /\ (lastLocal[e] = 0 \/ Mine(e, lastLocal[e]))
      /\ lastLocal \in [Ends -> Nat]
  BY DEF Inv, MuxInv, Shape, PerEnd, Parity
<1>2. /\ k \in Nat \ {0} /\ k > lastLocal[e] /\ Mine(e, k)
      /\ \A id \in Nat \ {0} : Mine(e, id) => (id <= k <=> id <= lastLocal[e] \/ id = k)
  BY <1>1, NextIsMine
<1>3. k <= MaxId /\ lastLocal' = [lastLocal EXCEPT ![e] = k] /\ lastRemote' = lastRemote BY DEF Open
<1> HIDE DEF k
<1>4. k \in Ids BY <1>2, <1>3, MuxAssumption DEF Ids
<1>5. ~(k <= lastLocal[e]) BY <1>1, <1>2
<1>6. ~knew(e, k) BY <1>2, <1>5 DEF knew, Mine
<1>7. ASSUME NEW d \in Ends, NEW id \in Ids
      PROVE  knew(d, id)' <=> knew(d, id) \/ (d = e /\ id = k)
  <2>1. id \in Nat \ {0} BY FrameFields
  <2>2. knew(d, id)' <=> id <= IF Mine(d, id) THEN lastLocal'[d] ELSE lastRemote[d]
    BY <1>3 DEF knew, Mine
  <2>3. knew(d, id) <=> id <= IF Mine(d, id) THEN lastLocal[d] ELSE lastRemote[d] BY DEF knew, Mine
  <2>4. CASE d = e
    <3>1. lastLocal'[d] = k BY <1>1, <1>3, <2>4
    <3> QED BY <1>2, <2>1, <2>2, <2>3, <2>4, <3>1
  <2>5. CASE d # e
    <3>1. lastLocal'[d] = lastLocal[d] BY <1>1, <1>3, <2>5
    <3> QED BY <2>2, <2>3, <2>5, <3>1
  <2> QED BY <2>4, <2>5
<1> QED BY <1>2, <1>3, <1>4, <1>6, <1>7 DEF k

\* admitOpen makes the next id of the other end known, and only that.
LEMMA AdmitKnows ==
  ASSUME Inv, NEW e \in Ends, Refuses(e) \/ Admits(e)
  PROVE  /\ Head(link[e]).id \in Ids /\ ~Mine(e, Head(link[e]).id)
         /\ ~knew(e, Head(link[e]).id) /\ Head(link[e]).id > lastRemote[e]
         /\ lastRemote' = [lastRemote EXCEPT ![e] = Head(link[e]).id] /\ lastLocal' = lastLocal
         /\ \A d \in Ends, id \in Ids : knew(d, id)' <=> knew(d, id) \/ (d = e
                     /\ id = Head(link[e]).id)
<1> DEFINE k == Head(link[e]).id
           p == Peer(e)
<1>0. p \in Ends /\ ((e # "init") <=> (p = "init")) /\ \A id : Mine(p, id) <=> ~Mine(e,
         id) BY PeerIsEnd
<1>1. /\ lastRemote[e] \in Nat /\ (lastRemote[e] = 0 \/ ~Mine(e, lastRemote[e]))
      /\ lastRemote \in [Ends -> 0 .. MaxId]
  <2>1. lastRemote \in [Ends -> 0 .. MaxId] BY DEF Inv, Base
  <2>2. lastRemote[e] = 0 \/ ~Mine(e, lastRemote[e]) BY DEF Inv, PerEnd, Parity
  <2>3. lastRemote[e] \in 0 .. MaxId BY <2>1
  <2> QED BY <2>1, <2>2, <2>3, MuxAssumption
<1>2. k = nextId(lastRemote[e], e # "init") BY DEF Refuses, Admits
<1>3. /\ k \in Nat \ {0} /\ k > lastRemote[e] /\ Mine(p, k)
      /\ \A id \in Nat \ {0} : Mine(p, id) => (id <= k <=> id <= lastRemote[e] \/ id = k)
  <2>1. k = nextId(lastRemote[e], p = "init") BY <1>0, <1>2
  <2>2. lastRemote[e] = 0 \/ Mine(p, lastRemote[e]) BY <1>0, <1>1
  <2> QED BY <1>0, <1>1, <2>1, <2>2, NextIsMine
<1>4. lastRemote' = [lastRemote EXCEPT ![e] = k] /\ lastLocal' = lastLocal BY DEF Refuses, Admits
<1>5. k \in Ids BY HeadFrame DEF Refuses, Admits, Inv
<1> HIDE DEF k
<1>6. ~Mine(e, k) BY <1>0, <1>3
<1>7. ~(k <= lastRemote[e]) BY <1>1, <1>3
<1>8. ~knew(e, k) BY <1>6, <1>7 DEF knew, Mine
<1>9. ASSUME NEW d \in Ends, NEW id \in Ids
      PROVE  knew(d, id)' <=> knew(d, id) \/ (d = e /\ id = k)
  <2>1. id \in Nat \ {0} BY FrameFields
  <2>2. knew(d, id)' <=> id <= IF Mine(d, id) THEN lastLocal[d] ELSE lastRemote'[d]
    BY <1>4 DEF knew, Mine
  <2>3. knew(d, id) <=> id <= IF Mine(d, id) THEN lastLocal[d] ELSE lastRemote[d] BY DEF knew, Mine
  <2>4. CASE d = e
    <3>1. lastRemote'[d] = k BY <1>1, <1>4, <2>4
    <3> QED BY <1>0, <1>3, <1>6, <2>1, <2>2, <2>3, <2>4, <3>1
  <2>5. CASE d # e
    <3>1. lastRemote'[d] = lastRemote[d] BY <1>1, <1>4, <2>5
    <3> QED BY <2>2, <2>3, <2>5, <3>1
  <2> QED BY <2>4, <2>5
<1> QED BY <1>3, <1>4, <1>5, <1>6, <1>8, <1>9 DEF k

\* No other step does.
LEMMA OthersKnow ==
  ASSUME UNCHANGED <<lastLocal, lastRemote>>
  PROVE  \A d, id : knew(d, id)' <=> knew(d, id)
BY DEF knew

\* No step fails a mux for a protocol error.
LEMMA BaseKept ==
  ASSUME Inv, NEW e \in Ends, Step(e)
  PROVE  Base'
<1>1. CASE Open(e)
  <2>1. PICK k \in Ids : lastLocal' = [lastLocal EXCEPT ![e] = k] BY <1>1, OpenKnows
  <2>2. k \in 0 .. MaxId BY MuxAssumption DEF Ids
  <2>3. lastLocal' \in [Ends -> 0 .. MaxId] BY <2>1, <2>2 DEF Inv, Base
  <2> QED BY <1>1, <2>3 DEF Inv, Base, Open
<1>2. CASE Refuses(e) \/ Admits(e)
  <2>1. Head(link[e]).id \in Ids /\ lastRemote' = [lastRemote EXCEPT ![e] = Head(link[e]).id]
    BY <1>2, AdmitKnows
  <2>2. Head(link[e]).id \in 0 .. MaxId BY <2>1, MuxAssumption DEF Ids
  <2>3. lastRemote' \in [Ends -> 0 .. MaxId] BY <2>1, <2>2 DEF Inv, Base
  <2> QED BY <1>2, <2>3 DEF Inv, Base, Refuses, Admits
<1>3. CASE Accept(e)
  <2> DEFINE ok == acceptable(e, Head(accepted[e]))
  <2>1. ok \in BOOLEAN BY DEF acceptable
  <2> HIDE DEF ok
  <2>2. listening' = [listening EXCEPT ![e] = ok] BY <1>3 DEF Accept, ok
  <2>3. listening' \in [Ends -> BOOLEAN] BY <2>1, <2>2 DEF Inv, Base
  <2>4. UNCHANGED <<err, lastLocal, lastRemote, got, linkUp, waiting>> BY <1>3 DEF Accept
  <2> QED BY <2>3, <2>4 DEF Inv, Base
<1>4. CASE Ignores(e) \/ Applies(e) BY <1>4 DEF Inv, Base, Ignores, Applies, notify
<1>5. CASE Failing(e, linkUp) \/ Failing(e, FALSE) BY <1>5 DEF Inv, Base, Failing, fail, notify
<1>6. ASSUME NEW id \in Ids, Waits(e, id) PROVE Base'
  <2>1. UNCHANGED <<err, lastLocal, lastRemote, got, linkUp, listening>>
    BY <1>6 DEF Waits, ReadWaits, WriteBegins, WriteWaits, WriteFails, WaitCancelled
  <2>2. <<e, id, "read">> \in Ends \X Ids \X {"read", "write"}
        /\ <<e, id, "write">> \in Ends \X Ids \X {"read", "write"}
    OBVIOUS
  <2>3. waiting \subseteq Ends \X Ids \X {"read", "write"} BY DEF Inv, Base
  <2>4. waiting' \subseteq waiting \cup {<<e, id, "read">>, <<e, id, "write">>}
    BY <1>6, Zenon DEF Waits, ReadWaits, WriteBegins, WriteWaits, WriteFails, WaitCancelled
  <2>5. waiting' \subseteq Ends \X Ids \X {"read", "write"} BY <2>2, <2>3, <2>4
  <2> QED BY <2>1, <2>5 DEF Inv, Base
<1>7. ASSUME NEW id \in Ids, Read(e, id) PROVE Base'
  <2>1. stream[<<e, id>>].buffered \in Nat BY Facts DEF Inv
  <2>2. PICK size \in 1 .. stream[<<e, id>>].buffered : got' = [got EXCEPT ![<<e, id>>] = @ + size]
    BY <1>7 DEF Read
  <2>3. got[<<e, id>>] \in Nat /\ got \in [Ends \X Ids -> Nat] BY DEF Inv, Base
  <2>4. got[<<e, id>>] + size \in Nat BY <2>1, <2>3
  <2>5. got' \in [Ends \X Ids -> Nat] BY <2>2, <2>3, <2>4
  <2> QED BY <1>7, <2>5 DEF Inv, Base, Read
<1>8. ASSUME NEW id \in Ids, Write(e, id) \/ CloseWrite(e, id) \/ CloseStream(e, id) PROVE Base'
  BY <1>8 DEF Inv, Base, Write, CloseWrite, CloseStream, notify
<1> QED BY <1>1, <1>2, <1>3, <1>4, <1>5, <1>6, <1>7, <1>8 DEF Step, Moves

-----------------------------------------------------------------------------
(* What each step changes.                                                 *)

\* The mux at e ends: its own Close, or the link is lost.
Gone(e) == Failing(e, linkUp) \/ Failing(e, FALSE)

\* Storing a stream changes that stream only, and drops it from the mux when it failed
\* or is done.
LEMMA PutAt ==
  ASSUME MuxInv, NEW e \in Ends, NEW k \in Ids, NEW s, Put(e, k, s)
  PROVE  /\ \A d \in Ends, id \in Ids :
              stream'[<<d, id>>] = IF d = e /\ id = k THEN s ELSE stream[<<d, id>>]
         /\ \A d \in Ends, id \in Ids :
              id \in streams'[d] <=> id \in streams[d] /\ ~(d = e /\ id = k
                       /\ (s.err # "" \/ retires(s)))
<1>1. stream \in [Ends \X Ids -> Objects] /\ streams \in [Ends -> SUBSET Ids] BY DEF MuxInv, Shape
<1>2. \A d \in Ends, id \in Ids : stream'[<<d, id>>] = IF d = e /\ id = k THEN s ELSE stream[<<d,
         id>>]
  BY <1>1 DEF Put
<1>3. \A d \in Ends, id \in Ids :
              id \in streams'[d] <=> id \in streams[d] /\ ~(d = e /\ id = k
                       /\ (s.err # "" \/ retires(s)))
  BY <1>1 DEF Put
<1> QED BY <1>2, <1>3

\* After a step at stream k of e: the object there is s, everything else stands.
Becomes(e, k, s) ==
  /\ \A d \in Ends, id \in Ids :
       stream'[<<d, id>>] = IF d = e /\ id = k THEN s ELSE stream[<<d, id>>]
  /\ \A d \in Ends, id \in Ids :
       id \in streams'[d] <=> id \in streams[d] /\ ~(d = e /\ id = k /\ (s.err # "" \/ retires(s)))

\* What a received frame changes.
LEMMA AppliesAt ==
  ASSUME Inv, NEW e \in Ends, Applies(e)
  PROVE  \E s : s = applied(Head(link[e]), stream[<<e, Head(link[e]).id>>]) /\ Becomes(e,
           Head(link[e]).id, s)
<1> DEFINE k == Head(link[e]).id
           s == applied(Head(link[e]), stream[<<e, k>>])
<1>1. k \in Ids BY HeadFrame DEF Applies, Inv
<1>2. Put(e, k, s) BY DEF Applies
<1> HIDE DEF s, k
<1>3. Becomes(e, k, s) BY <1>1, <1>2, PutAt DEF Inv, Becomes
<1> QED BY <1>3 DEF s, k

\* What Read changes: it hands out bytes and gives their credit back.
LEMMA ReadAt ==
  ASSUME Inv, NEW e \in Ends, NEW k \in Ids, Read(e, k)
  PROVE  \E size \in 1 .. stream[<<e, k>>].buffered : \E s :
           /\ s = consumed(stream[<<e, k>>], size) /\ Becomes(e, k, s)
           /\ got' = [got EXCEPT ![<<e, k>>] = @ + size]
           /\ Send(e, <<Signal("WINDOW_UPDATE", k, size)>>)
<1>1. PICK size \in 1 .. stream[<<e, k>>].buffered :
        /\ Put(e, k, consumed(stream[<<e, k>>], size)) /\ got' = [got EXCEPT ![<<e, k>>] = @ + size]
        /\ Send(e, creditBack(stream[<<e, k>>], k, size))
  BY DEF Read
<1> DEFINE s == consumed(stream[<<e, k>>], size)
<1>2. Put(e, k, s) BY <1>1
<1>3. Send(e, <<Signal("WINDOW_UPDATE", k, size)>>) BY <1>1 DEF creditBack
<1> HIDE DEF s
<1>4. Becomes(e, k, s) BY <1>2, PutAt DEF Inv, Becomes
<1> QED BY <1>1, <1>3, <1>4 DEF s

\* What a writer sends at once: as much as it has credit for.
Spent(e, id) ==
  IF stream[<<e, id>>].credit < want[<<e, id>>] THEN stream[<<e, id>>].credit ELSE want[<<e, id>>]

\* What Write changes: credit becomes owed, bytes go out.
LEMMA WriteAt ==
  ASSUME Inv, NEW e \in Ends, NEW k \in Ids, Write(e, k)
  PROVE  \E n, s :
           /\ n \in 1 .. want[<<e, k>>] /\ n <= stream[<<e, k>>].credit
           /\ s = [stream[<<e, k>>] EXCEPT !.credit = @ - n, !.owed = @ + n] /\ Becomes(e, k, s)
           /\ wrote' = [wrote EXCEPT ![<<e, k>>] = @ + n] /\ want' = [want EXCEPT ![<<e,
                       k>>] = @ - n]
           /\ Send(e, dataFrames(k, wrote[<<e, k>>] + 1, n))
<1> DEFINE n == Spent(e, k)
           s == [stream[<<e, k>>] EXCEPT !.credit = @ - n, !.owed = @ + n]
<1>1. stream[<<e, k>>].credit > 0 /\ want[<<e, k>>] > 0 BY DEF Write, writing
<1>2. stream[<<e, k>>].credit \in Int /\ want[<<e, k>>] \in Nat BY Facts DEF Inv
<1>3. n \in 1 .. want[<<e, k>>] /\ n <= stream[<<e, k>>].credit BY <1>1, <1>2 DEF Spent
<1>4. /\ Put(e, k, s)
      /\ wrote' = [wrote EXCEPT ![<<e, k>>] = @ + n] /\ want' = [want EXCEPT ![<<e, k>>] = @ - n]
      /\ Send(e, dataFrames(k, wrote[<<e, k>>] + 1, n))
  BY DEF Write, Spent
<1> HIDE DEF s, n
<1>5. Becomes(e, k, s) BY <1>4, PutAt DEF Inv, Becomes
<1>6. s = [stream[<<e, k>>] EXCEPT !.credit = @ - n, !.owed = @ + n] BY DEF s
<1> QED BY <1>3, <1>4, <1>5, <1>6

\* What CloseWrite and Close change.
LEMMA CloseAt ==
  ASSUME Inv, NEW e \in Ends, NEW k \in Ids
  PROVE  /\ CloseWrite(e, k) => \E s : s = [stream[<<e, k>>] EXCEPT !.writeClosed = TRUE]
           /\ Becomes(e, k, s)
         /\ CloseStream(e, k) => \E s : s = Dead("closed") /\ Becomes(e, k, s)
<1>1. ASSUME CloseWrite(e, k)
      PROVE  \E s : s = [stream[<<e, k>>] EXCEPT !.writeClosed = TRUE] /\ Becomes(e, k, s)
  <2> DEFINE s == [stream[<<e, k>>] EXCEPT !.writeClosed = TRUE]
  <2>1. Put(e, k, s) BY <1>1 DEF CloseWrite
  <2> HIDE DEF s
  <2>2. Becomes(e, k, s) BY <2>1, PutAt DEF Inv, Becomes
  <2> QED BY <2>2 DEF s
<1>2. ASSUME CloseStream(e, k) PROVE \E s : s = Dead("closed") /\ Becomes(e, k, s)
  <2> DEFINE s == Dead("closed")
  <2>1. Put(e, k, s) BY <1>2 DEF CloseStream
  <2> HIDE DEF s
  <2>2. Becomes(e, k, s) BY <2>1, PutAt DEF Inv, Becomes
  <2> QED BY <2>2 DEF s
<1> QED BY <1>1, <1>2

\* What admitting a stream changes.
LEMMA AdmitAt ==
  ASSUME Inv, NEW e \in Ends, Admits(e)
  PROVE  \E s : /\ s = [Fresh EXCEPT !.credit = StreamWindowBytes]
                /\ stream[<<e, Head(link[e]).id>>] = Fresh
                /\ \A d \in Ends, id \in Ids :
                     stream'[<<d, id>>] = IF d = e
                              /\ id = Head(link[e]).id THEN s ELSE stream[<<d, id>>]
                /\ \A d \in Ends, id \in Ids :
                     id \in streams'[d] <=> id \in streams[d] \/ (d = e /\ id = Head(link[e]).id)
<1> DEFINE k == Head(link[e]).id
           s == [Fresh EXCEPT !.credit = StreamWindowBytes]
<1>1. ~knew(e, k) /\ k \in Ids BY AdmitKnows
<1>2. stream[<<e, k>>] = Fresh BY <1>1 DEF Inv, PerStream, Known
<1>3. stream' = [stream EXCEPT ![<<e, k>>] = s]
         /\ streams' = [streams EXCEPT ![e] = @ \cup {k}] BY DEF Admits
<1>4. stream \in [Ends \X Ids -> Objects] /\ streams \in [Ends -> SUBSET Ids] BY DEF Inv, MuxInv,
         Shape
<1> HIDE DEF s, k
<1>5. \A d \in Ends, id \in Ids : stream'[<<d, id>>] = IF d = e /\ id = k THEN s ELSE stream[<<d,
         id>>]
  BY <1>1, <1>3, <1>4
<1>6. \A d \in Ends, id \in Ids : id \in streams'[d] <=> id \in streams[d] \/ (d = e /\ id = k)
  BY <1>1, <1>3, <1>4
<1> QED BY <1>2, <1>5, <1>6 DEF s, k

\* What the end of a mux changes.
LEMMA GoneAt ==
  ASSUME Inv, NEW e \in Ends, Gone(e)
  PROVE  \E s : /\ s = Dead("closed")
                /\ \A d \in Ends, id \in Ids :
                     stream'[<<d, id>>] = IF d = e /\ id \in streams[e] THEN s ELSE stream[<<d,
                              id>>]
                /\ \A d \in Ends : streams'[d] = IF d = e THEN {} ELSE streams[d]
                /\ \A d \in Ends : accepted'[d] = IF d = e THEN <<>> ELSE accepted[d]
                /\ \A d \in Ends : err'[d] = IF d = e THEN "closed" ELSE err[d]
                /\ \A d \in Ends : link'[d] = IF d = e THEN <<>> ELSE link[d]
                /\ UNCHANGED <<lastLocal, lastRemote, held, want, wrote, got>>
<1> DEFINE s == Dead("closed")
<1>0. err \in [Ends -> {"", "closed"}] /\ accepted \in [Ends -> Seq(Ids)]
         /\ link \in [Ends -> Seq(Frames)]
  BY DEF Inv, Base, MuxInv, Shape
<1>1. stream \in [Ends \X Ids -> Objects] /\ streams \in [Ends -> SUBSET Ids] BY DEF Inv, MuxInv,
         Shape
<1>2. /\ stream' = [x \in DOMAIN stream |-> IF x[1] = e
         /\ x[2] \in streams[e] THEN s ELSE stream[x]]
      /\ streams' = [streams EXCEPT ![e] = {}] /\ accepted' = [accepted EXCEPT ![e] = <<>>]
      /\ err' = [err EXCEPT ![e] = "closed"] /\ link' = [link EXCEPT ![e] = <<>>]
      /\ UNCHANGED <<lastLocal, lastRemote, held, want, wrote, got>>
  BY DEF Gone, Failing, fail
<1> HIDE DEF s
<1>3. ASSUME NEW d \in Ends, NEW id \in Ids
      PROVE  stream'[<<d, id>>] = IF d = e /\ id \in streams[e] THEN s ELSE stream[<<d, id>>]
  <2>1. <<d, id>> \in DOMAIN stream /\ <<d, id>>[1] = d /\ <<d, id>>[2] = id BY <1>1
  <2> QED BY <1>2, <2>1
<1>4. \A d \in Ends : streams'[d] = IF d = e THEN {} ELSE streams[d] BY <1>1, <1>2
<1>5. \A d \in Ends : /\ accepted'[d] = IF d = e THEN <<>> ELSE accepted[d]
                      /\ err'[d] = IF d = e THEN "closed" ELSE err[d]
                      /\ link'[d] = IF d = e THEN <<>> ELSE link[d]
  BY <1>0, <1>2
<1> QED BY <1>2, <1>3, <1>4, <1>5 DEF s

\* The fields of a stream that the lines are about stand.
Same(d, id) ==
  /\ stream'[<<d, id>>] = stream[<<d, id>>] /\ got'[<<d, id>>] = got[<<d, id>>]
  /\ wrote'[<<d, id>>] = wrote[<<d, id>>]

\* A step of the other end leaves the mux of p alone.
Apart(p) ==
  /\ \A id \in Ids : Same(p, id) /\ want'[<<p, id>>] = want[<<p, id>>]
  /\ \A id \in Ids : id \in streams'[p] <=> id \in streams[p]
  /\ err'[p] = err[p] /\ accepted'[p] = accepted[p] /\ held'[p] = held[p]
  /\ lastLocal'[p] = lastLocal[p] /\ lastRemote'[p] = lastRemote[p]

\* A step at one end touches the other end's link only.
LEMMA StepIsApart ==
  ASSUME Inv, NEW e \in Ends, Step(e)
  PROVE  Apart(Peer(e))
<1> DEFINE p == Peer(e)
<1>0. p \in Ends /\ p # e BY PeerIsEnd
<1> HIDE DEF p
<1>t. /\ err \in [Ends -> {"", "closed"}] /\ accepted \in [Ends -> Seq(Ids)]
         /\ held \in [Ends -> SUBSET Ids]
      /\ lastLocal \in [Ends -> Nat] /\ lastRemote \in [Ends -> 0 .. MaxId]
                  /\ streams \in [Ends -> SUBSET Ids]
      /\ got \in [Ends \X Ids -> Nat] /\ wrote \in [Ends \X Ids -> Nat]
                  /\ want \in [Ends \X Ids -> Nat]
  BY DEF Inv, Base, MuxInv, Shape
<1>1. CASE Open(e)
  <2>1. PICK k \in Ids : lastLocal' = [lastLocal EXCEPT ![e] = k] BY <1>1, OpenKnows
  <2>2. PICK a, b : streams' = [streams EXCEPT ![e] = a] /\ held' = [held EXCEPT ![e] = b]
    BY <1>1 DEF Open
  <2>3. UNCHANGED <<err, lastRemote, stream, accepted, want, wrote, got>> BY <1>1 DEF Open
  <2> QED BY <1>0, <1>t, <2>1, <2>2, <2>3 DEF Apart, Same, p
<1>2. CASE Accept(e)
  <2>1. PICK a, b : accepted' = [accepted EXCEPT ![e] = a] /\ held' = [held EXCEPT ![e] = b]
    BY <1>2 DEF Accept
  <2>2. UNCHANGED <<err, lastRemote, lastLocal, streams, stream, want, wrote, got>> BY <1>2
           DEF Accept
  <2> QED BY <1>0, <1>t, <2>1, <2>2 DEF Apart, Same, p
<1>3. CASE Refuses(e)
  <2>1. lastRemote' = [lastRemote EXCEPT ![e] = Head(link[e]).id]
        /\ UNCHANGED <<err, lastLocal, streams, stream, accepted, held, want, wrote, got>>
    BY <1>3 DEF Refuses
  <2> QED BY <1>0, <1>t, <2>1 DEF Apart, Same, p
<1>4. CASE Admits(e)
  <2>1. lastRemote' = [lastRemote EXCEPT ![e] = Head(link[e]).id]
        /\ accepted' = [accepted EXCEPT ![e] = Append(@, Head(link[e]).id)]
        /\ UNCHANGED <<err, lastLocal, held, want, wrote, got>>
    BY <1>4 DEF Admits
  <2>2. PICK s : /\ s = [Fresh EXCEPT !.credit = StreamWindowBytes]
                 /\ stream[<<e, Head(link[e]).id>>] = Fresh
                 /\ \A d \in Ends, id \in Ids :
                     stream'[<<d, id>>] = IF d = e
                              /\ id = Head(link[e]).id THEN s ELSE stream[<<d, id>>]
                 /\ \A d \in Ends, id \in Ids :
                     id \in streams'[d] <=> id \in streams[d] \/ (d = e /\ id = Head(link[e]).id)
    BY <1>4, AdmitAt
  <2> QED BY <1>0, <1>t, <2>1, <2>2 DEF Apart, Same, p
<1>5. CASE Ignores(e) BY <1>5 DEF Ignores, Apart, Same, p
<1>6. CASE Applies(e)
  <2>1. UNCHANGED <<err, accepted, lastLocal, lastRemote, held, want, wrote, got>> BY <1>6
           DEF Applies
  <2>2. PICK s : Becomes(e, Head(link[e]).id, s) BY <1>6, AppliesAt
  <2> QED BY <1>0, <2>1, <2>2 DEF Apart, Same, Becomes, p
<1>7. CASE Gone(e)
  <2>1. PICK s :
                /\ s = Dead("closed")
                /\ \A d \in Ends, id \in Ids :
                     stream'[<<d, id>>] = IF d = e /\ id \in streams[e] THEN s ELSE stream[<<d,
                              id>>]
                /\ \A d \in Ends : streams'[d] = IF d = e THEN {} ELSE streams[d]
                /\ \A d \in Ends : accepted'[d] = IF d = e THEN <<>> ELSE accepted[d]
                /\ \A d \in Ends : err'[d] = IF d = e THEN "closed" ELSE err[d]
                /\ \A d \in Ends : link'[d] = IF d = e THEN <<>> ELSE link[d]
                /\ UNCHANGED <<lastLocal, lastRemote, held, want, wrote, got>>
    BY <1>7, GoneAt
  <2> QED BY <1>0, <2>1 DEF Apart, Same, p
<1>8. ASSUME NEW k \in Ids, Waits(e, k) PROVE Apart(p)
  <2>1. UNCHANGED <<err, accepted, lastLocal, lastRemote, held, wrote, got, stream, streams>>
    BY <1>8 DEF Waits, ReadWaits, WriteBegins, WriteWaits, WriteFails, WaitCancelled
  <2>2. want' = want \/ \E n : want' = [want EXCEPT ![<<e, k>>] = n]
    BY <1>8 DEF Waits, ReadWaits, WriteBegins, WriteWaits, WriteFails, WaitCancelled
  <2>3. \A id \in Ids : want'[<<p, id>>] = want[<<p, id>>] BY <1>0, <1>t, <2>2
  <2> QED BY <2>1, <2>3 DEF Apart, Same
<1>9. ASSUME NEW k \in Ids, Read(e, k) PROVE Apart(p)
  <2>1. PICK size, s : Becomes(e, k, s) /\ got' = [got EXCEPT ![<<e, k>>] = @ + size] BY <1>9,
           ReadAt
  <2>2. UNCHANGED <<err, accepted, lastLocal, lastRemote, held, want, wrote>> BY <1>9 DEF Read
  <2> QED BY <1>0, <1>t, <2>1, <2>2 DEF Apart, Same, Becomes
<1>10. ASSUME NEW k \in Ids, Write(e, k) PROVE Apart(p)
  <2>1. PICK n, s :
           /\ n \in 1 .. want[<<e, k>>] /\ n <= stream[<<e, k>>].credit
           /\ s = [stream[<<e, k>>] EXCEPT !.credit = @ - n, !.owed = @ + n] /\ Becomes(e, k, s)
           /\ wrote' = [wrote EXCEPT ![<<e, k>>] = @ + n] /\ want' = [want EXCEPT ![<<e,
                       k>>] = @ - n]
           /\ Send(e, dataFrames(k, wrote[<<e, k>>] + 1, n))
    BY <1>10, WriteAt
  <2>2. UNCHANGED <<err, accepted, lastLocal, lastRemote, held, got>> BY <1>10 DEF Write
  <2> QED BY <1>0, <1>t, <2>1, <2>2 DEF Apart, Same, Becomes
<1>11. ASSUME NEW k \in Ids, CloseWrite(e, k) \/ CloseStream(e, k) PROVE Apart(p)
  <2>1. PICK s : Becomes(e, k, s) BY <1>11, CloseAt
  <2>2. UNCHANGED <<err, accepted, lastLocal, lastRemote, held, got, want, wrote>>
    BY <1>11 DEF CloseWrite, CloseStream
  <2> QED BY <1>0, <2>1, <2>2 DEF Apart, Same, Becomes
<1> QED BY <1>1, <1>2, <1>3, <1>4, <1>5, <1>6, <1>7, <1>8, <1>9, <1>10, <1>11 DEF Step, Moves,
         Gone, p

\* So that the other end knows, uses and mutes what it did.
LEMMA ApartKnows ==
  ASSUME NEW p \in Ends, Apart(p)
  PROVE  \A id \in Ids : /\ knew(p, id)' <=> knew(p, id)
                         /\ Live(p, id)' <=> Live(p, id)
                         /\ Mute(p, id)' <=> Mute(p, id)
<1>1. \A id \in Ids : knew(p, id)' <=> knew(p, id) BY DEF Apart, knew
<1> QED BY <1>1 DEF Apart, Live, Mute, Same

\* What a frame makes of a stream, field by field.
LEMMA AppliedFields ==
  ASSUME NEW s \in Objects, NEW f \in Frames, f.type # "OPEN"
  PROVE  /\ f.type = "DATA" =>
              /\ applied(f, s).finished = s.finished /\ applied(f, s).credit = s.credit
              /\ applied(f, s).owed = s.owed /\ applied(f, s).writeClosed = s.writeClosed
              /\ applied(f, s).err = s.err /\ applied(f, s).buffered = s.buffered + f.size
              /\ applied(f, s).pending = s.pending + f.size
              /\ applied(f, s).queue = enqueue(s, f) /\ applied(f, s).readIndex = s.readIndex
         /\ f.type \in {"WINDOW_UPDATE", "FIN"} =>
              /\ applied(f, s).writeClosed = s.writeClosed
              /\ applied(f, s).err = s.err /\ applied(f, s).buffered = s.buffered
              /\ applied(f, s).pending = s.pending
              /\ applied(f, s).queue = s.queue /\ applied(f, s).readIndex = s.readIndex
         /\ f.type = "WINDOW_UPDATE" =>
              /\ applied(f, s).finished = s.finished
              /\ s.credit = NoWindow => applied(f, s).credit = f.size /\ applied(f, s).owed = s.owed
              /\ s.credit # NoWindow =>
                   applied(f, s).credit = s.credit + f.size /\ applied(f, s).owed = s.owed - f.size
         /\ f.type = "FIN" =>
              /\ applied(f, s).finished /\ applied(f, s).credit = s.credit /\ applied(f,
                          s).owed = s.owed
         /\ f.type = "RESET" => applied(f, s) = Dead("reset")
<1>0. s \in Raw BY DEF Objects
<1>1. CASE f.type = "DATA"
  <2>1. applied(f, s) = [s EXCEPT !.available = @ - f.size, !.pending = @ + f.size,
                   !.queue = enqueue(s, f), !.buffered = @ + f.size] BY <1>1 DEF applied
  <2> QED BY <1>0, <1>1, <2>1 DEF Raw
<1>2. CASE f.type = "WINDOW_UPDATE"
  <2>1. applied(f, s) = IF s.credit = NoWindow THEN [s EXCEPT !.credit = f.size]
         ELSE [s EXCEPT !.credit = @ + f.size, !.owed = @ - f.size] BY <1>2 DEF applied
  <2> QED BY <1>0, <1>2, <2>1 DEF Raw
<1>3. CASE f.type = "FIN"
  <2>1. applied(f, s) = [s EXCEPT !.finished = TRUE] BY <1>3 DEF applied
  <2> QED BY <1>0, <1>3, <2>1 DEF Raw
<1>4. CASE f.type = "RESET" BY <1>4 DEF applied
<1>5. f.type \in {"DATA", "WINDOW_UPDATE", "FIN", "RESET"} BY FrameFields DEF Kinds
<1> QED BY <1>1, <1>2, <1>3, <1>4, <1>5

\* A stream that failed.
LEMMA DeadFields ==
  \A c : /\ Dead(c).err = c /\ ~Dead(c).finished /\ Dead(c).buffered = 0 /\ Dead(c).pending = 0
         /\ Dead(c).credit = NoWindow /\ Dead(c).owed = 0 /\ Dead(c).readIndex = 0
         /\ Dead(c).queue = [i \in 0 .. StreamWindowBytes - 1 |-> 0]
         /\ ~Dead(c).writeClosed
BY DEF Dead, Fresh

\* A stream nobody opened yet.
LEMMA FreshFields ==
  /\ Fresh.err = "" /\ ~Fresh.finished /\ Fresh.buffered = 0 /\ Fresh.pending = 0
  /\ Fresh.credit = NoWindow /\ Fresh.owed = 0 /\ Fresh.readIndex = 0
  /\ Fresh.queue = [i \in 0 .. StreamWindowBytes - 1 |-> 0]
  /\ ~Fresh.writeClosed
BY DEF Fresh

\* A stream just admitted.
LEMMA GrantedFields ==
  ASSUME NEW s, s = [Fresh EXCEPT !.credit = StreamWindowBytes]
  PROVE  /\ s.err = "" /\ ~s.finished /\ s.buffered = 0 /\ s.pending = 0
         /\ s.credit = StreamWindowBytes /\ s.owed = 0 /\ s.readIndex = 0
         /\ s.queue = [i \in 0 .. StreamWindowBytes - 1 |-> 0]
         /\ ~s.writeClosed
BY DEF Fresh

\* What Write, CloseWrite and Read make of a stream, field by field.
LEMMA MovedFields ==
  ASSUME NEW s \in Objects
  PROVE  /\ \A n \in Nat : LET t == [s EXCEPT !.credit = @ - n, !.owed = @ + n] IN
              /\ t.credit = s.credit - n /\ t.owed = s.owed + n
              /\ t.finished = s.finished /\ t.writeClosed = s.writeClosed /\ t.err = s.err
              /\ t.buffered = s.buffered /\ t.queue = s.queue /\ t.readIndex = s.readIndex
              /\ t.pending = s.pending
         /\ LET t == [s EXCEPT !.writeClosed = TRUE] IN
              /\ t.credit = s.credit /\ t.owed = s.owed /\ t.pending = s.pending
              /\ t.finished = s.finished /\ t.writeClosed /\ t.err = s.err
              /\ t.buffered = s.buffered /\ t.queue = s.queue /\ t.readIndex = s.readIndex
         /\ \A n \in Nat : LET t == consumed(s, n) IN
              /\ t.credit = s.credit /\ t.owed = s.owed
              /\ t.finished = s.finished /\ t.writeClosed = s.writeClosed /\ t.err = s.err
              /\ t.buffered = s.buffered - n /\ t.pending = s.pending - n /\ t.queue = s.queue
<1>0. s \in Raw BY DEF Objects
<1> QED BY <1>0 DEF Raw, consumed

\* A step changes the ids a mux knows by at most the one it opens or admits.
LEMMA LiveShrinks ==
  ASSUME Inv, NEW e \in Ends, Step(e), NEW d \in Ends, NEW id \in Ids
  PROVE  Live(d, id)' => Live(d, id)
<1> SUFFICES ASSUME Live(d, id)' PROVE Live(d, id) OBVIOUS
<1>0. d = e \/ d = Peer(e) BY PeerIsEnd
<1>1. CASE d = Peer(e)
  <2>1. Apart(d) BY <1>1, StepIsApart
  <2> QED BY <2>1, ApartKnows
<1>2. CASE d = e
  <2>t. /\ err \in [Ends -> {"", "closed"}] /\ streams \in [Ends -> SUBSET Ids]
    BY DEF Inv, Base, MuxInv, Shape
  <2>1. CASE Open(e)
    <3>1. PICK k \in Ids : /\ k = nextId(lastLocal[e], e = "init") /\ ~knew(e, k)
                           /\ knew(e, id)' <=> knew(e, id) \/ id = k
      BY <2>1, OpenKnows
    <3>2. err' = err /\ streams' = [streams EXCEPT ![e] = @ \cup {k}] BY <2>1, <3>1 DEF Open
    <3> QED BY <1>2, <2>t, <3>1, <3>2 DEF Live
  <2>2. CASE Refuses(e)
    <3>1. knew(e, id)' <=> knew(e, id) \/ id = Head(link[e]).id BY <2>2, AdmitKnows
    <3> QED BY <1>2, <2>2, <3>1 DEF Live, Refuses
  <2>3. CASE Admits(e)
    <3>1. (knew(e, id)' <=> knew(e, id) \/ id = Head(link[e]).id) /\ ~knew(e, Head(link[e]).id)
      BY <2>3, AdmitKnows
    <3>2. err' = err /\ streams' = [streams EXCEPT ![e] = @ \cup {Head(link[e]).id}] BY <2>3
             DEF Admits
    <3> QED BY <1>2, <2>t, <3>1, <3>2 DEF Live
  <2>4. CASE Gone(e)
    <3>1. fail(e, "closed") BY <2>4 DEF Gone, Failing
    <3>2. err'[e] = "closed" BY <2>t, <3>1 DEF fail
    <3> QED BY <1>2, <3>2 DEF Live
  <2>5. CASE Accept(e) \/ Ignores(e) \/ \E k \in Ids : Waits(e, k)
    <3>1. UNCHANGED <<err, streams, lastLocal, lastRemote>>
      BY <2>5 DEF Accept, Ignores, Waits, ReadWaits, WriteBegins, WriteWaits, WriteFails,
               WaitCancelled
    <3> QED BY <3>1 DEF Live, knew
  <2>6. CASE Applies(e) \/ \E k \in Ids : Moves(e, k)
    <3>1. \E k, s : Becomes(e, k, s) BY <2>6, AppliesAt, ReadAt, WriteAt, CloseAt DEF Moves
    <3>2. UNCHANGED <<err, lastLocal, lastRemote>>
      BY <2>6 DEF Applies, Moves, Read, Write, CloseWrite, CloseStream
    <3>3. knew(d, id)' <=> knew(d, id) BY <3>2 DEF knew
    <3> QED BY <1>2, <3>1, <3>2, <3>3 DEF Live, Becomes
  <2> QED BY <2>1, <2>2, <2>3, <2>4, <2>5, <2>6 DEF Step, Gone
<1> QED BY <1>0, <1>1, <1>2

-----------------------------------------------------------------------------
(* What each step sends.                                                   *)

\* A single signal.
LEMMA OneFrame ==
  ASSUME NEW type \in Kinds, NEW id \in Ids, NEW size \in Nat
  PROVE  \E f \in Frames : /\ f = Signal(type, id, size)
                           /\ f.type = type /\ f.id = id /\ f.size = size
                           /\ <<f>> \in Seq(Frames) /\ Len(<<f>>) = 1 /\ <<f>>[1] = f
                           /\ \A i \in 1 .. Len(<<f>>) : <<f>>[i] = f
<1> DEFINE f == Signal(type, id, size)
<1>1. f \in Frames /\ f.type = type /\ f.id = id /\ f.size = size BY DEF Signal, Frame, Frames
<1> HIDE DEF f
<1>2. <<f>> \in Seq(Frames) /\ Len(<<f>>) = 1 /\ <<f>>[1] = f BY <1>1
<1>3. \A i \in 1 .. Len(<<f>>) : <<f>>[i] = f BY <1>2
<1> QED BY <1>1, <1>2, <1>3 DEF f

\* A stream an application works with is known.
LEMMA HeldIsKnown ==
  ASSUME Inv, NEW e \in Ends, NEW k \in Ids, Moves(e, k)
  PROVE  k \in held[e] /\ Used(e, k) /\ knew(e, k) /\ stream[<<e, k>>].err = ""
<1>1. k \in held[e] /\ stream[<<e, k>>].err = ""
  <2>1. want[<<e, k>>] > 0 => k \in held[e] BY DEF Inv, PerStream, Known
  <2> QED BY <2>1 DEF Moves, Read, Write, CloseWrite, CloseStream, usable, writing
<1>2. Used(e, k) BY <1>1 DEF Used
<1> QED BY <1>1, <1>2 DEF Inv, PerStream, Known

\* The frames that a reader or a writer of stream k sends.
Voiced(e, k, F) ==
  /\ link'[e] = link[e] /\ link'[Peer(e)] = link[Peer(e)] \o F
  /\ \A i \in 1 .. Len(F) :
       /\ F[i].id = k /\ F[i].type \in {"DATA", "WINDOW_UPDATE", "FIN", "RESET"}
       /\ F[i].type = "DATA" => F[i].size \in 1 .. MaxDataBytes

\* Which frames a reader or writer sends.
LEMMA MovesSpeak ==
  ASSUME Inv, NEW e \in Ends, NEW k \in Ids, Moves(e, k)
  PROVE  \E F \in Seq(Frames) : Voiced(e, k, F)
<1> DEFINE p == Peer(e)
<1>0. MuxInv /\ p \in Ends /\ link[p] \in Seq(Frames) BY PeerIsEnd DEF Inv, MuxInv, Shape
<1>e. <<>> \in Seq(Frames) /\ Len(<<>>) = 0 /\ link[p] \o <<>> = link[p] /\ \A i \in 1 .. 0 : FALSE
  BY <1>0, EmptySeq, ConcatEmptySeq
<1>s. ASSUME NEW F \in Seq(Frames), Send(e, F),
             \A i \in 1 .. Len(F) :
               /\ F[i].id = k /\ F[i].type \in {"DATA", "WINDOW_UPDATE", "FIN", "RESET"}
               /\ F[i].type = "DATA" => F[i].size \in 1 .. MaxDataBytes
      PROVE  \E G \in Seq(Frames) : Voiced(e, k, G)
  <2>1. /\ link'[e] = link[e]
        /\ link'[p] = IF err[p] = "" THEN link[p] \o F ELSE link[p]
    BY <1>0, <1>s, Sending
  <2>2. CASE err[p] = "" BY <1>s, <2>1, <2>2 DEF Voiced
  <2>3. CASE err[p] # ""
    <3>1. Voiced(e, k, <<>>) BY <1>e, <2>1, <2>3 DEF Voiced
    <3> QED BY <1>e, <3>1
  <2> QED BY <2>2, <2>3
<1>f. ASSUME NEW type \in {"WINDOW_UPDATE", "FIN", "RESET"}, NEW size \in Nat,
             Send(e, <<Signal(type, k, size)>>)
      PROVE  \E G \in Seq(Frames) : Voiced(e, k, G)
  <2>1. type \in Kinds BY DEF Kinds
  <2>2. PICK f \in Frames : /\ f = Signal(type, k, size) /\ f.type = type /\ f.id = k
                            /\ <<f>> \in Seq(Frames) /\ \A i \in 1 .. Len(<<f>>) : <<f>>[i] = f
    BY <2>1, OneFrame
  <2> DEFINE F == <<f>>
  <2>3. Send(e, F) /\ F \in Seq(Frames) /\ \A i \in 1 .. Len(F) : F[i] = f BY <1>f, <2>2
  <2> HIDE DEF F
  <2> QED BY <1>s, <2>2, <2>3
<1>1. CASE Read(e, k)
  <2>1. PICK size \in 1 .. stream[<<e, k>>].buffered : Send(e, <<Signal("WINDOW_UPDATE", k, size)>>)
    BY <1>1 DEF Read, creditBack
  <2>2. size \in Nat
    <3>1. stream[<<e, k>>].buffered \in Nat BY <1>0, Facts DEF Inv
    <3> QED BY <3>1
  <2> QED BY <1>f, <2>1, <2>2
<1>2. CASE Write(e, k)
  <2>1. PICK n, s :
           /\ n \in 1 .. want[<<e, k>>] /\ n <= stream[<<e, k>>].credit
           /\ s = [stream[<<e, k>>] EXCEPT !.credit = @ - n, !.owed = @ + n] /\ Becomes(e, k, s)
           /\ wrote' = [wrote EXCEPT ![<<e, k>>] = @ + n] /\ want' = [want EXCEPT ![<<e,
                       k>>] = @ - n]
           /\ Send(e, dataFrames(k, wrote[<<e, k>>] + 1, n))
    BY <1>2, WriteAt
  <2>2. wrote[<<e, k>>] \in Nat /\ want[<<e, k>>] \in Nat BY <1>0 DEF MuxInv, Shape
  <2>3. n \in Nat \ {0} /\ wrote[<<e, k>>] + 1 \in Nat BY <2>1, <2>2
  <2> DEFINE F == dataFrames(k, wrote[<<e, k>>] + 1, n)
  <2>4. /\ F \in Seq(Frames)
        /\ \A i \in 1 .. Len(F) : F[i].type = "DATA" /\ F[i].id = k
                    /\ F[i].size \in 1 .. MaxDataBytes
    BY <2>3, DataFramesAre
  <2>5. Send(e, F) BY <2>1
  <2> HIDE DEF F
  <2> QED BY <1>s, <2>4, <2>5
<1>3. CASE CloseWrite(e, k)
  <2>1. Send(e, <<Signal("FIN", k, 0)>>) BY <1>3 DEF CloseWrite
  <2> QED BY <1>f, <2>1
<1>4. CASE CloseStream(e, k)
  <2>1. CASE k \in streams[e]
    <3>1. Send(e, <<Signal("RESET", k, 0)>>) BY <1>4, <2>1 DEF CloseStream
    <3> QED BY <1>f, <3>1
  <2>2. CASE k \notin streams[e]
    <3>1. link' = link BY <1>4, <2>2 DEF CloseStream
    <3>2. Voiced(e, k, <<>>) BY <1>e, <3>1 DEF Voiced
    <3> QED BY <1>e, <3>2
  <2> QED BY <2>1, <2>2
<1> QED BY <1>1, <1>2, <1>3, <1>4 DEF Moves

\* A write side that is closed, or a stream that failed, stays so.
LEMMA MuteStays ==
  ASSUME Inv, NEW e \in Ends, Step(e), NEW d \in Ends, NEW id \in Ids, Mute(d, id)
  PROVE  Mute(d, id)'
<1>0. d = e \/ d = Peer(e) BY PeerIsEnd
<1>o. \A k \in Ids : stream[<<e, k>>] \in Objects BY Facts DEF Inv
<1>1. CASE d = Peer(e)
  <2>1. Apart(d) BY <1>1, StepIsApart
  <2> QED BY <2>1, ApartKnows
<1>2. CASE d = e
  <2>1. CASE Open(e) \/ Accept(e) \/ Refuses(e) \/ Ignores(e) \/ \E k \in Ids : Waits(e, k)
    <3>1. stream' = stream
      BY <2>1 DEF Open, Accept, Refuses, Ignores, Waits, ReadWaits, WriteBegins, WriteWaits,
               WriteFails, WaitCancelled
    <3> QED BY <3>1 DEF Mute
  <2>2. CASE Admits(e)
    <3>1. PICK s : /\ s = [Fresh EXCEPT !.credit = StreamWindowBytes]
                   /\ stream[<<e, Head(link[e]).id>>] = Fresh
                   /\ \A c \in Ends, k \in Ids :
                     stream'[<<c, k>>] = IF c = e /\ k = Head(link[e]).id THEN s ELSE stream[<<c,
                              k>>]
                   /\ \A c \in Ends, k \in Ids :
                     k \in streams'[c] <=> k \in streams[c] \/ (c = e /\ k = Head(link[e]).id)
      BY <2>2, AdmitAt
    <3> QED BY <1>2, <3>1, FreshFields DEF Mute
  <2>3. CASE Gone(e)
    <3>1. fail(e, "closed") BY <2>3 DEF Gone, Failing
    <3>2. stream'[<<d, id>>] = stream[<<d, id>>] \/ stream'[<<d, id>>] = Dead("closed")
      <4>1. stream \in [Ends \X Ids -> Objects] BY DEF Inv, MuxInv, Shape
      <4> HIDE DEF Dead
      <4> QED BY <3>1, <4>1 DEF fail
    <3> QED BY <3>2, DeadFields DEF Mute
  <2>4. CASE Applies(e)
    <3> DEFINE f == Head(link[e])
    <3>1. PICK s : s = applied(f, stream[<<e, f.id>>]) /\ Becomes(e, f.id, s) BY <2>4, AppliesAt
    <3>2. f \in Frames /\ f.id \in Ids /\ f.type # "OPEN" BY <2>4, HeadFrame DEF Inv, Applies
    <3> HIDE DEF f
    <3>3. stream'[<<e, id>>] = IF id = f.id THEN s ELSE stream[<<e, id>>] BY <3>1 DEF Becomes
    <3>4. f.type \in {"DATA", "WINDOW_UPDATE", "FIN", "RESET"} BY <3>2, FrameFields DEF Kinds
    <3>5. f.type = "RESET" => s.err = "reset" BY <1>o, <3>1, <3>2, AppliedFields, DeadFields
    <3>6. f.type # "RESET" => s.err = stream[<<e, f.id>>].err /\ s.writeClosed = stream[<<e,
             f.id>>].writeClosed
      BY <1>o, <3>1, <3>2, <3>4, AppliedFields
    <3> QED BY <1>2, <3>3, <3>5, <3>6 DEF Mute
  <2>5. ASSUME NEW k \in Ids, Read(e, k) PROVE Mute(d, id)'
    <3>1. PICK size \in 1 .. stream[<<e, k>>].buffered : \E s :
           s = consumed(stream[<<e, k>>], size) /\ Becomes(e, k, s)
      BY <2>5, ReadAt
    <3>2. PICK s : s = consumed(stream[<<e, k>>], size) /\ Becomes(e, k, s) BY <3>1
    <3>3. size \in Nat
      <4>1. stream[<<e, k>>].buffered \in Nat BY Facts DEF Inv
      <4> QED BY <4>1
    <3>4. s.err = stream[<<e, k>>].err /\ s.writeClosed = stream[<<e, k>>].writeClosed
      BY <1>o, <3>2, <3>3, MovedFields
    <3> QED BY <1>2, <3>2, <3>4 DEF Mute, Becomes
  <2>6. ASSUME NEW k \in Ids, Write(e, k) PROVE Mute(d, id)'
    <3>1. PICK n, s :
           /\ n \in 1 .. want[<<e, k>>] /\ n <= stream[<<e, k>>].credit
           /\ s = [stream[<<e, k>>] EXCEPT !.credit = @ - n, !.owed = @ + n] /\ Becomes(e, k, s)
           /\ wrote' = [wrote EXCEPT ![<<e, k>>] = @ + n] /\ want' = [want EXCEPT ![<<e,
                       k>>] = @ - n]
           /\ Send(e, dataFrames(k, wrote[<<e, k>>] + 1, n))
      BY <2>6, WriteAt
    <3>2. n \in Nat
      <4>1. want[<<e, k>>] \in Nat BY DEF Inv, MuxInv, Shape
      <4> QED BY <3>1, <4>1
    <3>4. s.err = stream[<<e, k>>].err /\ s.writeClosed = stream[<<e, k>>].writeClosed
      BY <1>o, <3>1, <3>2, MovedFields
    <3> QED BY <1>2, <3>1, <3>4 DEF Mute, Becomes
  <2>7. ASSUME NEW k \in Ids, CloseWrite(e, k) PROVE Mute(d, id)'
    <3>1. PICK s : s = [stream[<<e, k>>] EXCEPT !.writeClosed = TRUE] /\ Becomes(e, k,
             s) BY <2>7, CloseAt
    <3>2. s.writeClosed BY <1>o, <3>1, MovedFields
    <3> QED BY <1>2, <3>1, <3>2 DEF Mute, Becomes
  <2>8. ASSUME NEW k \in Ids, CloseStream(e, k) PROVE Mute(d, id)'
    <3>1. PICK s : s = Dead("closed") /\ Becomes(e, k, s) BY <2>8, CloseAt
    <3>2. s.err = "closed" BY <3>1, DeadFields
    <3> QED BY <1>2, <3>1, <3>2 DEF Mute, Becomes
  <2> QED BY <2>1, <2>2, <2>3, <2>4, <2>5, <2>6, <2>7, <2>8 DEF Step, Moves, Gone
<1> QED BY <1>0, <1>1, <1>2

\* The frames of a line are ones that the framing admits.
Proper(L) ==
  \A i \in 1 .. Len(L) :
    /\ L[i].type = "DATA" => L[i].size \in 1 .. MaxDataBytes
    /\ L[i].type = "OPEN" => L[i].size = StreamWindowBytes

\* That holds of longer and shorter lines.
LEMMA ProperLines ==
  ASSUME NEW L \in Seq(Frames), Proper(L)
  PROVE  /\ \A F \in Seq(Frames) : Proper(F) => Proper(L \o F)
         /\ L # <<>> => Proper(Tail(L))
         /\ Proper(<<>>)
<1>0. Len(L) \in Nat BY LenProperties
<1>1. ASSUME NEW F \in Seq(Frames), Proper(F) PROVE Proper(L \o F)
  <2> DEFINE M == L \o F
  <2>1. Len(F) \in Nat BY LenProperties
  <2>2. /\ Len(M) = Len(L) + Len(F)
        /\ \A i \in 1 .. Len(M) : M[i] = IF i <= Len(L) THEN L[i] ELSE F[i - Len(L)]
    BY ConcatProperties
  <2> HIDE DEF M
  <2>3. \A i \in 1 .. Len(M) : i <= Len(L) => i \in 1 .. Len(L) BY <1>0, <2>1, <2>2
  <2>4. \A i \in 1 .. Len(M) : ~(i <= Len(L)) => i - Len(L) \in 1 .. Len(F) BY <1>0, <2>1, <2>2
  <2>5. Proper(M) BY <1>1, <2>2, <2>3, <2>4 DEF Proper
  <2> QED BY <2>5 DEF M
<1>2. ASSUME L # <<>> PROVE Proper(Tail(L))
  <2>1. Len(Tail(L)) = Len(L) - 1 /\ \A i \in 1 .. Len(Tail(L)) : Tail(L)[i] = L[i + 1]
    BY <1>2, HeadTailProperties
  <2>2. \A i \in 1 .. Len(L) - 1 : i + 1 \in 1 .. Len(L) BY <1>0
  <2> QED BY <2>1, <2>2 DEF Proper
<1>3. Proper(<<>>)
  <2>1. Len(<<>>) = 0 /\ \A i \in 1 .. 0 : FALSE BY EmptySeq
  <2> QED BY <2>1 DEF Proper
<1> QED BY <1>1, <1>2, <1>3

\* A frame on its own, and what e sends to the other end if that one still reads.
Lone(f, F) ==
  f \in Frames /\ F = <<f>> /\ F \in Seq(Frames) /\ \A i \in 1 .. Len(F) : F[i] = f

\* What e sends is put behind the line of the other end, which a closed mux no longer
\* reads.
Posted(e, F) ==
  link'[Peer(e)] = IF err[Peer(e)] = "" THEN link[Peer(e)] \o F ELSE link[Peer(e)]

\* A signal is a frame on its own.
LEMMA LoneSignal ==
  ASSUME NEW type \in Kinds, NEW id \in Ids, NEW size \in Nat
  PROVE  \E f, F : /\ Lone(f, F) /\ F = <<Signal(type, id, size)>>
                   /\ f.type = type /\ f.id = id /\ f.size = size
<1> DEFINE f == Signal(type, id, size)
<1>1. f \in Frames /\ f.type = type /\ f.id = id /\ f.size = size BY DEF Signal, Frame, Frames
<1> HIDE DEF f
<1>2. <<f>> \in Seq(Frames) /\ Len(<<f>>) = 1 /\ <<f>>[1] = f BY <1>1
<1>3. \A i \in 1 .. Len(<<f>>) : <<f>>[i] = f BY <1>2
<1>4. Lone(f, <<f>>) BY <1>1, <1>2, <1>3 DEF Lone
<1> QED BY <1>1, <1>4, Zenon DEF f

\* What a receive takes off its line and what it answers.
LEMMA ReceiveSpeaks ==
  ASSUME Inv, NEW e \in Ends
  PROVE  /\ Ignores(e) \/ Applies(e) => link[e] # <<>> /\ link'[e] = Tail(link[e])
           /\ link'[Peer(e)] = link[Peer(e)]
         /\ Refuses(e) => \E f, F :
              /\ Lone(f, F) /\ f.type = "RESET" /\ f.id = Head(link[e]).id
              /\ link[e] # <<>> /\ link'[e] = Tail(link[e]) /\ Posted(e, F)
         /\ Admits(e) => \E f, F :
              /\ Lone(f, F) /\ f.type = "WINDOW_UPDATE" /\ f.id = Head(link[e]).id
                          /\ f.size = StreamWindowBytes
              /\ link[e] # <<>> /\ link'[e] = Tail(link[e]) /\ Posted(e, F)
<1>0. MuxInv /\ <<>> \in Seq(Frames) BY EmptySeq DEF Inv
<1>1. ASSUME Ignores(e) \/ Applies(e)
      PROVE  link[e] # <<>> /\ link'[e] = Tail(link[e]) /\ link'[Peer(e)] = link[Peer(e)]
  <2>1. Take(e, <<>>) /\ link[e] # <<>> BY <1>1 DEF Ignores, Applies
  <2> QED BY <1>0, <2>1, Sending
<1>2. ASSUME Refuses(e)
      PROVE  \E f, F :
              /\ Lone(f, F) /\ f.type = "RESET" /\ f.id = Head(link[e]).id
              /\ link[e] # <<>> /\ link'[e] = Tail(link[e]) /\ Posted(e, F)
  <2> DEFINE k == Head(link[e]).id
  <2>1. Take(e, <<Signal("RESET", k, 0)>>) /\ link[e] # <<>> BY <1>2 DEF Refuses
  <2>2. k \in Ids /\ "RESET" \in Kinds /\ 0 \in Nat BY <1>0, <2>1, HeadFrame DEF Kinds
  <2> HIDE DEF k
  <2>3. PICK f, F : /\ Lone(f, F) /\ F = <<Signal("RESET", k, 0)>>
                    /\ f.type = "RESET" /\ f.id = k /\ f.size = 0
    BY <2>2, LoneSignal
  <2>4. Take(e, F) /\ F \in Seq(Frames) BY <2>1, <2>3, Zenon DEF Lone
  <2>5. link'[e] = Tail(link[e]) /\ Posted(e, F) BY <1>0, <2>4, Sending DEF Posted
  <2> QED BY <2>1, <2>3, <2>5, Zenon DEF k
<1>3. ASSUME Admits(e)
      PROVE  \E f, F :
              /\ Lone(f, F) /\ f.type = "WINDOW_UPDATE" /\ f.id = Head(link[e]).id
                          /\ f.size = StreamWindowBytes
              /\ link[e] # <<>> /\ link'[e] = Tail(link[e]) /\ Posted(e, F)
  <2> DEFINE k == Head(link[e]).id
             n == StreamWindowBytes
  <2>1. Take(e, <<Signal("WINDOW_UPDATE", k, n)>>) /\ link[e] # <<>> BY <1>3 DEF Admits
  <2>2. k \in Ids /\ "WINDOW_UPDATE" \in Kinds /\ n \in Nat
    BY <1>0, <2>1, HeadFrame, MuxAssumption DEF Kinds
  <2> HIDE DEF k, n
  <2>3. PICK f, F : /\ Lone(f, F) /\ F = <<Signal("WINDOW_UPDATE", k, n)>>
                    /\ f.type = "WINDOW_UPDATE" /\ f.id = k /\ f.size = n
    BY <2>2, LoneSignal
  <2>4. Take(e, F) /\ F \in Seq(Frames) BY <2>1, <2>3, Zenon DEF Lone
  <2>5. link'[e] = Tail(link[e]) /\ Posted(e, F) BY <1>0, <2>4, Sending DEF Posted
  <2> QED BY <2>1, <2>3, <2>5, Zenon DEF k, n
<1> QED BY <1>1, <1>2, <1>3

\* OpenStream sends OPEN with the initial window.
LEMMA OpenSpeaks ==
  ASSUME Inv, NEW e \in Ends, Open(e), NEW k \in Ids, k = nextId(lastLocal[e], e = "init")
  PROVE  \E f, F :
              /\ Lone(f, F) /\ f.type = "OPEN" /\ f.id = k /\ f.size = StreamWindowBytes
              /\ link'[e] = link[e] /\ Posted(e, F)
<1> DEFINE n == StreamWindowBytes
<1>1. MuxInv /\ "OPEN" \in Kinds /\ n \in Nat BY MuxAssumption DEF Inv, Kinds
<1>2. Send(e, <<Signal("OPEN", k, n)>>) BY DEF Open
<1> HIDE DEF n
<1>3. PICK f, F : /\ Lone(f, F) /\ F = <<Signal("OPEN", k, n)>>
                  /\ f.type = "OPEN" /\ f.id = k /\ f.size = n
  BY <1>1, LoneSignal
<1>4. Send(e, F) /\ F \in Seq(Frames) BY <1>2, <1>3, Zenon DEF Lone
<1>5. link'[e] = link[e] /\ Posted(e, F) BY <1>1, <1>4, Sending DEF Posted
<1> QED BY <1>3, <1>5, Zenon DEF n

\* Every frame on a link is one the other end may send.
LEMMA SentKept ==
  ASSUME Inv, NEW e \in Ends, Step(e), NEW d \in Ends
  PROVE  Sent(d)'
<1> DEFINE p == Peer(e)
<1>0. p \in Ends /\ (d = e \/ d = p) BY PeerIsEnd
<1>1. link[e] \in Seq(Frames) /\ link[p] \in Seq(Frames) BY <1>0 DEF Inv, MuxInv, Shape
<1>2. Proper(link[e]) /\ Proper(link[p]) BY <1>0 DEF Inv, PerEnd, Sent, Proper
<1> SUFFICES Proper(link'[d]) BY DEF Sent, Proper
<1> HIDE DEF p
<1>f. ASSUME NEW f, NEW F, Lone(f, F), f.type # "DATA",
         f.type = "OPEN" => f.size = StreamWindowBytes,
             Posted(e, F)
      PROVE  Proper(link'[p])
  <2>1. Proper(F) /\ F \in Seq(Frames) BY <1>f DEF Proper, Lone
  <2>2. Proper(link[p] \o F) BY <1>1, <1>2, <2>1, ProperLines
  <2> QED BY <1>2, <1>f, <2>2 DEF Posted, p
<1>3. CASE Open(e)
  <2>1. PICK k \in Ids : k = nextId(lastLocal[e], e = "init") BY <1>3, OpenKnows
  <2>2. PICK f, F : /\ Lone(f, F) /\ f.type = "OPEN" /\ f.id = k /\ f.size = StreamWindowBytes
                    /\ link'[e] = link[e] /\ Posted(e, F)
    BY <1>3, <2>1, OpenSpeaks
  <2>3. Proper(link'[p]) BY <1>f, <2>2
  <2> QED BY <1>0, <1>2, <2>2, <2>3
<1>4. CASE Refuses(e)
  <2>2. PICK f, F :
              /\ Lone(f, F) /\ f.type = "RESET" /\ f.id = Head(link[e]).id
              /\ link[e] # <<>> /\ link'[e] = Tail(link[e]) /\ Posted(e, F)
    BY <1>4, ReceiveSpeaks
  <2>3. Proper(Tail(link[e])) BY <1>1, <1>2, <2>2, ProperLines
  <2>4. Proper(link'[p]) BY <1>f, <2>2
  <2> QED BY <1>0, <2>2, <2>3, <2>4
<1>5. CASE Admits(e)
  <2>2. PICK f, F :
              /\ Lone(f, F) /\ f.type = "WINDOW_UPDATE" /\ f.id = Head(link[e]).id
                          /\ f.size = StreamWindowBytes
              /\ link[e] # <<>> /\ link'[e] = Tail(link[e]) /\ Posted(e, F)
    BY <1>5, ReceiveSpeaks
  <2>3. Proper(Tail(link[e])) BY <1>1, <1>2, <2>2, ProperLines
  <2>4. Proper(link'[p]) BY <1>f, <2>2
  <2> QED BY <1>0, <2>2, <2>3, <2>4
<1>6. CASE Ignores(e) \/ Applies(e)
  <2>1. link[e] # <<>> /\ link'[e] = Tail(link[e]) /\ link'[p] = link[p] BY <1>6,
           ReceiveSpeaks DEF p
  <2>3. Proper(Tail(link[e])) BY <1>1, <1>2, <2>1, ProperLines
  <2> QED BY <1>0, <1>2, <2>1, <2>3
<1>7. CASE Gone(e)
  <2>1. \A c \in Ends : link'[c] = IF c = e THEN <<>> ELSE link[c] BY <1>7, GoneAt
  <2>2. Proper(<<>>) BY <1>1, <1>2, ProperLines
  <2> QED BY <1>0, <1>2, <2>1, <2>2, PeerIsEnd DEF p
<1>8. CASE Accept(e) \/ \E k \in Ids : Waits(e, k)
  <2>1. link' = link
    BY <1>8 DEF Accept, Waits, ReadWaits, WriteBegins, WriteWaits, WriteFails, WaitCancelled
  <2> QED BY <1>0, <1>2, <2>1
<1>9. ASSUME NEW k \in Ids, Moves(e, k) PROVE Proper(link'[d])
  <2>1. PICK F \in Seq(Frames) : Voiced(e, k, F) BY <1>9, MovesSpeak
  <2>2. Proper(F) BY <2>1 DEF Voiced, Proper
  <2>3. Proper(link[p] \o F) BY <1>1, <1>2, <2>2, ProperLines
  <2> QED BY <1>0, <1>2, <2>1, <2>3 DEF Voiced, p
<1> QED BY <1>3, <1>4, <1>5, <1>6, <1>7, <1>8, <1>9 DEF Step, Gone

-----------------------------------------------------------------------------
(* The parts about one end are kept.                                       *)

\* The id of an OPEN frame at the head of the line is one the other end has given out.
LEMMA HeadWasOpened ==
  ASSUME Inv, NEW e \in Ends, Refuses(e) \/ Admits(e)
  PROVE  /\ Head(link[e]).id <= lastLocal[Peer(e)]
         /\ OpenLine(Tail(link[e]), e, Head(link[e]).id, lastLocal[Peer(e)], lastLocal[e])
<1>1. link[e] # <<>> /\ err[e] = "" /\ Head(link[e]).type = "OPEN" BY DEF Refuses, Admits
<1>2. link[e] \in Seq(Frames) /\ OpenLine(link[e], e, lastRemote[e], lastLocal[Peer(e)],
         lastLocal[e])
  BY <1>1 DEF Inv, MuxInv, Shape, PerEnd, Opens
<1> QED BY <1>1, <1>2, OpenLineTaken

\* Parity is kept.
LEMMA ParityKept ==
  ASSUME Inv, NEW e \in Ends, Step(e), NEW d \in Ends
  PROVE  Parity(d)'
<1> DEFINE p == Peer(e)
<1>0. p \in Ends /\ (d = e \/ d = p) /\ p # e /\ Peer(p) = e BY PeerIsEnd
<1>1. Parity(e) /\ Parity(p) BY <1>0 DEF Inv, PerEnd
<1>2. Apart(p) BY StepIsApart
<1>3. /\ lastLocal[e] \in Nat /\ lastRemote[e] \in Nat /\ lastLocal[p] \in Nat
         /\ lastRemote[p] \in Nat
      /\ lastLocal \in [Ends -> Nat] /\ lastRemote \in [Ends -> 0 .. MaxId]
  <2>1. lastLocal \in [Ends -> Nat] /\ lastRemote \in [Ends -> 0 .. MaxId] BY DEF Inv, Base,
           MuxInv, Shape
  <2>2. lastRemote[e] \in 0 .. MaxId /\ lastRemote[p] \in 0 .. MaxId BY <1>0, <2>1
  <2> QED BY <1>0, <2>1, <2>2, MuxAssumption
<1>p. lastLocal'[p] = lastLocal[p] /\ lastRemote'[p] = lastRemote[p] BY <1>2 DEF Apart
<1>m. \A c, n : (Mine(c, n))' <=> Mine(c, n) BY DEF Mine
<1>4. CASE Open(e)
  <2>1. PICK k \in Ids : /\ Mine(e, k) /\ k > lastLocal[e]
                         /\ lastLocal' = [lastLocal EXCEPT ![e] = k] /\ lastRemote' = lastRemote
    BY <1>4, OpenKnows
  <2>2. lastLocal'[e] = k /\ lastRemote'[e] = lastRemote[e] BY <1>3, <2>1
  <2>3. k \in Nat BY FrameFields
  <2>4. lastRemote[p] <= k BY <1>0, <1>1, <1>3, <2>1, <2>3 DEF Parity
  <2>5. Parity(e)'
    <3>1. Mine(e, k) /\ (lastRemote[e] = 0 \/ ~Mine(e, lastRemote[e]))
             /\ lastRemote[e] <= lastLocal[p]
      BY <1>1, <2>1 DEF Parity
    <3> QED BY <1>p, <2>2, <3>1 DEF Parity, p
  <2>6. Parity(p)'
    <3>1. (lastLocal[p] = 0 \/ Mine(p, lastLocal[p])) /\ (lastRemote[p] = 0 \/ ~Mine(p,
             lastRemote[p]))
      BY <1>1 DEF Parity
    <3> HIDE DEF p
    <3> QED BY <1>0, <1>p, <2>2, <2>4, <3>1 DEF Parity
  <2> QED BY <1>0, <2>5, <2>6
<1>5. CASE Refuses(e) \/ Admits(e)
  <2> DEFINE k == Head(link[e]).id
  <2>1. /\ k \in Ids /\ ~Mine(e, k)
        /\ lastRemote' = [lastRemote EXCEPT ![e] = k] /\ lastLocal' = lastLocal
    BY <1>5, AdmitKnows
  <2>3. k <= lastLocal[p] BY <1>5, HeadWasOpened
  <2> HIDE DEF k
  <2>2. lastLocal'[e] = lastLocal[e] /\ lastRemote'[e] = k BY <1>3, <2>1
  <2>5. Parity(e)'
    <3>1. lastLocal[e] = 0 \/ Mine(e, lastLocal[e]) BY <1>1 DEF Parity
    <3> QED BY <1>p, <2>1, <2>2, <2>3, <3>1 DEF Parity, p
  <2>6. Parity(p)'
    <3>1. (lastLocal[p] = 0 \/ Mine(p, lastLocal[p])) /\ (lastRemote[p] = 0 \/ ~Mine(p,
             lastRemote[p]))
          /\ lastRemote[p] <= lastLocal[e]
      BY <1>0, <1>1 DEF Parity
    <3> HIDE DEF p
    <3> QED BY <1>0, <1>p, <2>2, <3>1 DEF Parity
  <2> QED BY <1>0, <2>5, <2>6
<1>6. CASE ~(Open(e) \/ Refuses(e) \/ Admits(e))
  <2>1. UNCHANGED <<lastLocal, lastRemote>>
    BY <1>6 DEF Step, Accept, Ignores, Applies, Failing, Waits, Moves, ReadWaits, WriteBegins,
             WriteWaits,
                WriteFails, WaitCancelled, Read, Write, CloseWrite, CloseStream
  <2>2. Parity(d) BY <1>0, <1>1
  <2> QED BY <2>1, <2>2 DEF Parity
<1> QED BY <1>4, <1>5, <1>6

\* Ended is kept.
LEMMA EndedKept ==
  ASSUME Inv, NEW e \in Ends, Step(e), MuxInv', NEW d \in Ends
  PROVE  Ended(d)'
<1> DEFINE p == Peer(e)
<1>0. p \in Ends /\ (d = e \/ d = p) BY PeerIsEnd
<1>1. CASE d = p
  <2>1. Apart(d) BY <1>1, StepIsApart
  <2>2. streams'[d] \subseteq Ids /\ streams[d] \subseteq Ids BY DEF Inv, MuxInv, Shape
  <2>3. streams'[d] = streams[d] BY <2>1, <2>2 DEF Apart
  <2> QED BY <2>1, <2>3 DEF Ended, Apart, Inv, PerEnd
<1>2. CASE d = e
  <2>1. CASE Gone(e)
    <3>1. /\ \A c \in Ends : streams'[c] = IF c = e THEN {} ELSE streams[c]
          /\ \A c \in Ends : accepted'[c] = IF c = e THEN <<>> ELSE accepted[c]
      BY <2>1, GoneAt
    <3> QED BY <1>2, <3>1 DEF Ended
  <2>2. CASE \E k \in Ids : Waits(e, k)
    <3>1. UNCHANGED <<err, streams, accepted>>
      BY <2>2 DEF Waits, ReadWaits, WriteBegins, WriteWaits, WriteFails, WaitCancelled
    <3> QED BY <3>1 DEF Ended, Inv, PerEnd
  <2>3. CASE \E k \in Ids : Moves(e, k)
    <3>1. PICK k \in Ids : Moves(e, k) BY <2>3
    <3>2. UNCHANGED <<err, accepted>> BY <3>1 DEF Moves, Read, Write, CloseWrite, CloseStream
    <3>3. PICK s : Becomes(e, k, s) BY <3>1, ReadAt, WriteAt, CloseAt DEF Moves
    <3>4. streams'[e] \subseteq streams[e]
      <4>1. streams'[e] \subseteq Ids BY DEF MuxInv, Shape
      <4> QED BY <3>3, <4>1 DEF Becomes
    <3> QED BY <1>2, <3>2, <3>4 DEF Ended, Inv, PerEnd
  <2>4. CASE Open(e) \/ Accept(e) \/ Refuses(e) \/ Admits(e) \/ Ignores(e) \/ Applies(e)
    <3>1. err' = err /\ err[e] = "" BY <2>4 DEF Open, Accept, Refuses, Admits, Ignores, Applies
    <3> QED BY <1>2, <3>1 DEF Ended
  <2> QED BY <2>1, <2>2, <2>3, <2>4 DEF Step, Gone
<1> QED BY <1>0, <1>1, <1>2

\* The ids that e may name on the link are known at both ends of it.
LEMMA SpokenIdsAreKnown ==
  ASSUME Inv, NEW e \in Ends, NEW k \in Ids, knew(e, k)
  PROVE  k <= IF Mine(Peer(e), k) THEN lastLocal[Peer(e)] ELSE lastLocal[e]
<1>1. Peer(e) \in Ends /\ (Mine(Peer(e), k) <=> ~Mine(e, k)) BY PeerIsEnd
<1>2. k <= IF Mine(e, k) THEN lastLocal[e] ELSE lastRemote[e] BY DEF knew, Mine
<1>3. lastRemote[e] <= lastLocal[Peer(e)] BY DEF Inv, PerEnd, Parity
<1>4. k \in Nat /\ lastLocal[Peer(e)] \in Nat /\ lastRemote[e] \in Nat BY <1>1, Facts,
         FrameFields DEF Inv
<1>5. CASE Mine(e, k) BY <1>1, <1>2, <1>5
<1>6. CASE ~Mine(e, k) BY <1>1, <1>2, <1>3, <1>4, <1>6
<1> QED BY <1>5, <1>6

\* Opens is kept: OPEN goes out in the order of its ids, and other frames only name
\* known ids.
LEMMA OpensKept ==
  ASSUME Inv, NEW e \in Ends, Step(e), NEW d \in Ends
  PROVE  Opens(d)'
<1> DEFINE p == Peer(e)
<1>0. p \in Ends /\ (d = e \/ d = p) /\ p # e /\ Peer(p) = e /\ ((p # "init") <=> (e = "init"))
  BY PeerIsEnd
<1>1. link[e] \in Seq(Frames) /\ link[p] \in Seq(Frames) BY <1>0 DEF Inv, MuxInv, Shape
<1>2. Apart(p) BY StepIsApart
<1>p. lastLocal'[p] = lastLocal[p] /\ lastRemote'[p] = lastRemote[p]
         /\ err'[p] = err[p] BY <1>2 DEF Apart
<1>3. /\ err[e] = "" => OpenLine(link[e], e, lastRemote[e], lastLocal[p], lastLocal[e])
      /\ err[p] = "" => OpenLine(link[p], p, lastRemote[p], lastLocal[e], lastLocal[p])
  BY <1>0 DEF Inv, PerEnd, Opens
<1>t. /\ lastLocal \in [Ends -> Nat] /\ lastLocal[e] \in Nat BY DEF Inv, MuxInv, Shape
<1> HIDE DEF p
<1> SUFFICES /\ err'[e] = "" => OpenLine(link'[e], e, lastRemote'[e], lastLocal[p], lastLocal'[e])
             /\ err[p] = "" => OpenLine(link'[p], p, lastRemote[p], lastLocal'[e], lastLocal[p])
  <2>1. Peer(e) = p BY DEF p
  <2>2. ASSUME err'[e] = "" => OpenLine(link'[e], e, lastRemote'[e], lastLocal[p], lastLocal'[e])
        PROVE  Opens(e)'
    BY <1>p, <2>1, <2>2 DEF Opens
  <2>3. ASSUME err[p] = "" => OpenLine(link'[p], p, lastRemote[p], lastLocal'[e], lastLocal[p])
        PROVE  Opens(p)'
    BY <1>0, <1>p, <2>3 DEF Opens
  <2> QED BY <1>0, <2>2, <2>3
<1>4. CASE Open(e)
  <2>1. PICK k \in Ids : /\ k = nextId(lastLocal[e], e = "init") /\ Mine(e, k) /\ k > lastLocal[e]
                         /\ lastLocal' = [lastLocal EXCEPT ![e] = k] /\ lastRemote' = lastRemote
    BY <1>4, OpenKnows
  <2>2. PICK f, F : /\ Lone(f, F) /\ f.type = "OPEN" /\ f.id = k /\ f.size = StreamWindowBytes
                    /\ link'[e] = link[e] /\ Posted(e, F)
    BY <1>4, <2>1, OpenSpeaks
  <2>3. lastLocal'[e] = k /\ lastRemote'[e] = lastRemote[e] /\ err' = err BY <1>4, <1>t, <2>1
           DEF Open
  <2>4. k \in Nat /\ lastLocal[e] <= k
    <3>1. k \in Nat BY FrameFields
    <3> QED BY <1>t, <2>1, <3>1
  <2>5. err[e] = "" => OpenLine(link[e], e, lastRemote[e], lastLocal[p], k)
    BY <1>1, <1>3, <1>t, <2>4, OpenLineMore
  <2>6. ASSUME err[p] = "" PROVE OpenLine(link'[p], p, lastRemote[p], k, lastLocal[p])
    <3>1. f \in Frames /\ F = <<f>> BY <2>2 DEF Lone
    <3>2. f.id = nextId(lastLocal[e], p # "init") /\ f.id > lastLocal[e] BY <1>0, <2>1, <2>2
    <3>3. OpenLine(link[p], p, lastRemote[p], lastLocal[e], lastLocal[p]) BY <1>3, <2>6
    <3>4. OpenLine(link[p] \o <<f>>, p, lastRemote[p], f.id, lastLocal[p])
      BY <1>1, <2>2, <3>1, <3>2, <3>3, OpenLineOpened
    <3>5. link'[p] = link[p] \o F BY <2>2, <2>6, Zenon DEF Posted, p
    <3>6. OpenLine(link[p] \o F, p, lastRemote[p], k, lastLocal[p]) BY <2>2, <3>1, <3>4, Zenon
    <3> QED BY <3>5, <3>6, Zenon
  <2> QED BY <2>2, <2>3, <2>5, <2>6
<1>5. ASSUME NEW F \in Seq(Frames), NEW k \in Ids, err[p] = "",
             \A i \in 1 .. Len(F) : F[i].type # "OPEN" /\ F[i].id = k,
             k <= IF Mine(p, k) THEN lastLocal[p] ELSE lastLocal[e]
      PROVE  OpenLine(link[p] \o F, p, lastRemote[p], lastLocal[e], lastLocal[p])
  BY <1>1, <1>3, <1>5, OpenLineSent
<1>6. CASE Refuses(e) \/ Admits(e)
  <2> DEFINE k == Head(link[e]).id
  <2>1. /\ k \in Ids /\ ~Mine(e, k)
        /\ lastRemote' = [lastRemote EXCEPT ![e] = k] /\ lastLocal' = lastLocal
    BY <1>6, AdmitKnows
  <2>2. k <= lastLocal[p] /\ OpenLine(Tail(link[e]), e, k, lastLocal[p], lastLocal[e]) BY <1>6,
           HeadWasOpened DEF p
  <2>3. PICK f, F :
              /\ Lone(f, F) /\ f.type # "OPEN" /\ f.id = k
              /\ link'[e] = Tail(link[e]) /\ Posted(e, F)
    BY <1>6, ReceiveSpeaks
  <2> HIDE DEF k
  <2>4. lastRemote'[e] = k
    <3>1. lastRemote \in [Ends -> 0 .. MaxId] BY DEF Inv, Base
    <3> QED BY <2>1, <3>1
  <2>5. Mine(p, k) BY <2>1, PeerIsEnd DEF p
  <2>6. ASSUME err[p] = "" PROVE OpenLine(link'[p], p, lastRemote[p], lastLocal[e], lastLocal[p])
    <3>1. F \in Seq(Frames) /\ \A i \in 1 .. Len(F) : F[i].type # "OPEN"
             /\ F[i].id = k BY <2>3 DEF Lone
    <3>2. OpenLine(link[p] \o F, p, lastRemote[p], lastLocal[e], lastLocal[p])
      BY <1>5, <2>1, <2>2, <2>5, <2>6, <3>1
    <3>3. link'[p] = link[p] \o F BY <2>3, <2>6, Zenon DEF Posted, p
    <3> QED BY <3>2, <3>3, Zenon
  <2> QED BY <2>1, <2>2, <2>3, <2>4, <2>6, Zenon
<1>7. CASE Ignores(e) \/ Applies(e)
  <2>1. link[e] # <<>> /\ link'[e] = Tail(link[e]) /\ link'[p] = link[p] BY <1>7,
           ReceiveSpeaks DEF p
  <2>2. UNCHANGED <<lastLocal, lastRemote, err>> /\ err[e] = "" /\ Head(link[e]).type # "OPEN"
    BY <1>7 DEF Ignores, Applies
  <2>3. OpenLine(Tail(link[e]), e, lastRemote[e], lastLocal[p], lastLocal[e])
    BY <1>1, <1>3, <2>1, <2>2, OpenLineTaken
  <2> QED BY <1>3, <2>1, <2>2, <2>3
<1>8. CASE Gone(e)
  <2>1. /\ \A c \in Ends : err'[c] = IF c = e THEN "closed" ELSE err[c]
        /\ \A c \in Ends : link'[c] = IF c = e THEN <<>> ELSE link[c]
        /\ UNCHANGED <<lastLocal, lastRemote>>
    BY <1>8, GoneAt
  <2>2. err'[e] = "closed" /\ link'[p] = link[p] BY <1>0, <2>1
  <2> QED BY <1>3, <2>1, <2>2
<1>9. CASE Accept(e) \/ \E k \in Ids : Waits(e, k)
  <2>1. UNCHANGED <<link, lastLocal, lastRemote, err>>
    BY <1>9 DEF Accept, Waits, ReadWaits, WriteBegins, WriteWaits, WriteFails, WaitCancelled
  <2> QED BY <1>3, <2>1
<1>10. CASE \E k \in Ids : Moves(e, k)
  <2>0. PICK k \in Ids : Moves(e, k) BY <1>10
  <2>1. PICK F \in Seq(Frames) : Voiced(e, k, F) BY <2>0, MovesSpeak
  <2>2. UNCHANGED <<lastLocal, lastRemote, err>> BY <2>0 DEF Moves, Read, Write, CloseWrite,
           CloseStream
  <2>3. k <= IF Mine(p, k) THEN lastLocal[p] ELSE lastLocal[e] BY <2>0, HeldIsKnown,
           SpokenIdsAreKnown DEF p
  <2>4. /\ link'[e] = link[e] /\ link'[p] = link[p] \o F
        /\ \A i \in 1 .. Len(F) : F[i].type # "OPEN" /\ F[i].id = k
    BY <2>1 DEF Voiced, p
  <2>5. err[p] = "" => OpenLine(link[p] \o F, p, lastRemote[p], lastLocal[e], lastLocal[p])
    BY <1>5, <2>3, <2>4
  <2> QED BY <1>3, <2>2, <2>4, <2>5
<1> QED BY <1>4, <1>6, <1>7, <1>8, <1>9, <1>10 DEF Step, Gone

\* The parts about one end are kept.
LEMMA PerEndKept ==
  ASSUME Inv, NEW e \in Ends, Step(e), MuxInv'
  PROVE  PerEnd'
BY ParityKept, EndedKept, SentKept, OpensKept DEF PerEnd

-----------------------------------------------------------------------------
(* The parts about one stream at the other end of a step are kept.         *)

\* A step leaves every stream of e but its own alone.
LEMMA Turns ==
  ASSUME Inv, NEW e \in Ends, Step(e), NEW id \in Ids
  PROVE  \/ Same(e, id)
         \/ Admits(e) /\ Head(link[e]).id = id
         \/ Applies(e) /\ Head(link[e]).id = id
         \/ Read(e, id) \/ Write(e, id) \/ CloseWrite(e, id) \/ CloseStream(e, id)
         \/ Gone(e)
<1>t. /\ got \in [Ends \X Ids -> Nat] /\ wrote \in [Ends \X Ids -> Nat]
  BY DEF Inv, Base, MuxInv, Shape
<1>1. CASE Open(e) \/ Accept(e) \/ Refuses(e) \/ Ignores(e) \/ \E k \in Ids : Waits(e, k)
  <2>1. UNCHANGED <<stream, got, wrote>>
    BY <1>1 DEF Open, Accept, Refuses, Ignores, Waits, ReadWaits, WriteBegins, WriteWaits,
             WriteFails, WaitCancelled
  <2> QED BY <2>1 DEF Same
<1>2. CASE Admits(e)
  <2>1. UNCHANGED <<got, wrote>> BY <1>2 DEF Admits
  <2>2. PICK s : /\ s = [Fresh EXCEPT !.credit = StreamWindowBytes]
                 /\ stream[<<e, Head(link[e]).id>>] = Fresh
                 /\ \A c \in Ends, k \in Ids :
                     stream'[<<c, k>>] = IF c = e /\ k = Head(link[e]).id THEN s ELSE stream[<<c,
                              k>>]
                 /\ \A c \in Ends, k \in Ids :
                     k \in streams'[c] <=> k \in streams[c] \/ (c = e /\ k = Head(link[e]).id)
    BY <1>2, AdmitAt
  <2> QED BY <1>2, <2>1, <2>2 DEF Same
<1>3. CASE Applies(e)
  <2>1. UNCHANGED <<got, wrote>> BY <1>3 DEF Applies
  <2>2. PICK s : Becomes(e, Head(link[e]).id, s) BY <1>3, AppliesAt
  <2> QED BY <1>3, <2>1, <2>2 DEF Same, Becomes
<1>4. CASE Gone(e) BY <1>4
<1>5. ASSUME NEW k \in Ids, Read(e, k), k # id PROVE Same(e, id)
  <2>1. PICK size, s : Becomes(e, k, s) /\ got' = [got EXCEPT ![<<e, k>>] = @ + size] BY <1>5,
           ReadAt
  <2>2. wrote' = wrote BY <1>5 DEF Read
  <2> QED BY <1>t, <1>5, <2>1, <2>2 DEF Same, Becomes
<1>6. ASSUME NEW k \in Ids, Write(e, k), k # id PROVE Same(e, id)
  <2>1. PICK n, s :
           /\ n \in 1 .. want[<<e, k>>] /\ n <= stream[<<e, k>>].credit
           /\ s = [stream[<<e, k>>] EXCEPT !.credit = @ - n, !.owed = @ + n] /\ Becomes(e, k, s)
           /\ wrote' = [wrote EXCEPT ![<<e, k>>] = @ + n] /\ want' = [want EXCEPT ![<<e,
                       k>>] = @ - n]
           /\ Send(e, dataFrames(k, wrote[<<e, k>>] + 1, n))
    BY <1>6, WriteAt
  <2>2. got' = got BY <1>6 DEF Write
  <2> QED BY <1>t, <1>6, <2>1, <2>2 DEF Same, Becomes
<1>7. ASSUME NEW k \in Ids, CloseWrite(e, k) \/ CloseStream(e, k), k # id PROVE Same(e, id)
  <2>1. PICK s : Becomes(e, k, s) BY <1>7, CloseAt
  <2>2. UNCHANGED <<got, wrote>> BY <1>7 DEF CloseWrite, CloseStream
  <2> QED BY <1>7, <2>1, <2>2 DEF Same, Becomes
<1> QED BY <1>1, <1>2, <1>3, <1>4, <1>5, <1>6, <1>7 DEF Step, Moves, Gone

\* Frames that do not count leave the line's reading alone.
LEMMA PostedCarries ==
  ASSUME Inv, NEW e \in Ends, NEW F \in Seq(Frames), Posted(e, F), NEW K, NEW id, NoneOf(F, K, id)
  PROVE  Carries(link[Peer(e)], link'[Peer(e)], K, id)
<1> DEFINE L == link[Peer(e)]
           M == link'[Peer(e)]
<1>1. M = L \/ M = L \o F BY DEF Posted
<1> HIDE DEF L, M
<1>2. Carries(L, M, K, id) BY <1>1 DEF Carries
<1> QED BY <1>2 DEF L, M

\* Only Write adds to what a stream has sent, and a mute stream is not written to.
LEMMA WroteStays ==
  ASSUME Inv, NEW e \in Ends, Step(e), NEW id \in Ids
  PROVE  /\ Write(e, id) => ~Mute(e, id)
         /\ ~Write(e, id) => wrote'[<<e, id>>] = wrote[<<e, id>>]
<1>1. Write(e, id) => ~Mute(e, id) BY DEF Write, Mute
<1>2. ASSUME ~Write(e, id) PROVE wrote'[<<e, id>>] = wrote[<<e, id>>]
  <2>1. CASE Same(e, id) BY <2>1 DEF Same
  <2>2. CASE Admits(e) \/ Applies(e) \/ Read(e, id) \/ CloseWrite(e, id) \/ CloseStream(e,
           id) \/ Gone(e)
    <3>1. wrote' = wrote BY <2>2 DEF Admits, Applies, Read, CloseWrite, CloseStream, Gone, Failing
    <3> QED BY <3>1
  <2> QED BY <1>2, <2>1, <2>2, Turns
<1> QED BY <1>1, <1>2

\* What the other end of a step has of a stream.
LEMMA PeerWhole ==
  ASSUME Inv, NEW e \in Ends, Step(e), NEW id \in Ids
  PROVE  Whole(Peer(e), id)' /\ FinOK(Peer(e), id)'
<1> DEFINE p == Peer(e)
<1>0. p \in Ends /\ Peer(p) = e BY PeerIsEnd
<1>1. Apart(p) BY StepIsApart
<1>2. Whole(p, id) /\ FinOK(p, id) BY <1>0 DEF Inv, PerStream
<1>3. stream'[<<p, id>>] = stream[<<p, id>>] /\ got'[<<p, id>>] = got[<<p, id>>] BY <1>1
         DEF Apart, Same
<1> HIDE DEF p
<1>4. Whole(p, id)' BY <1>2, <1>3 DEF Whole, Sized, Placed, Ring
<1>5. FinOK(p, id)'
  <2>1. arrived(p, id)' = arrived(p, id) BY <1>3 DEF arrived
  <2>2. Mute(e, id) => Mute(e, id)' /\ wrote'[<<e, id>>] = wrote[<<e, id>>] BY MuteStays, WroteStays
  <2> QED BY <1>0, <1>2, <1>3, <2>1, <2>2 DEF FinOK
<1> QED BY <1>4, <1>5 DEF p

\* A line of frames of one stream, of kinds that do not count.
LEMMA Unheard ==
  ASSUME NEW F, NEW K, NEW id,
         \A i \in 1 .. Len(F) : F[i].id # id \/ F[i].type \notin K
  PROVE  NoneOf(F, K, id)
BY DEF NoneOf, Counts

\* The same for the frames of a reader or writer.
LEMMA VoicedCarries ==
  ASSUME Inv, NEW e \in Ends, NEW k, NEW F \in Seq(Frames), Voiced(e, k, F), NEW K, NEW id,
           NoneOf(F, K, id)
  PROVE  Carries(link[Peer(e)], link'[Peer(e)], K, id)
<1> DEFINE L == link[Peer(e)]
           M == link'[Peer(e)]
<1>1. M = L \o F BY DEF Voiced
<1> HIDE DEF L, M
<1>2. Carries(L, M, K, id) BY <1>1 DEF Carries
<1> QED BY <1>2 DEF L, M

\* Sending one signal: what the other end's line carries.
LEMMA SignalCarries ==
  ASSUME Inv, NEW e \in Ends, NEW type \in Kinds, NEW k \in Ids, NEW size \in Nat,
         Send(e, <<Signal(type, k, size)>>), NEW K, NEW id, type \notin K \/ k # id
  PROVE  Carries(link[Peer(e)], link'[Peer(e)], K, id)
<1>1. PICK f, F : /\ Lone(f, F) /\ F = <<Signal(type, k, size)>>
                  /\ f.type = type /\ f.id = k /\ f.size = size
  BY LoneSignal
<1>2. F \in Seq(Frames) /\ Send(e, F) BY <1>1 DEF Lone
<1>3. Posted(e, F)
  <2>1. MuxInv BY DEF Inv
  <2>2. link'[Peer(e)] = IF err[Peer(e)] = "" THEN link[Peer(e)] \o F ELSE link[Peer(e)]
    BY <1>2, <2>1, Sending
  <2> QED BY <2>2 DEF Posted
<1>4. NoneOf(F, K, id)
  <2>1. \A i \in 1 .. Len(F) : F[i] = f BY <1>1 DEF Lone
  <2> QED BY <1>1, <2>1, Unheard, Zenon
<1> QED BY <1>2, <1>3, <1>4, PostedCarries

\* What a step does to the other end's line, apart from the data and the FIN of
\* the stream that is written to or closed.
LEMMA Heard ==
  ASSUME Inv, NEW e \in Ends, Step(e), NEW id \in Ids
  PROVE  \/ Write(e, id) \/ CloseWrite(e, id)
         \/ Carries(link[Peer(e)], link'[Peer(e)], {"DATA", "FIN"}, id)
<1> DEFINE p == Peer(e)
           K == {"DATA", "FIN"}
<1>0. p \in Ends /\ p # e BY PeerIsEnd
<1>1. CASE Open(e)
  <2>1. PICK k \in Ids : k = nextId(lastLocal[e], e = "init") BY <1>1, OpenKnows
  <2>2. PICK f, F : Lone(f, F) /\ f.type = "OPEN" /\ Posted(e, F) BY <1>1, <2>1, OpenSpeaks
  <2>3. F \in Seq(Frames) /\ NoneOf(F, K, id) BY <2>2, Unheard DEF Lone
  <2> QED BY <2>2, <2>3, PostedCarries
<1>2. CASE Refuses(e)
  <2>1. PICK f, F :
              /\ Lone(f, F) /\ f.type = "RESET" /\ f.id = Head(link[e]).id
              /\ link[e] # <<>> /\ link'[e] = Tail(link[e]) /\ Posted(e, F)
    BY <1>2, ReceiveSpeaks
  <2>2. F \in Seq(Frames) /\ NoneOf(F, K, id) BY <2>1, Unheard DEF Lone
  <2> QED BY <2>1, <2>2, PostedCarries
<1>3. CASE Admits(e)
  <2>1. PICK f, F :
              /\ Lone(f, F) /\ f.type = "WINDOW_UPDATE" /\ f.id = Head(link[e]).id
                          /\ f.size = StreamWindowBytes
              /\ link[e] # <<>> /\ link'[e] = Tail(link[e]) /\ Posted(e, F)
    BY <1>3, ReceiveSpeaks
  <2>2. F \in Seq(Frames) /\ NoneOf(F, K, id) BY <2>1, Unheard DEF Lone
  <2> QED BY <2>1, <2>2, PostedCarries
<1>4. CASE Ignores(e) \/ Applies(e)
  <2>1. link'[p] = link[p] BY <1>4, ReceiveSpeaks
  <2> QED BY <2>1 DEF Carries
<1>5. CASE Accept(e) \/ (\E k \in Ids : Waits(e, k))
  <2>1. link' = link
    BY <1>5 DEF Accept, Waits, ReadWaits, WriteBegins, WriteWaits, WriteFails, WaitCancelled
  <2> QED BY <2>1 DEF Carries
<1>6. CASE Gone(e)
  <2>1. \A c \in Ends : link'[c] = IF c = e THEN <<>> ELSE link[c] BY <1>6, GoneAt
  <2>2. link'[p] = link[p] BY <1>0, <2>1
  <2> QED BY <2>2 DEF Carries
<1>7. ASSUME NEW k \in Ids, Write(e, k) \/ CloseWrite(e, k), k # id
      PROVE  Carries(link[Peer(e)], link'[Peer(e)], K, id)
  <2>1. PICK F \in Seq(Frames) : Voiced(e, k, F) BY <1>7, MovesSpeak DEF Moves
  <2>2. NoneOf(F, K, id) BY <1>7, <2>1, Unheard DEF Voiced
  <2> QED BY <2>1, <2>2, VoicedCarries
<1>8. ASSUME NEW k \in Ids, Read(e, k)
      PROVE  Carries(link[Peer(e)], link'[Peer(e)], K, id)
  <2>1. PICK size \in 1 .. stream[<<e, k>>].buffered : Send(e, <<Signal("WINDOW_UPDATE", k, size)>>)
    BY <1>8 DEF Read, creditBack
  <2>2. size \in Nat
    <3>1. stream[<<e, k>>].buffered \in Nat BY Facts DEF Inv
    <3> QED BY <3>1
  <2>3. "WINDOW_UPDATE" \in Kinds /\ "WINDOW_UPDATE" \notin K BY DEF Kinds
  <2> QED BY <2>1, <2>2, <2>3, SignalCarries
<1>9. ASSUME NEW k \in Ids, CloseStream(e, k)
      PROVE  Carries(link[Peer(e)], link'[Peer(e)], K, id)
  <2>1. CASE k \in streams[e]
    <3>1. Send(e, <<Signal("RESET", k, 0)>>) BY <1>9, <2>1 DEF CloseStream
    <3>2. "RESET" \in Kinds /\ "RESET" \notin K /\ 0 \in Nat BY DEF Kinds
    <3> QED BY <3>1, <3>2, SignalCarries
  <2>2. CASE k \notin streams[e]
    <3>1. link' = link BY <1>9, <2>2 DEF CloseStream
    <3> QED BY <3>1 DEF Carries
  <2> QED BY <2>1, <2>2
<1> QED BY <1>1, <1>2, <1>3, <1>4, <1>5, <1>6, <1>7, <1>8, <1>9 DEF Step, Moves, Gone

\* What is on its way to the other end, and what has arrived there, is the
\* stream as far as e has written it.
LEMMA PeerData ==
  ASSUME Inv, NEW e \in Ends, Step(e), MuxInv', Base', NEW id \in Ids, ~Write(e, id),
           ~CloseWrite(e, id)
  PROVE  DataOK(Peer(e), id)'
<1> DEFINE p == Peer(e)
<1>0. p \in Ends /\ Peer(p) = e BY PeerIsEnd
<1>1. Apart(p) BY StepIsApart
<1>2. DataOK(p, id) /\ MuxInv /\ Base BY <1>0 DEF Inv, PerStream
<1>3. stream'[<<p, id>>] = stream[<<p, id>>] /\ got'[<<p, id>>] = got[<<p, id>>] BY <1>1
         DEF Apart, Same
<1>4. Live(p, id)' <=> Live(p, id) BY <1>0, <1>1, ApartKnows
<1>5. Carries(link[p], link'[p], {"DATA", "FIN"}, id) BY Heard
<1>6. Mute(e, id) => Mute(e, id)' BY MuteStays
<1>7. wrote'[<<e, id>>] = wrote[<<e, id>>] BY WroteStays
<1>8. got[<<p, id>>] \in Nat BY <1>0, <1>2, Facts
<1> HIDE DEF p
<1>9. arrived(p, id)' = arrived(p, id) BY <1>3 DEF arrived
<1>10. got'[<<p, id>>] >= got[<<p, id>>] BY <1>3, <1>8
<1>11. DataOK(p, id)' BY <1>0, <1>2, <1>3, <1>4, <1>5, <1>6, <1>7, <1>9, <1>10, DataCarry
<1> QED BY <1>11 DEF p

\* A stream that can be written to, or that has bytes to read, is in the mux.
LEMMA InUse ==
  ASSUME Inv, NEW e \in Ends, NEW k \in Ids,
         Write(e, k) \/ CloseWrite(e, k) \/ Read(e, k)
  PROVE  k \in streams[e] /\ err[e] = "" /\ Live(e, k) /\ knew(e, k)
<1>1. k \in held[e] /\ Used(e, k) /\ knew(e, k) /\ stream[<<e, k>>].err = "" BY HeldIsKnown
         DEF Moves
<1>2. Known(e, k) /\ Ended(e) BY DEF Inv, PerStream, PerEnd
<1>3. ~retires(stream[<<e, k>>])
  <2>1. CASE Write(e, k) \/ CloseWrite(e, k) BY <2>1 DEF Write, CloseWrite, retires
  <2>2. CASE Read(e, k)
    <3>1. stream[<<e, k>>].buffered > 0 BY <2>2 DEF Read
    <3>2. stream[<<e, k>>].pending = stream[<<e, k>>].buffered BY Facts DEF Inv
    <3> QED BY <3>1, <3>2 DEF retires, drained
  <2> QED BY <2>1, <2>2
<1>4. k \in streams[e] BY <1>1, <1>2, <1>3 DEF Known
<1>5. err[e] = "" BY <1>2, <1>4 DEF Ended
<1> QED BY <1>1, <1>4, <1>5 DEF Live

\* The writer never has more credit than the reader has room for.
LEMMA WithinCredit ==
  ASSUME Inv, NEW e \in Ends, NEW k \in Ids, Write(e, k), Live(Peer(e), k), NEW n \in Nat,
           n <= stream[<<e, k>>].credit
  PROVE  (wrote[<<e, k>>] + n) - got[<<Peer(e), k>>] <= StreamWindowBytes
<1> DEFINE p == Peer(e)
           c == stream[<<e, k>>].credit
           w == wrote[<<e, k>>]
           g == got[<<p, k>>]
<1>0. p \in Ends BY PeerIsEnd
<1>1. Live(e, k) BY InUse
<1>2. CreditOK(e, k) /\ MuxInv /\ Base BY DEF Inv, PerStream
<1>3. PICK z : /\ CreditLine(link[e], k, received(e, k), z)
               /\ z <= StreamWindowBytes + wrote[<<e, k>>]
               /\ Live(Peer(e), k) => z = issued(Peer(e), k)
  BY <1>1, <1>2 DEF CreditOK
<1>4. link[e] \in Seq(Frames) /\ c \in Int /\ w \in Nat /\ g \in Nat /\ StreamWindowBytes \in Nat
  BY <1>0, <1>2, Facts
<1>5. received(e, k) \in Nat /\ z \in Nat /\ received(e, k) <= z BY <1>3, <1>4, LineEnds
<1>6. c > 0 BY DEF Write
<1>7. received(e, k) = c + w BY <1>6 DEF received, NoWindow
<1>8. z <= g + StreamWindowBytes
  <2>1. z = issued(p, k) BY <1>3
  <2>2. issued(p, k) = g + StreamWindowBytes \/ issued(p, k) = g + 0 BY DEF issued
  <2> HIDE DEF g, p
  <2> QED BY <1>4, <2>1, <2>2
<1>9. n <= c OBVIOUS
<1> HIDE DEF c, w, g
<1>10. (w + n) - g <= StreamWindowBytes BY <1>4, <1>5, <1>7, <1>8, <1>9
<1> QED BY <1>10 DEF c, w, g, p

\* Write keeps DataOK of its reader.
LEMMA WrittenData ==
  ASSUME Inv, NEW e \in Ends, NEW k \in Ids, Write(e, k), Step(e), MuxInv', Base'
  PROVE  DataOK(Peer(e), k)'
<1> DEFINE p == Peer(e)
<1>0. p \in Ends /\ Peer(p) = e BY PeerIsEnd
<1>1. Apart(p) BY StepIsApart
<1>2. DataOK(p, k) /\ FinOK(p, k) /\ MuxInv /\ Base BY <1>0 DEF Inv, PerStream
<1>3. stream'[<<p, k>>] = stream[<<p, k>>] /\ got'[<<p, k>>] = got[<<p, k>>] /\ err'[p] = err[p]
  BY <1>1 DEF Apart, Same
<1>4. Live(p, k)' <=> Live(p, k) BY <1>0, <1>1, ApartKnows
<1>5. PICK n, s :
           /\ n \in 1 .. want[<<e, k>>] /\ n <= stream[<<e, k>>].credit
           /\ s = [stream[<<e, k>>] EXCEPT !.credit = @ - n, !.owed = @ + n] /\ Becomes(e, k, s)
           /\ wrote' = [wrote EXCEPT ![<<e, k>>] = @ + n] /\ want' = [want EXCEPT ![<<e,
                       k>>] = @ - n]
           /\ Send(e, dataFrames(k, wrote[<<e, k>>] + 1, n))
  BY WriteAt
<1>6. /\ wrote[<<e, k>>] \in Nat /\ n \in Nat \ {0} /\ wrote[<<e, k>>] + 1 \in Nat
      /\ wrote'[<<e, k>>] = wrote[<<e, k>>] + n /\ link[p] \in Seq(Frames)
  <2>1. wrote \in [Ends \X Ids -> Nat] /\ want[<<e, k>>] \in Nat /\ link[p] \in Seq(Frames)
    BY <1>0, <1>2 DEF MuxInv, Shape
  <2>2. wrote[<<e, k>>] \in Nat /\ wrote'[<<e, k>>] = wrote[<<e, k>>] + n BY <1>5, <2>1
  <2> QED BY <1>5, <2>1, <2>2
<1> DEFINE w == wrote[<<e, k>>]
           F == dataFrames(k, w + 1, n)
<1>7. /\ F \in Seq(Frames)
      /\ \A i \in 1 .. Len(F) : F[i].type = "DATA" /\ F[i].id = k /\ F[i].size \in 1 .. MaxDataBytes
  BY <1>6, DataFramesAre
<1>8. link'[p] = IF err[p] = "" THEN link[p] \o F ELSE link[p] BY <1>2, <1>5, <1>7, Sending
<1>9. ~Mute(e, k) BY WroteStays
<1>10. SUFFICES ASSUME Live(p, k)'
               PROVE  /\ DataLine(link'[p], k, arrived(p, k)', wrote'[<<e, k>>])
                      /\ wrote'[<<e, k>>] - got'[<<p, k>>] <= StreamWindowBytes
                      /\ FinLine(link'[p], k)
                      /\ NoneOf(link'[p], {"FIN"}, k)
                      /\ ~stream'[<<p, k>>].finished
  <2> HIDE DEF p, w, F
  <2>1. ASSUME Live(p, k)' => /\ DataLine(link'[p], k, arrived(p, k)', wrote'[<<e, k>>])
                      /\ wrote'[<<e, k>>] - got'[<<p, k>>] <= StreamWindowBytes
                      /\ FinLine(link'[p], k)
                      /\ NoneOf(link'[p], {"FIN"}, k)
                      /\ ~stream'[<<p, k>>].finished
        PROVE DataOK(p, k)'
    BY <1>0, <2>1 DEF DataOK
  <2> QED BY <2>1 DEF p
<1>11. Live(p, k) /\ err[p] = "" BY <1>4, <1>10 DEF Live
<1>12. /\ DataLine(link[p], k, arrived(p, k), w) /\ NoneOf(link[p], {"FIN"}, k)
       /\ ~stream[<<p, k>>].finished
  BY <1>0, <1>2, <1>9, <1>11 DEF DataOK, FinOK
<1>13. DataLine(link[p] \o F, k, arrived(p, k), w + n) BY <1>6, <1>12, DataLineWritten
<1>14. (w + n) - got[<<p, k>>] <= StreamWindowBytes BY <1>5, <1>6, <1>11, WithinCredit
<1> HIDE DEF p, F
<1>15. NoneOf(F, {"FIN"}, k) BY <1>7, Unheard
<1>16. Carries(link[p], link[p] \o F, {"FIN"}, k) BY <1>7, <1>15 DEF Carries
<1>17. NoneOf(link[p] \o F, {"FIN"}, k) BY <1>6, <1>12, <1>16, NoneCarried
<1>18. FinLine(link[p] \o F, k) BY <1>17, NoFinIsLine
<1>19. arrived(p, k)' = arrived(p, k) BY <1>3 DEF arrived
<1>20. link'[p] = link[p] \o F BY <1>8, <1>11
<1> QED BY <1>3, <1>6, <1>12, <1>13, <1>14, <1>17, <1>18, <1>19, <1>20

\* CloseWrite keeps DataOK of its reader: FIN says that all was written.
LEMMA ClosedData ==
  ASSUME Inv, NEW e \in Ends, NEW k \in Ids, CloseWrite(e, k), Step(e), MuxInv', Base'
  PROVE  DataOK(Peer(e), k)'
<1> DEFINE p == Peer(e)
<1>0. p \in Ends /\ Peer(p) = e BY PeerIsEnd
<1>1. Apart(p) BY StepIsApart
<1>2. DataOK(p, k) /\ FinOK(p, k) /\ MuxInv /\ Base BY <1>0 DEF Inv, PerStream
<1>3. stream'[<<p, k>>] = stream[<<p, k>>] /\ got'[<<p, k>>] = got[<<p, k>>] /\ err'[p] = err[p]
  BY <1>1 DEF Apart, Same
<1>4. Live(p, k)' <=> Live(p, k) BY <1>0, <1>1, ApartKnows
<1>5. Send(e, <<Signal("FIN", k, 0)>>) /\ wrote' = wrote BY DEF CloseWrite
<1>6. PICK f, F : /\ Lone(f, F) /\ F = <<Signal("FIN", k, 0)>> /\ f.type = "FIN" /\ f.id = k
         /\ f.size = 0
  <2>1. "FIN" \in Kinds /\ 0 \in Nat BY DEF Kinds
  <2> QED BY <2>1, LoneSignal
<1>7. F \in Seq(Frames) /\ f \in Frames /\ F = <<f>> /\ Send(e, F) /\ link[p] \in Seq(Frames)
  BY <1>0, <1>2, <1>5, <1>6 DEF Lone, MuxInv, Shape
<1>8. link'[p] = IF err[p] = "" THEN link[p] \o F ELSE link[p] BY <1>2, <1>7, Sending
<1>9. ~Mute(e, k) /\ Mute(e, k)'
  <2>1. ~Mute(e, k) BY DEF CloseWrite, usable, Mute
  <2>2. PICK s : s = [stream[<<e, k>>] EXCEPT !.writeClosed = TRUE] /\ Becomes(e, k, s) BY CloseAt
  <2>3. stream[<<e, k>>] \in Objects BY <1>2, Facts
  <2>4. s.writeClosed BY <2>2, <2>3, MovedFields
  <2>5. stream'[<<e, k>>] = s BY <2>2 DEF Becomes
  <2> QED BY <2>1, <2>4, <2>5 DEF Mute
<1> DEFINE w == wrote[<<e, k>>]
<1>10. SUFFICES ASSUME Live(p, k)'
               PROVE  /\ DataLine(link'[p], k, arrived(p, k)', wrote'[<<e, k>>])
                      /\ wrote'[<<e, k>>] - got'[<<p, k>>] <= StreamWindowBytes
                      /\ FinLine(link'[p], k)
                      /\ Mute(e, k)'
                      /\ ~stream'[<<p, k>>].finished
  <2> HIDE DEF p, w
  <2>1. ASSUME Live(p, k)' => /\ DataLine(link'[p], k, arrived(p, k)', wrote'[<<e, k>>])
                      /\ wrote'[<<e, k>>] - got'[<<p, k>>] <= StreamWindowBytes
                      /\ FinLine(link'[p], k)
                      /\ Mute(e, k)'
                      /\ ~stream'[<<p, k>>].finished
        PROVE DataOK(p, k)'
    BY <1>0, <2>1 DEF DataOK
  <2> QED BY <2>1 DEF p
<1>11. Live(p, k) /\ err[p] = "" BY <1>4, <1>10 DEF Live
<1>12. /\ DataLine(link[p], k, arrived(p, k), w) /\ NoneOf(link[p], {"FIN"}, k)
       /\ ~stream[<<p, k>>].finished /\ w - got[<<p, k>>] <= StreamWindowBytes
  BY <1>0, <1>2, <1>9, <1>11 DEF DataOK, FinOK
<1>13. DataLine(link[p] \o <<f>>, k, arrived(p, k), w) BY <1>6, <1>7, <1>12, DataLineEnded
<1>14. FinLine(link[p] \o <<f>>, k) BY <1>7, <1>12, FinAdded
<1> HIDE DEF p
<1>15. link'[p] = link[p] \o <<f>> BY <1>7, <1>8, <1>11, Zenon
<1>16. arrived(p, k)' = arrived(p, k) BY <1>3 DEF arrived
<1>17. DataLine(link'[p], k, arrived(p, k)', wrote'[<<e, k>>]) /\ FinLine(link'[p], k)
  BY <1>5, <1>13, <1>14, <1>15, <1>16, Zenon
<1> QED BY <1>3, <1>5, <1>9, <1>12, <1>17

\* Credit for a stream comes from e only when it opens, admits or reads it.
LEMMA Credited ==
  ASSUME Inv, NEW e \in Ends, Step(e), NEW id \in Ids
  PROVE  \/ Open(e) /\ id = nextId(lastLocal[e], e = "init")
         \/ Admits(e) /\ Head(link[e]).id = id
         \/ Read(e, id)
         \/ Carries(link[Peer(e)], link'[Peer(e)], Credits, id)
<1> DEFINE p == Peer(e)
<1>0. p \in Ends /\ p # e BY PeerIsEnd
<1>k. {"DATA", "FIN", "RESET"} \cap Credits = {} BY DEF Credits
<1>1. CASE Open(e)
  <2>1. PICK k \in Ids : k = nextId(lastLocal[e], e = "init") BY <1>1, OpenKnows
  <2>2. PICK f, F : Lone(f, F) /\ f.type = "OPEN" /\ f.id = k /\ Posted(e, F) BY <1>1, <2>1,
           OpenSpeaks
  <2>3. CASE k # id
    <3>1. F \in Seq(Frames) /\ NoneOf(F, Credits, id) BY <2>2, <2>3, Unheard DEF Lone
    <3> QED BY <2>2, <3>1, PostedCarries
  <2> QED BY <1>1, <2>1, <2>3
<1>2. CASE Refuses(e)
  <2>1. PICK f, F :
              /\ Lone(f, F) /\ f.type = "RESET" /\ f.id = Head(link[e]).id
              /\ link[e] # <<>> /\ link'[e] = Tail(link[e]) /\ Posted(e, F)
    BY <1>2, ReceiveSpeaks
  <2>2. F \in Seq(Frames) /\ NoneOf(F, Credits, id) BY <1>k, <2>1, Unheard DEF Lone
  <2> QED BY <2>1, <2>2, PostedCarries
<1>3. CASE Admits(e)
  <2>1. PICK f, F :
              /\ Lone(f, F) /\ f.type = "WINDOW_UPDATE" /\ f.id = Head(link[e]).id
                          /\ f.size = StreamWindowBytes
              /\ link[e] # <<>> /\ link'[e] = Tail(link[e]) /\ Posted(e, F)
    BY <1>3, ReceiveSpeaks
  <2>2. CASE f.id # id
    <3>1. F \in Seq(Frames) /\ NoneOf(F, Credits, id) BY <2>1, <2>2, Unheard DEF Lone
    <3> QED BY <2>1, <3>1, PostedCarries
  <2> QED BY <1>3, <2>1, <2>2
<1>4. CASE Ignores(e) \/ Applies(e)
  <2>1. link'[p] = link[p] BY <1>4, ReceiveSpeaks
  <2> QED BY <2>1 DEF Carries
<1>5. CASE Accept(e) \/ (\E k \in Ids : Waits(e, k))
  <2>1. link' = link
    BY <1>5 DEF Accept, Waits, ReadWaits, WriteBegins, WriteWaits, WriteFails, WaitCancelled
  <2> QED BY <2>1 DEF Carries
<1>6. CASE Gone(e)
  <2>1. \A c \in Ends : link'[c] = IF c = e THEN <<>> ELSE link[c] BY <1>6, GoneAt
  <2>2. link'[p] = link[p] BY <1>0, <2>1
  <2> QED BY <2>2 DEF Carries
<1>7. ASSUME NEW k \in Ids, Read(e, k), k # id
      PROVE  Carries(link[Peer(e)], link'[Peer(e)], Credits, id)
  <2>1. PICK F \in Seq(Frames) : Voiced(e, k, F) BY <1>7, MovesSpeak DEF Moves
  <2>2. NoneOf(F, Credits, id) BY <1>7, <2>1, Unheard DEF Voiced
  <2> QED BY <2>1, <2>2, VoicedCarries
<1>8. ASSUME NEW k \in Ids, Write(e, k)
      PROVE  Carries(link[Peer(e)], link'[Peer(e)], Credits, id)
  <2>1. PICK n, s :
           /\ n \in 1 .. want[<<e, k>>] /\ n <= stream[<<e, k>>].credit
           /\ s = [stream[<<e, k>>] EXCEPT !.credit = @ - n, !.owed = @ + n] /\ Becomes(e, k, s)
           /\ wrote' = [wrote EXCEPT ![<<e, k>>] = @ + n] /\ want' = [want EXCEPT ![<<e,
                       k>>] = @ - n]
           /\ Send(e, dataFrames(k, wrote[<<e, k>>] + 1, n))
    BY <1>8, WriteAt
  <2>2. n \in Nat \ {0} /\ wrote[<<e, k>>] + 1 \in Nat
    <3>1. wrote[<<e, k>>] \in Nat /\ want[<<e, k>>] \in Nat BY DEF Inv, MuxInv, Shape
    <3> QED BY <2>1, <3>1
  <2> DEFINE F == dataFrames(k, wrote[<<e, k>>] + 1, n)
  <2>3. /\ F \in Seq(Frames)
        /\ \A i \in 1 .. Len(F) : F[i].type = "DATA" /\ F[i].id = k
                    /\ F[i].size \in 1 .. MaxDataBytes
    BY <2>2, DataFramesAre
  <2>4. Send(e, F) BY <2>1
  <2> HIDE DEF F
  <2>5. MuxInv BY DEF Inv
  <2>6. Posted(e, F) BY <2>3, <2>4, <2>5, Sending DEF Posted
  <2>7. NoneOf(F, Credits, id) BY <1>k, <2>3, Unheard
  <2> QED BY <2>3, <2>6, <2>7, PostedCarries
<1>9. ASSUME NEW k \in Ids, CloseWrite(e, k)
      PROVE  Carries(link[Peer(e)], link'[Peer(e)], Credits, id)
  <2>1. Send(e, <<Signal("FIN", k, 0)>>) BY <1>9 DEF CloseWrite
  <2>2. "FIN" \in Kinds /\ "FIN" \notin Credits /\ 0 \in Nat BY DEF Kinds, Credits
  <2> QED BY <2>1, <2>2, SignalCarries
<1>10. ASSUME NEW k \in Ids, CloseStream(e, k)
      PROVE  Carries(link[Peer(e)], link'[Peer(e)], Credits, id)
  <2>1. CASE k \in streams[e]
    <3>1. Send(e, <<Signal("RESET", k, 0)>>) BY <1>10, <2>1 DEF CloseStream
    <3>2. "RESET" \in Kinds /\ "RESET" \notin Credits /\ 0 \in Nat BY DEF Kinds, Credits
    <3> QED BY <3>1, <3>2, SignalCarries
  <2>2. CASE k \notin streams[e]
    <3>1. link' = link BY <1>10, <2>2 DEF CloseStream
    <3> QED BY <3>1 DEF Carries
  <2> QED BY <2>1, <2>2
<1> QED BY <1>1, <1>2, <1>3, <1>4, <1>5, <1>6, <1>7, <1>8, <1>9, <1>10 DEF Step, Moves, Gone

\* What e has issued for a stream changes only with those three actions, while the
\* stream lives.
LEMMA IssuedStays ==
  ASSUME Inv, NEW e \in Ends, Step(e), NEW id \in Ids, Live(e, id)',
         ~(Open(e) /\ id = nextId(lastLocal[e], e = "init")),
         ~(Admits(e) /\ Head(link[e]).id = id), ~Read(e, id)
  PROVE  issued(e, id)' = issued(e, id)
<1>1. got'[<<e, id>>] = got[<<e, id>>]
  <2>1. CASE Same(e, id) BY <2>1 DEF Same
  <2>2. CASE Applies(e) \/ Write(e, id) \/ CloseWrite(e, id) \/ CloseStream(e, id) \/ Gone(e)
    BY <2>2 DEF Applies, Write, CloseWrite, CloseStream, Gone, Failing
  <2> QED BY <2>1, <2>2, Turns
<1>2. knew(e, id)' <=> knew(e, id)
  <2>1. CASE Open(e)
    <3>1. PICK k \in Ids :
           /\ k = nextId(lastLocal[e], e = "init") /\ Mine(e, k) /\ k > lastLocal[e]
           /\ ~knew(e, k)
           /\ lastLocal' = [lastLocal EXCEPT ![e] = k] /\ lastRemote' = lastRemote
           /\ \A d \in Ends, i \in Ids : knew(d, i)' <=> knew(d, i) \/ (d = e /\ i = k)
      BY <2>1, OpenKnows
    <3> QED BY <2>1, <3>1
  <2>2. CASE Refuses(e) \/ Admits(e)
    <3>1. /\ ~knew(e, Head(link[e]).id)
          /\ \A d \in Ends, i \in Ids : knew(d, i)' <=> knew(d, i) \/ (d = e
                      /\ i = Head(link[e]).id)
      BY <2>2, AdmitKnows
    <3>2. CASE Refuses(e) /\ Head(link[e]).id = id
      <4>1. streams' = streams BY <3>2 DEF Refuses
      <4>2. knew(e, id)' /\ ~knew(e, id) BY <3>1, <3>2
      <4>3. id \in streams[e] BY <4>1, <4>2 DEF Live
      <4>4. Known(e, id) BY DEF Inv, PerStream
      <4> QED BY <4>2, <4>3, <4>4 DEF Known
    <3>3. CASE Head(link[e]).id # id BY <3>1, <3>3
    <3> QED BY <2>2, <3>2, <3>3
  <2>3. CASE ~(Open(e) \/ Refuses(e) \/ Admits(e))
    <3>1. UNCHANGED <<lastLocal, lastRemote>>
      BY <2>3 DEF Step, Accept, Ignores, Applies, Failing, Waits, Moves, ReadWaits, WriteBegins,
               WriteWaits,
                WriteFails, WaitCancelled, Read, Write, CloseWrite, CloseStream
    <3> QED BY <3>1, OthersKnow
  <2> QED BY <2>1, <2>2, <2>3
<1> QED BY <1>1, <1>2 DEF issued

\* More credit for p, on its way.
LEMMA CreditSent ==
  ASSUME Inv, NEW e \in Ends, Step(e), MuxInv', Base', NEW id \in Ids,
         NEW f, NEW F, Lone(f, F), Posted(e, F), Counts(f, Credits, id),
         Live(e, id), issued(e, id) + f.size <= StreamWindowBytes + wrote[<<Peer(e), id>>],
         issued(e, id)' = issued(e, id) + f.size,
         stream[<<Peer(e), id>>].credit = NoWindow => f.size = StreamWindowBytes
  PROVE  CreditOK(Peer(e), id)'
<1> DEFINE p == Peer(e)
<1>0. p \in Ends /\ Peer(p) = e BY PeerIsEnd
<1>1. Apart(p) BY StepIsApart
<1>2. CreditOK(p, id) /\ MuxInv /\ Base BY <1>0 DEF Inv, PerStream
<1>3. stream'[<<p, id>>] = stream[<<p, id>>] /\ wrote'[<<p, id>>] = wrote[<<p, id>>]
         /\ err'[p] = err[p]
  BY <1>1 DEF Apart, Same
<1>4. Live(p, id)' <=> Live(p, id) BY <1>0, <1>1, ApartKnows
<1>5. link[p] \in Seq(Frames) /\ f \in Frames /\ F = <<f>> BY <1>0, <1>2 DEF Lone, MuxInv, Shape
<1>6. issued(e, id) + f.size <= StreamWindowBytes + wrote[<<p, id>>]
      /\ (stream[<<p, id>>].credit = NoWindow => f.size = StreamWindowBytes)
  OBVIOUS
<1>7. err[p] = "" => link'[p] = link[p] \o F BY DEF Posted
<1> HIDE DEF p
<1>8. received(p, id)' = received(p, id) BY <1>3 DEF received
<1>9. ASSUME Live(p, id)'
      PROVE  /\ \E z : /\ CreditLine(link'[p], id, received(p, id)', z)
                       /\ z <= StreamWindowBytes + wrote'[<<p, id>>]
                       /\ Live(e, id)' => z = issued(e, id)'
             /\ stream'[<<p, id>>].credit = NoWindow =>
                  stream'[<<p, id>>].owed = 0 /\ wrote'[<<p, id>>] = 0 /\ Grants(link'[p], id)
             /\ stream'[<<p, id>>].credit # NoWindow =>
                  stream'[<<p, id>>].credit + stream'[<<p, id>>].owed = StreamWindowBytes
  <2>1. Live(p, id) /\ err[p] = "" BY <1>4, <1>9 DEF Live
  <2>2. PICK z : /\ CreditLine(link[p], id, received(p, id), z)
                 /\ z <= StreamWindowBytes + wrote[<<p, id>>]
                 /\ Live(Peer(p), id) => z = issued(Peer(p), id)
    BY <1>2, <2>1 DEF CreditOK
  <2>3. CreditLine(link[p] \o <<f>>, id, received(p, id), z + f.size)
    BY <1>5, <2>2, CreditLineAdded
  <2>4. link'[p] = link[p] \o <<f>> BY <1>5, <1>7, <2>1, Zenon
  <2>5. CreditLine(link'[p], id, received(p, id)', z + f.size) BY <1>8, <2>3, <2>4, Zenon
  <2>6. z = issued(e, id) BY <1>0, <2>2
  <2>7. z + f.size <= StreamWindowBytes + wrote'[<<p, id>>] /\ z + f.size = issued(e, id)'
    BY <1>3, <1>6, <2>6
  <2>8. stream[<<p, id>>].credit = NoWindow =>
          stream[<<p, id>>].owed = 0 /\ wrote[<<p, id>>] = 0 /\ Grants(link'[p], id)
    <3>1. ASSUME stream[<<p, id>>].credit = NoWindow
          PROVE  stream[<<p, id>>].owed = 0 /\ wrote[<<p, id>>] = 0 /\ Grants(link'[p], id)
      <4>1. stream[<<p, id>>].owed = 0 /\ wrote[<<p, id>>] = 0 /\ Grants(link[p], id)
        BY <1>2, <2>1, <3>1 DEF CreditOK
      <4>2. Grants(link'[p], id) BY <1>5, <1>6, <2>4, <3>1, <4>1, GrantsCarried
      <4> QED BY <4>1, <4>2
    <3> QED BY <3>1
  <2>9. stream[<<p, id>>].credit # NoWindow =>
                  stream[<<p, id>>].credit + stream[<<p, id>>].owed = StreamWindowBytes
    BY <1>2, <2>1 DEF CreditOK
  <2> QED BY <1>3, <2>5, <2>7, <2>8, <2>9
<1>10. CreditOK(p, id)' BY <1>0, <1>9 DEF CreditOK
<1> QED BY <1>10 DEF p

\* CreditOK is kept at the other end of a step.
LEMMA PeerCredit ==
  ASSUME Inv, NEW e \in Ends, Step(e), MuxInv', Base', NEW id \in Ids
  PROVE  CreditOK(Peer(e), id)'
<1> DEFINE p == Peer(e)
<1>0. p \in Ends /\ Peer(p) = e BY PeerIsEnd
<1>1. Apart(p) BY StepIsApart
<1>2. CreditOK(p, id) /\ MuxInv /\ Base /\ Budget(e, id) /\ Known(e, id) BY <1>0 DEF Inv, PerStream
<1>3. stream'[<<p, id>>] = stream[<<p, id>>] /\ wrote'[<<p, id>>] = wrote[<<p, id>>]
         /\ err'[p] = err[p]
  BY <1>1 DEF Apart, Same
<1>4. Live(p, id)' <=> Live(p, id) BY <1>0, <1>1, ApartKnows
<1>t. /\ wrote[<<p, id>>] \in Nat /\ got[<<e, id>>] \in Nat /\ StreamWindowBytes \in Nat
      /\ arrived(e, id) \in Nat /\ stream[<<e, id>>].buffered \in Nat
  BY <1>0, <1>2, Facts
<1>b. arrived(e, id) <= wrote[<<p, id>>] BY <1>2 DEF Budget
<1>5. ASSUME NEW f, NEW F, Lone(f, F), Posted(e, F), Counts(f, Credits, id),
         f.size = StreamWindowBytes,
             err[e] = "", ~knew(e, id), knew(e, id)', got' = got
      PROVE  CreditOK(Peer(e), id)'
  <2>1. Live(e, id) BY <1>5 DEF Live
  <2>2. stream[<<e, id>>].buffered = 0 BY <1>2, <1>5, FreshFields DEF Known
  <2>3. got[<<e, id>>] <= wrote[<<p, id>>] BY <1>b, <1>t, <2>2 DEF arrived
  <2>6. issued(e, id) = got[<<e, id>>] + 0 /\ issued(e, id)' = got'[<<e, id>>] + StreamWindowBytes
    BY <1>5 DEF issued
  <2>7. got'[<<e, id>>] = got[<<e, id>>] BY <1>5
  <2>8. issued(e, id) = got[<<e, id>>] BY <1>t, <2>6
  <2>4. issued(e, id)' = issued(e, id) + f.size BY <1>5, <2>6, <2>7, <2>8
  <2>5. issued(e, id) + f.size <= StreamWindowBytes + wrote[<<p, id>>]
    <3> HIDE DEF p
    <3>1. issued(e, id) <= wrote[<<p, id>>] /\ issued(e, id) \in Nat BY <1>t, <2>3, <2>8
    <3>2. f.size = StreamWindowBytes BY <1>5
    <3> QED BY <1>t, <3>1, <3>2
  <2> QED BY <1>5, <2>1, <2>4, <2>5, CreditSent
<1>6. CASE Open(e) /\ id = nextId(lastLocal[e], e = "init")
  <2>1. PICK k \in Ids :
           /\ k = nextId(lastLocal[e], e = "init") /\ Mine(e, k) /\ k > lastLocal[e]
           /\ ~knew(e, k)
           /\ lastLocal' = [lastLocal EXCEPT ![e] = k] /\ lastRemote' = lastRemote
           /\ \A d \in Ends, i \in Ids : knew(d, i)' <=> knew(d, i) \/ (d = e /\ i = k)
    BY <1>6, OpenKnows
  <2>2. k = id BY <1>6, <2>1
  <2>3. PICK f, F :
              /\ Lone(f, F) /\ f.type = "OPEN" /\ f.id = k /\ f.size = StreamWindowBytes
              /\ link'[e] = link[e] /\ Posted(e, F)
    BY <1>6, <2>1, OpenSpeaks
  <2>4. Counts(f, Credits, id) BY <2>2, <2>3 DEF Counts, Credits
  <2>5. err[e] = "" /\ got' = got BY <1>6 DEF Open
  <2>6. ~knew(e, id) /\ knew(e, id)' BY <2>1, <2>2
  <2> QED BY <1>5, <2>3, <2>4, <2>5, <2>6
<1>7. CASE Admits(e) /\ Head(link[e]).id = id
  <2>1. /\ ~knew(e, Head(link[e]).id)
        /\ \A d \in Ends, i \in Ids : knew(d, i)' <=> knew(d, i) \/ (d = e /\ i = Head(link[e]).id)
    BY <1>7, AdmitKnows
  <2>3. PICK f, F :
              /\ Lone(f, F) /\ f.type = "WINDOW_UPDATE" /\ f.id = Head(link[e]).id
                          /\ f.size = StreamWindowBytes
              /\ link[e] # <<>> /\ link'[e] = Tail(link[e]) /\ Posted(e, F)
    BY <1>7, ReceiveSpeaks
  <2>4. Counts(f, Credits, id) BY <1>7, <2>3 DEF Counts, Credits
  <2>5. err[e] = "" /\ got' = got BY <1>7 DEF Admits
  <2>6. ~knew(e, id) /\ knew(e, id)' BY <1>7, <2>1
  <2> QED BY <1>5, <2>3, <2>4, <2>5, <2>6
<1>8. CASE Read(e, id)
  <2>1. PICK size \in 1 .. stream[<<e, id>>].buffered : \E s :
           /\ s = consumed(stream[<<e, id>>], size) /\ Becomes(e, id, s)
           /\ got' = [got EXCEPT ![<<e, id>>] = @ + size]
           /\ Send(e, <<Signal("WINDOW_UPDATE", id, size)>>)
    BY <1>8, ReadAt
  <2>2. size \in Nat \ {0} /\ size <= stream[<<e, id>>].buffered BY <1>t, <2>1
  <2>3. got'[<<e, id>>] = got[<<e, id>>] + size
    <3>1. got \in [Ends \X Ids -> Nat] BY <1>2 DEF Base
    <3> QED BY <2>1, <3>1
  <2>4. PICK f, F : /\ Lone(f, F) /\ F = <<Signal("WINDOW_UPDATE", id, size)>>
                    /\ f.type = "WINDOW_UPDATE" /\ f.id = id /\ f.size = size
    <3>1. "WINDOW_UPDATE" \in Kinds /\ size \in Nat BY <2>2 DEF Kinds
    <3> QED BY <3>1, LoneSignal
  <2>5. Send(e, F) /\ F \in Seq(Frames) BY <2>1, <2>4 DEF Lone
  <2>6. Posted(e, F) BY <1>2, <2>5, Sending DEF Posted
  <2>7. Counts(f, Credits, id) BY <2>4 DEF Counts, Credits
  <2>8. Live(e, id) /\ knew(e, id) BY <1>8, InUse
  <2>9. UNCHANGED <<lastLocal, lastRemote>> BY <1>8 DEF Read
  <2>10. knew(e, id)' BY <2>8, <2>9, OthersKnow
  <2>11. issued(e, id) = got[<<e, id>>] + StreamWindowBytes
         /\ issued(e, id)' = got'[<<e, id>>] + StreamWindowBytes
    BY <2>8, <2>10 DEF issued
  <2>12. issued(e, id)' = issued(e, id) + f.size BY <1>t, <2>2, <2>3, <2>4, <2>11
  <2>13. got[<<e, id>>] + size <= wrote[<<p, id>>] BY <1>b, <1>t, <2>2 DEF arrived
  <2>14. issued(e, id) + f.size <= StreamWindowBytes + wrote[<<p, id>>]
    BY <1>t, <2>2, <2>4, <2>11, <2>13
  <2>15. wrote[<<p, id>>] # 0 BY <1>t, <2>2, <2>13
  <2>16. stream[<<p, id>>].credit = NoWindow => ~Live(p, id) BY <1>2, <2>15 DEF CreditOK
  <2>17. CASE Live(p, id) BY <2>4, <2>6, <2>7, <2>8, <2>12, <2>14, <2>16, <2>17, CreditSent
  <2>18. CASE ~Live(p, id)
    <3> HIDE DEF p
    <3>1. CreditOK(p, id)' BY <1>4, <2>18 DEF CreditOK
    <3> QED BY <3>1 DEF p
  <2> QED BY <2>17, <2>18
<1>9. CASE ~(Open(e) /\ id = nextId(lastLocal[e], e = "init"))
           /\ ~(Admits(e) /\ Head(link[e]).id = id) /\ ~Read(e, id)
  <2>1. Carries(link[p], link'[p], Credits, id) BY <1>9, Credited
  <2>2. Live(e, id)' => Live(e, id) /\ issued(e, id)' = issued(e, id) BY <1>9, LiveShrinks,
           IssuedStays
  <2>3. stream[<<p, id>>].credit \in Int /\ stream[<<p, id>>].owed \in Int BY <1>0, <1>2, Facts
  <2> HIDE DEF p
  <2>4. received(p, id)' = received(p, id) BY <1>3 DEF received
  <2>5. wrote'[<<p, id>>] >= wrote[<<p, id>>] BY <1>3, <1>t
  <2>6. CreditOK(p, id)' BY <1>0, <1>2, <1>3, <1>4, <2>1, <2>2, <2>4, <2>5, CreditCarry
  <2> QED BY <2>6 DEF p
<1> QED BY <1>6, <1>7, <1>8, <1>9

-----------------------------------------------------------------------------
(* The parts about one stream where the step is taken are kept.            *)

\* What the next frame of a stream brings.
LEMMA Arrives ==
  ASSUME Inv, NEW e \in Ends, Applies(e), NEW f, f = Head(link[e]), NEW k, k = f.id
  PROVE  /\ k \in Ids /\ f \in Frames /\ f.size \in Nat
         /\ f.type \in {"DATA", "WINDOW_UPDATE", "FIN", "RESET"} /\ f.type # "OPEN"
         /\ Live(e, k) /\ k \in streams[e] /\ err[e] = "" /\ link[e] \in Seq(Frames)
                     /\ link[e] # <<>>
         /\ admissible(f, stream[<<e, k>>])
         /\ f.type = "DATA" =>
              /\ f.first = arrived(e, k) + 1 /\ arrived(e, k) + f.size <= wrote[<<Peer(e), k>>]
              /\ stream[<<e, k>>].buffered + f.size <= StreamWindowBytes
              /\ ~stream[<<e, k>>].finished
              /\ DataLine(Tail(link[e]), k, arrived(e, k) + f.size, wrote[<<Peer(e), k>>])
         /\ f.type = "FIN" =>
              /\ arrived(e, k) = wrote[<<Peer(e), k>>] /\ Mute(Peer(e), k)
              /\ DataLine(Tail(link[e]), k, arrived(e, k), wrote[<<Peer(e), k>>])
              /\ NoneOf(Tail(link[e]), {"DATA", "FIN"}, k)
<1> DEFINE s == stream[<<e, k>>]
<1>1. /\ link[e] # <<>> /\ err[e] = "" /\ f.type # "OPEN" /\ k \in streams[e] /\ admissible(f, s)
  BY DEF Applies
<1>2. MuxInv /\ Base BY DEF Inv
<1>3. /\ f \in Frames /\ k \in Ids /\ f.size \in Nat /\ f.type \in Kinds /\ link[e] \in Seq(Frames)
      /\ f = link[e][1] /\ 1 \in 1 .. Len(link[e])
  BY <1>1, <1>2, HeadFrame
<1>4. f.type \in {"DATA", "WINDOW_UPDATE", "FIN", "RESET"} BY <1>1, <1>3 DEF Kinds
<1>5. Live(e, k) BY <1>1 DEF Live
<1>6. DataOK(e, k) BY <1>3 DEF Inv, PerStream
<1>7. /\ DataLine(link[e], k, arrived(e, k), wrote[<<Peer(e), k>>]) /\ FinLine(link[e], k)
      /\ NoneOf(link[e], {"FIN"}, k) \/ Mute(Peer(e), k)
  BY <1>5, <1>6 DEF DataOK
<1> DEFINE a == arrived(e, k)
           z == wrote[<<Peer(e), k>>]
           L == link[e]
<1>8. /\ a \in Nat /\ s.buffered \in Nat /\ s.available = StreamWindowBytes - s.buffered
      /\ StreamWindowBytes \in Nat
  BY <1>2, <1>3, Facts
<1> HIDE DEF a, z, L, s
<1>9. /\ DataLine(Tail(L), k, a + Weight(f, {"DATA"}, k), z)
      /\ a + Weight(f, {"DATA"}, k) <= z
      /\ Counts(f, {"DATA"}, k) => f.first = a + 1
      /\ Counts(f, {"FIN"}, k) => a + Weight(f, {"DATA"}, k) = z
  <2>1. f = Head(L) /\ L \in Seq(Frames) /\ L # <<>> /\ DataLine(L, k, a, z)
    BY <1>1, <1>3, <1>7 DEF a, z, L
  <2>2. /\ DataLine(Tail(L), k, a + Weight(Head(L), {"DATA"}, k), z)
        /\ a + Weight(Head(L), {"DATA"}, k) <= z
        /\ Counts(Head(L), {"DATA"}, k) => Head(L).first = a + 1
        /\ Counts(Head(L), {"FIN"}, k) => a + Weight(Head(L), {"DATA"}, k) = z
    BY <2>1, DataLineTaken
  <2> QED BY <2>1, <2>2
<1>10. ASSUME f.type = "DATA"
       PROVE  /\ f.first = a + 1 /\ a + f.size <= z /\ s.buffered + f.size <= StreamWindowBytes
              /\ ~s.finished /\ DataLine(Tail(L), k, a + f.size, z)
  <2>1. Counts(f, {"DATA"}, k) BY <1>10 DEF Counts
  <2>2. Weight(f, {"DATA"}, k) = f.size BY <2>1 DEF Weight
  <2>3. ~s.finished /\ f.size <= s.available BY <1>1, <1>10 DEF admissible
  <2>4. s.buffered + f.size <= StreamWindowBytes BY <1>3, <1>8, <2>3
  <2> QED BY <1>9, <2>1, <2>2, <2>3, <2>4
<1>11. ASSUME f.type = "FIN"
       PROVE  /\ a = z /\ Mute(Peer(e), k) /\ DataLine(Tail(L), k, a, z)
              /\ NoneOf(Tail(L), {"DATA", "FIN"}, k)
  <2>1. Counts(f, {"FIN"}, k) /\ ~Counts(f, {"DATA"}, k) BY <1>11 DEF Counts
  <2>2. Weight(f, {"DATA"}, k) = 0 BY <2>1 DEF Weight
  <2>3. a + Weight(f, {"DATA"}, k) = a BY <1>8, <2>2
  <2>4. ~NoneOf(link[e], {"FIN"}, k) BY <1>3, <2>1 DEF NoneOf
  <2>5. NoneOf(Tail(L), {"DATA", "FIN"}, k) BY <1>1, <1>3, <1>7, <2>1, FinTaken DEF L
  <2> QED BY <1>7, <1>9, <2>1, <2>3, <2>4, <2>5
<1> QED BY <1>1, <1>3, <1>4, <1>5, <1>10, <1>11 DEF a, z, L, s

\* The stream's fields are within their bounds, and its ring holds the bytes after n.
Sound(s, n) == Sized(s) /\ Ring(s, n)

\* A stream with no bytes in it.
LEMMA BareIsSound ==
  ASSUME NEW s, s.buffered = 0, s.credit = NoWindow \/ s.credit = StreamWindowBytes, s.owed = 0,
           s.readIndex = 0,
         s.queue = [i \in 0 .. StreamWindowBytes - 1 |-> 0]
  PROVE  \A n : Sound(s, n)
<1>1. StreamWindowBytes \in Nat \ {0} /\ MaxBytes \in Nat BY MuxAssumption
<1>2. NoWindow \in NoWindow .. StreamWindowBytes
         /\ StreamWindowBytes \in NoWindow .. StreamWindowBytes
      /\ 0 \in 0 .. StreamWindowBytes /\ 0 \in 0 .. StreamWindowBytes - 1
                  /\ 0 \in 0 .. MaxBytes /\ 0 .. 0 - 1 = {}
  BY <1>1 DEF NoWindow
<1>3. s.queue \in [0 .. StreamWindowBytes - 1 -> 0 .. MaxBytes] BY <1>2
<1>4. Sized(s) BY <1>2, <1>3 DEF Sized, Placed
<1>5. \A n : Ring(s, n) BY <1>2 DEF Ring
<1> QED BY <1>4, <1>5 DEF Sound

\* A change of credit.
LEMMA AlikeIsSound ==
  ASSUME NEW s, NEW n, Sound(s, n), NEW t, t.buffered = s.buffered, t.queue = s.queue,
         t.readIndex = s.readIndex, t.credit \in NoWindow .. StreamWindowBytes,
                  t.owed \in 0 .. StreamWindowBytes
  PROVE  Sound(t, n)
BY DEF Sound, Sized, Placed, Ring

\* A stream that failed.
LEMMA DeadIsSound ==
  ASSUME NEW c, NEW n
  PROVE  Sound(Dead(c), n)
<1> DEFINE s == Dead(c)
<1>1. s.buffered = 0 /\ s.credit = NoWindow /\ s.owed = 0 /\ s.readIndex = 0
      /\ s.queue = [i \in 0 .. StreamWindowBytes - 1 |-> 0]
  BY DeadFields
<1> HIDE DEF s
<1>2. Sound(s, n) BY <1>1, BareIsSound
<1> QED BY <1>2 DEF s

\* A DATA frame.
LEMMA EnqueuedIsSound ==
  ASSUME NEW s \in Objects, NEW n \in Nat, Sound(s, n), NEW f \in Frames, f.type = "DATA",
         f.first = (n + s.buffered) + 1, s.buffered + f.size <= StreamWindowBytes,
         (n + s.buffered) + f.size <= MaxBytes
  PROVE  Sound(applied(f, s), n)
<1> DEFINE t == applied(f, s)
<1>1. /\ t.credit = s.credit /\ t.owed = s.owed /\ t.buffered = s.buffered + f.size
      /\ t.queue = enqueue(s, f) /\ t.readIndex = s.readIndex
  BY AppliedFields
<1>2. s.buffered \in Nat /\ f.size \in Nat /\ f.first \in Int /\ s.readIndex \in Int BY
         DEF Objects, Raw, Frames
<1>3. Sized(s) /\ Ring(s, n) /\ Placed(s) BY DEF Sound, Sized
<1> HIDE DEF t
<1>4. Ring(t, n)
  <2>1. f.first = n + s.buffered + 1 BY <1>2
  <2>2. ASSUME NEW i \in 0 .. s.buffered + f.size - 1
        PROVE  enqueue(s, f)[(s.readIndex + i) % StreamWindowBytes] = n + 1 + i
    BY <1>3, <2>1, EnqueueKeepsRing
  <2>3. ASSUME NEW i \in 0 .. t.buffered - 1
        PROVE  t.queue[(t.readIndex + i) % StreamWindowBytes] = n + 1 + i
    <3>0. t.buffered = s.buffered + f.size BY <1>1
    <3>1. t.buffered - 1 = s.buffered + f.size - 1 BY <1>2, <3>0
    <3>3. i \in 0 .. s.buffered + f.size - 1 BY ONLY <3>1, <2>3, Zenon
    <3>2. enqueue(s, f)[(s.readIndex + i) % StreamWindowBytes] = n + 1 + i BY <2>2, <3>3
    <3> QED BY ONLY <1>1, <3>2
  <2> QED BY ONLY <2>3, Zenon DEF Ring
<1>5. t.queue \in [0 .. StreamWindowBytes - 1 -> 0 .. MaxBytes]
  <2>1. s.queue \in [0 .. StreamWindowBytes - 1 -> 0 .. MaxBytes] BY <1>3 DEF Sized
  <2> DEFINE offset(i) == (i - s.readIndex - s.buffered) % StreamWindowBytes
  <2>2. ASSUME NEW i \in 0 .. StreamWindowBytes - 1
        PROVE  (IF offset(i) < f.size THEN f.first + offset(i) ELSE s.queue[i]) \in 0 .. MaxBytes
    <3>1. i - s.readIndex - s.buffered \in Int BY <1>2, MuxAssumption
    <3>2. offset(i) \in 0 .. StreamWindowBytes - 1 BY <3>1, ModRange
    <3> HIDE DEF offset
    <3>3. offset(i) \in Nat BY <3>2, MuxAssumption
    <3>4. CASE offset(i) < f.size
      <4>1. f.first + offset(i) \in 0 .. MaxBytes BY <1>2, <3>3, <3>4, MuxAssumption
      <4> QED BY <3>4, <4>1
    <3>5. CASE ~(offset(i) < f.size) BY <2>1, <3>5
    <3> QED BY <3>4, <3>5
  <2>3. DOMAIN s.queue = 0 .. StreamWindowBytes - 1 BY <2>1
  <2>4. t.queue = [i \in 0 .. StreamWindowBytes - 1 |-> IF offset(i) < f.size THEN f.first + offset(i) ELSE s.queue[i]]
    BY <1>1, <2>3, Zenon DEF enqueue
  <2> HIDE DEF offset
  <2> QED BY <2>2, <2>4
<1>6. Sized(t) BY <1>1, <1>3, <1>5 DEF Sized, Placed
<1> QED BY <1>4, <1>6 DEF Sound, t

\* Bytes that are read.
LEMMA ConsumedIsSound ==
  ASSUME NEW s \in Objects, NEW n \in Nat, Sound(s, n), NEW size \in 1 .. s.buffered
  PROVE  Sound(consumed(s, size), n + size)
<1> DEFINE t == consumed(s, size)
<1>1. Placed(t) /\ Ring(t, n + size) BY ConsumedKeepsRing DEF Sound, Sized
<1>2. size \in Nat
  <2>1. s.buffered \in Nat BY DEF Objects, Raw
  <2> QED BY <2>1
<1>3. t.credit = s.credit /\ t.owed = s.owed /\ t.queue = s.queue BY <1>2, MovedFields
<1> HIDE DEF t
<1>4. Sized(t) BY <1>1, <1>3 DEF Sound, Sized
<1> QED BY <1>1, <1>4 DEF Sound, t

\* Whole is kept where the step is taken.
LEMMA OwnWhole ==
  ASSUME Inv, NEW e \in Ends, Step(e), NEW id \in Ids
  PROVE  Whole(e, id)'
<1> DEFINE s == stream[<<e, id>>]
           g == got[<<e, id>>]
<1>1. MuxInv /\ Base /\ Budget(e, id) /\ CreditOK(e, id) BY DEF Inv, PerStream
<1>2. Sound(s, g) BY DEF Inv, PerStream, Whole, Sound
<1>3. s \in Objects /\ g \in Nat /\ s.buffered \in Nat /\ s.credit \in Int /\ s.owed \in Int
         /\ StreamWindowBytes \in Nat
  BY <1>1, Facts
<1>4. s.credit \in NoWindow .. StreamWindowBytes /\ s.owed \in 0 .. StreamWindowBytes BY <1>2
         DEF Sound, Sized
<1>5. SUFFICES ASSUME TRUE PROVE \E t, h : stream'[<<e, id>>] = t /\ got'[<<e, id>>] = h
         /\ Sound(t, h)
  BY DEF Whole, Sound, Sized, Placed, Ring
<1> HIDE DEF s, g
<1>6. CASE Same(e, id) BY <1>2, <1>6 DEF Same, s, g
<1>7. CASE Admits(e) /\ Head(link[e]).id = id
  <2>1. got' = got BY <1>7 DEF Admits
  <2>2. PICK t : /\ t = [Fresh EXCEPT !.credit = StreamWindowBytes]
                 /\ stream[<<e, Head(link[e]).id>>] = Fresh
                 /\ \A c \in Ends, k \in Ids :
                     stream'[<<c, k>>] = IF c = e /\ k = Head(link[e]).id THEN t ELSE stream[<<c,
                              k>>]
                 /\ \A c \in Ends, k \in Ids :
                     k \in streams'[c] <=> k \in streams[c] \/ (c = e /\ k = Head(link[e]).id)
    BY <1>7, AdmitAt
  <2>3. stream'[<<e, id>>] = t /\ got'[<<e, id>>] = g BY <1>7, <2>1, <2>2 DEF g
  <2>4. Sound(t, g) BY <2>2, GrantedFields, BareIsSound
  <2> QED BY <2>3, <2>4
<1>8. CASE Applies(e) /\ Head(link[e]).id = id
  <2>0. PICK f : f = Head(link[e]) OBVIOUS
  <2>1. got' = got BY <1>8 DEF Applies
  <2>2. PICK t : t = applied(f, stream[<<e, f.id>>]) /\ Becomes(e, f.id, t) BY <1>8, <2>0, AppliesAt
  <2>3. id = f.id /\ t = applied(f, s) BY <1>8, <2>0, <2>2 DEF s
  <2>4. stream'[<<e, id>>] = t /\ got'[<<e, id>>] = g BY <2>1, <2>2, <2>3 DEF Becomes, g
  <2>5. f \in Frames /\ f.size \in Nat /\ f.type \in {"DATA", "WINDOW_UPDATE", "FIN", "RESET"}
           /\ f.type # "OPEN"
        /\ Live(e, id) /\ admissible(f, s)
    BY <1>8, <2>0, <2>3, Arrives DEF s
  <2>6. CASE f.type = "DATA"
    <3>1. /\ f.first = arrived(e, id) + 1 /\ arrived(e, id) + f.size <= wrote[<<Peer(e), id>>]
          /\ s.buffered + f.size <= StreamWindowBytes
      BY <1>8, <2>0, <2>3, <2>6, Arrives DEF s
    <3>2. arrived(e, id) = g + s.buffered BY DEF arrived, s, g
    <3>3. wrote[<<Peer(e), id>>] <= MaxBytes
      <4>1. /\ wrote[<<e, id>>] \in Nat /\ want[<<e, id>>] \in Nat
            /\ wrote[<<Peer(e), id>>] \in Nat /\ want[<<Peer(e), id>>] \in Nat
        BY <1>1, PeerIsEnd, Facts
      <4>2. wrote[<<e, id>>] + want[<<e, id>>] + wrote[<<Peer(e), id>>] + want[<<Peer(e),
               id>>] <= MaxBytes
        BY <1>1 DEF Budget
      <4> QED BY <4>1, <4>2, MuxAssumption
    <3>4. wrote[<<Peer(e), id>>] \in Nat BY <1>1, PeerIsEnd, Facts
    <3>5. f.first = (g + s.buffered) + 1 /\ (g + s.buffered) + f.size <= MaxBytes
      BY <1>3, <2>5, <3>1, <3>2, <3>3, <3>4, MuxAssumption
    <3>6. Sound(t, g) BY <1>2, <1>3, <2>3, <2>5, <2>6, <3>1, <3>5, EnqueuedIsSound
    <3> QED BY <2>4, <3>6
  <2>7. CASE f.type = "WINDOW_UPDATE"
    <3>1. /\ t.buffered = s.buffered /\ t.queue = s.queue /\ t.readIndex = s.readIndex
          /\ s.credit = NoWindow => t.credit = f.size /\ t.owed = s.owed
          /\ s.credit # NoWindow => t.credit = s.credit + f.size /\ t.owed = s.owed - f.size
      BY <1>3, <2>3, <2>5, <2>7, AppliedFields
    <3>2. f.size <= (IF s.credit = NoWindow THEN StreamWindowBytes ELSE s.owed) BY <2>5, <2>7
             DEF admissible
    <3>3. s.credit # NoWindow => s.credit + s.owed = StreamWindowBytes BY <1>1, <2>5 DEF CreditOK, s
    <3>4. CASE s.credit = NoWindow
      <4>1. t.credit \in NoWindow .. StreamWindowBytes /\ t.owed \in 0 .. StreamWindowBytes
        BY <1>3, <1>4, <2>5, <3>1, <3>2, <3>4 DEF NoWindow
      <4>2. Sound(t, g) BY <1>2, <3>1, <4>1, AlikeIsSound
      <4> QED BY <2>4, <4>2
    <3>5. CASE s.credit # NoWindow
      <4>1. s.credit \in Nat BY <1>3, <1>4, <3>5 DEF NoWindow
      <4>2. s.owed \in Nat BY <1>3, <1>4
      <4>3. t.credit \in NoWindow .. StreamWindowBytes /\ t.owed \in 0 .. StreamWindowBytes
        BY <1>3, <2>5, <3>1, <3>2, <3>3, <3>5, <4>1, <4>2 DEF NoWindow
      <4>4. Sound(t, g) BY <1>2, <3>1, <4>3, AlikeIsSound
      <4> QED BY <2>4, <4>4
    <3> QED BY <3>4, <3>5
  <2>8. CASE f.type = "FIN"
    <3>1. /\ t.buffered = s.buffered /\ t.queue = s.queue /\ t.readIndex = s.readIndex
          /\ t.credit = s.credit /\ t.owed = s.owed
      BY <1>3, <2>3, <2>5, <2>8, AppliedFields
    <3>2. Sound(t, g) BY <1>2, <1>4, <3>1, AlikeIsSound
    <3> QED BY <2>4, <3>2
  <2>9. CASE f.type = "RESET"
    <3>1. t = Dead("reset") BY <1>3, <2>3, <2>5, <2>9, AppliedFields
    <3> QED BY <2>4, <3>1, DeadIsSound
  <2> QED BY <2>5, <2>6, <2>7, <2>8, <2>9
<1>9. CASE Read(e, id)
  <2>1. PICK size \in 1 .. stream[<<e, id>>].buffered : \E t :
           /\ t = consumed(stream[<<e, id>>], size) /\ Becomes(e, id, t)
           /\ got' = [got EXCEPT ![<<e, id>>] = @ + size]
           /\ Send(e, <<Signal("WINDOW_UPDATE", id, size)>>)
    BY <1>9, ReadAt
  <2>2. PICK t : t = consumed(s, size) /\ Becomes(e, id, t) /\ got' = [got EXCEPT ![<<e,
           id>>] = @ + size]
    BY <2>1 DEF s
  <2>3. got'[<<e, id>>] = g + size
    <3>1. got \in [Ends \X Ids -> Nat] BY <1>1 DEF Base
    <3> QED BY <2>2, <3>1 DEF g
  <2>4. Sound(t, g + size) BY <1>2, <1>3, <2>1, <2>2, ConsumedIsSound DEF s
  <2>5. stream'[<<e, id>>] = t BY <2>2 DEF Becomes
  <2> QED BY <2>3, <2>4, <2>5
<1>10. CASE Write(e, id)
  <2>1. PICK n, t :
           /\ n \in 1 .. want[<<e, id>>] /\ n <= stream[<<e, id>>].credit
           /\ t = [stream[<<e, id>>] EXCEPT !.credit = @ - n, !.owed = @ + n] /\ Becomes(e, id, t)
           /\ wrote' = [wrote EXCEPT ![<<e, id>>] = @ + n] /\ want' = [want EXCEPT ![<<e,
                       id>>] = @ - n]
           /\ Send(e, dataFrames(id, wrote[<<e, id>>] + 1, n))
    BY <1>10, WriteAt
  <2>2. n \in Nat
    <3>1. want[<<e, id>>] \in Nat BY <1>1, Facts
    <3> QED BY <2>1, <3>1
  <2>3. /\ t.credit = s.credit - n /\ t.owed = s.owed + n
        /\ t.buffered = s.buffered /\ t.queue = s.queue /\ t.readIndex = s.readIndex
    BY <1>3, <2>1, <2>2, MovedFields DEF s
  <2>4. s.credit > 0 /\ n <= s.credit BY <1>10, <2>1 DEF Write, s
  <2>5. s.credit + s.owed = StreamWindowBytes
    <3>1. Live(e, id) BY <1>10, InUse
    <3> QED BY <1>1, <1>3, <2>4, <3>1 DEF CreditOK, NoWindow, s
  <2>6. s.credit \in Nat /\ s.owed \in Nat BY <1>3, <1>4, <2>4
  <2>7. t.credit \in NoWindow .. StreamWindowBytes /\ t.owed \in 0 .. StreamWindowBytes
    BY <1>3, <2>2, <2>3, <2>4, <2>5, <2>6 DEF NoWindow
  <2>8. Sound(t, g) BY <1>2, <2>3, <2>7, AlikeIsSound
  <2>9. stream'[<<e, id>>] = t /\ got'[<<e, id>>] = g BY <1>10, <2>1 DEF Becomes, Write, g
  <2> QED BY <2>8, <2>9
<1>11. CASE CloseWrite(e, id)
  <2>1. PICK t : t = [stream[<<e, id>>] EXCEPT !.writeClosed = TRUE] /\ Becomes(e, id,
           t) BY <1>11, CloseAt
  <2>2. /\ t.credit = s.credit /\ t.owed = s.owed
        /\ t.buffered = s.buffered /\ t.queue = s.queue /\ t.readIndex = s.readIndex
    BY <1>3, <2>1, MovedFields DEF s
  <2>3. Sound(t, g) BY <1>2, <1>4, <2>2, AlikeIsSound
  <2>4. stream'[<<e, id>>] = t /\ got'[<<e, id>>] = g BY <1>11, <2>1 DEF Becomes, CloseWrite, g
  <2> QED BY <2>3, <2>4
<1>12. CASE CloseStream(e, id)
  <2>1. PICK t : t = Dead("closed") /\ Becomes(e, id, t) BY <1>12, CloseAt
  <2>2. stream'[<<e, id>>] = t /\ got'[<<e, id>>] = g BY <1>12, <2>1 DEF Becomes, CloseStream, g
  <2> QED BY <2>1, <2>2, DeadIsSound
<1>13. CASE Gone(e)
  <2>1. PICK t :
                /\ t = Dead("closed")
                /\ \A d \in Ends, i \in Ids :
                     stream'[<<d, i>>] = IF d = e /\ i \in streams[e] THEN t ELSE stream[<<d, i>>]
                /\ \A d \in Ends : streams'[d] = IF d = e THEN {} ELSE streams[d]
                /\ \A d \in Ends : accepted'[d] = IF d = e THEN <<>> ELSE accepted[d]
                /\ \A d \in Ends : err'[d] = IF d = e THEN "closed" ELSE err[d]
                /\ \A d \in Ends : link'[d] = IF d = e THEN <<>> ELSE link[d]
                /\ UNCHANGED <<lastLocal, lastRemote, held, want, wrote, got>>
    BY <1>13, GoneAt
  <2>2. got'[<<e, id>>] = g /\ (stream'[<<e, id>>] = t \/ stream'[<<e, id>>] = s) BY <2>1 DEF g, s
  <2>3. Sound(t, g) BY <2>1, DeadIsSound
  <2> QED BY <1>2, <2>2, <2>3
<1> QED BY <1>6, <1>7, <1>8, <1>9, <1>10, <1>11, <1>12, <1>13, Turns

\* A stream that was dead, or died, is not live.
LEMMA RefusedIsDead ==
  ASSUME Inv, NEW e \in Ends, NEW id \in Ids, Refuses(e) /\ Head(link[e]).id = id
  PROVE  ~Live(e, id)'
<1>1. /\ ~knew(e, Head(link[e]).id)
      /\ \A d \in Ends, i \in Ids : knew(d, i)' <=> knew(d, i) \/ (d = e /\ i = Head(link[e]).id)
  BY AdmitKnows
<1>2. streams' = streams BY DEF Refuses
<1>3. knew(e, id)' /\ ~knew(e, id) BY <1>1
<1>4. Known(e, id) BY DEF Inv, PerStream
<1> QED BY <1>2, <1>3, <1>4 DEF Live, Known

\* Nor is one that left the mux.
LEMMA BuriedIsDead ==
  ASSUME Inv, NEW e \in Ends, NEW id \in Ids, NEW t, Becomes(e, id, t), t.err # "" \/ retires(t),
           knew(e, id)'
  PROVE  ~Live(e, id)'
<1>1. id \notin streams'[e] BY DEF Becomes
<1> QED BY <1>1 DEF Live

\* What becomes of the line to e, as far as a stream that stays live goes.
LEMMA LineTaken ==
  ASSUME Inv, NEW e \in Ends, Step(e), NEW id \in Ids, NEW K, Live(e, id)',
         ~(Applies(e) /\ Head(link[e]).id = id /\ Head(link[e]).type \in K),
         ~(Admits(e) /\ Head(link[e]).id = id /\ "OPEN" \in K)
  PROVE  Carries(link[e], link'[e], K, id)
<1> DEFINE L == link[e]
           M == link'[e]
<1>1. CASE M = L BY <1>1 DEF Carries
<1>2. ASSUME L # <<>>, M = Tail(L), ~Counts(Head(L), K, id) PROVE Carries(L, M, K, id)
  BY <1>2 DEF Carries
<1>3. CASE Refuses(e)
  <2>1. PICK f, F :
              /\ Lone(f, F) /\ f.type = "RESET" /\ f.id = Head(link[e]).id
              /\ link[e] # <<>> /\ link'[e] = Tail(link[e]) /\ Posted(e, F)
    BY <1>3, ReceiveSpeaks
  <2>2. Head(L).id # id BY <1>3, RefusedIsDead
  <2> QED BY <1>2, <2>1, <2>2 DEF Counts
<1>4. CASE Admits(e)
  <2>1. PICK f, F :
              /\ Lone(f, F) /\ f.type = "WINDOW_UPDATE" /\ f.id = Head(link[e]).id
                          /\ f.size = StreamWindowBytes
              /\ link[e] # <<>> /\ link'[e] = Tail(link[e]) /\ Posted(e, F)
    BY <1>4, ReceiveSpeaks
  <2>2. Head(L).type = "OPEN" BY <1>4 DEF Admits
  <2> QED BY <1>2, <1>4, <2>1, <2>2 DEF Counts
<1>5. CASE Ignores(e)
  <2>1. link[e] # <<>> /\ link'[e] = Tail(link[e]) BY <1>5, ReceiveSpeaks
  <2>2. /\ UNCHANGED <<lastLocal, lastRemote, streams>>
        /\ Head(link[e]).id \notin streams[e] /\ knew(e, Head(link[e]).id)
    BY <1>5 DEF Ignores
  <2>3. Head(L).id # id BY <2>2, OthersKnow DEF Live
  <2> QED BY <1>2, <2>1, <2>3 DEF Counts
<1>6. CASE Applies(e)
  <2>1. link[e] # <<>> /\ link'[e] = Tail(link[e]) BY <1>6, ReceiveSpeaks
  <2> QED BY <1>2, <1>6, <2>1 DEF Counts
<1>7. CASE Gone(e)
  <2>1. \A d \in Ends : err'[d] = IF d = e THEN "closed" ELSE err[d] BY <1>7, GoneAt
  <2>2. err'[e] = "closed" BY <2>1
  <2> QED BY <2>2 DEF Live
<1>8. CASE Open(e)
  <2>1. PICK k \in Ids : k = nextId(lastLocal[e], e = "init") BY <1>8, OpenKnows
  <2>2. PICK f, F :
              /\ Lone(f, F) /\ f.type = "OPEN" /\ f.id = k /\ f.size = StreamWindowBytes
              /\ link'[e] = link[e] /\ Posted(e, F)
    BY <1>8, <2>1, OpenSpeaks
  <2> QED BY <1>1, <2>2
<1>9. CASE Accept(e) \/ (\E k \in Ids : Waits(e, k))
  <2>1. link' = link
    BY <1>9 DEF Accept, Waits, ReadWaits, WriteBegins, WriteWaits, WriteFails, WaitCancelled
  <2> QED BY <1>1, <2>1
<1>10. CASE \E k \in Ids : Moves(e, k)
  <2>1. PICK k \in Ids : Moves(e, k) BY <1>10
  <2>2. PICK F \in Seq(Frames) : Voiced(e, k, F) BY <2>1, MovesSpeak
  <2> QED BY <1>1, <2>2 DEF Voiced
<1> QED BY <1>3, <1>4, <1>5, <1>6, <1>7, <1>8, <1>9, <1>10 DEF Step, Gone

\* What e has received of a stream.
LEMMA OwnFlow ==
  ASSUME Inv, NEW e \in Ends, Step(e), NEW id \in Ids, Live(e, id)' \/ stream'[<<e, id>>].finished,
         ~(Applies(e) /\ Head(link[e]).id = id /\ Head(link[e]).type \in {"DATA", "FIN"})
  PROVE  /\ arrived(e, id)' = arrived(e, id) /\ got'[<<e, id>>] >= got[<<e, id>>]
         /\ stream'[<<e, id>>].finished => stream[<<e, id>>].finished
<1> DEFINE s == stream[<<e, id>>]
           g == got[<<e, id>>]
<1>1. MuxInv /\ Base BY DEF Inv
<1>3. s \in Objects /\ g \in Nat /\ s.buffered \in Nat BY <1>1, Facts
<1>4. SUFFICES ASSUME TRUE
               PROVE \E t, h : /\ stream'[<<e, id>>] = t /\ got'[<<e, id>>] = h
                               /\ h + t.buffered = g + s.buffered /\ h >= g
                                           /\ (t.finished => s.finished)
  BY DEF arrived
<1>g. g >= g BY <1>3
<1>5. CASE Same(e, id) BY <1>3, <1>5, <1>g DEF Same
<1> HIDE DEF s, g
<1>6. CASE Admits(e) /\ Head(link[e]).id = id
  <2>1. got' = got BY <1>6 DEF Admits
  <2>2. PICK t : /\ t = [Fresh EXCEPT !.credit = StreamWindowBytes]
                 /\ stream[<<e, Head(link[e]).id>>] = Fresh
                 /\ \A c \in Ends, k \in Ids :
                     stream'[<<c, k>>] = IF c = e /\ k = Head(link[e]).id THEN t ELSE stream[<<c,
                              k>>]
                 /\ \A c \in Ends, k \in Ids :
                     k \in streams'[c] <=> k \in streams[c] \/ (c = e /\ k = Head(link[e]).id)
    BY <1>6, AdmitAt
  <2>3. stream'[<<e, id>>] = t /\ got'[<<e, id>>] = g /\ s = Fresh BY <1>6, <2>1, <2>2 DEF g, s
  <2>4. t.buffered = 0 /\ ~t.finished /\ s.buffered = 0 BY <2>2, <2>3, GrantedFields, FreshFields
  <2> QED BY <1>g, <2>3, <2>4
<1>7. CASE Applies(e) /\ Head(link[e]).id = id
  <2>0. PICK f : f = Head(link[e]) OBVIOUS
  <2>1. got' = got /\ UNCHANGED <<lastLocal, lastRemote>> BY <1>7 DEF Applies
  <2>2. PICK t : t = applied(f, stream[<<e, f.id>>]) /\ Becomes(e, f.id, t) BY <1>7, <2>0, AppliesAt
  <2>3. id = f.id /\ t = applied(f, s) BY <1>7, <2>0, <2>2 DEF s
  <2>4. stream'[<<e, id>>] = t /\ got'[<<e, id>>] = g BY <2>1, <2>2, <2>3 DEF Becomes, g
  <2>5. f \in Frames /\ f.type \in {"DATA", "WINDOW_UPDATE", "FIN", "RESET"}
           /\ f.type # "OPEN" /\ id \in streams[e]
    BY <1>7, <2>0, <2>3, Arrives
  <2>6. CASE f.type = "WINDOW_UPDATE"
    <3>1. t.buffered = s.buffered /\ t.finished = s.finished BY <1>3, <2>3, <2>5, <2>6,
             AppliedFields
    <3> QED BY <1>g, <2>4, <3>1
  <2>7. CASE f.type = "RESET"
    <3>1. t = Dead("reset") BY <1>3, <2>3, <2>5, <2>7, AppliedFields
    <3>2. t.err # "" /\ ~t.finished BY <3>1, DeadFields
    <3>3. knew(e, id)'
      <4>1. knew(e, id) BY <2>5 DEF Inv, PerStream, Known
      <4> QED BY <2>1, <4>1, OthersKnow
    <3> QED BY <2>2, <2>3, <2>4, <3>2, <3>3, BuriedIsDead
  <2> QED BY <1>7, <2>0, <2>5, <2>6, <2>7
<1>8. CASE Read(e, id)
  <2>1. PICK size \in 1 .. stream[<<e, id>>].buffered : \E t :
           /\ t = consumed(stream[<<e, id>>], size) /\ Becomes(e, id, t)
           /\ got' = [got EXCEPT ![<<e, id>>] = @ + size]
           /\ Send(e, <<Signal("WINDOW_UPDATE", id, size)>>)
    BY <1>8, ReadAt
  <2>2. PICK t : t = consumed(s, size) /\ Becomes(e, id, t) /\ got' = [got EXCEPT ![<<e,
           id>>] = @ + size]
    BY <2>1 DEF s
  <2>3. got'[<<e, id>>] = g + size
    <3>1. got \in [Ends \X Ids -> Nat] BY <1>1 DEF Base
    <3> QED BY <2>2, <3>1 DEF g
  <2>4. size \in Nat BY <1>3, <2>1 DEF s
  <2>5. t.buffered = s.buffered - size /\ t.finished = s.finished BY <1>3, <2>2, <2>4, MovedFields
  <2>6. stream'[<<e, id>>] = t BY <2>2 DEF Becomes
  <2>7. (g + size) + t.buffered = g + s.buffered /\ g + size >= g BY <1>3, <2>4, <2>5
  <2> QED BY <2>3, <2>5, <2>6, <2>7
<1>9. CASE Write(e, id)
  <2>1. PICK n, t :
           /\ n \in 1 .. want[<<e, id>>] /\ n <= stream[<<e, id>>].credit
           /\ t = [stream[<<e, id>>] EXCEPT !.credit = @ - n, !.owed = @ + n] /\ Becomes(e, id, t)
           /\ wrote' = [wrote EXCEPT ![<<e, id>>] = @ + n] /\ want' = [want EXCEPT ![<<e,
                       id>>] = @ - n]
           /\ Send(e, dataFrames(id, wrote[<<e, id>>] + 1, n))
    BY <1>9, WriteAt
  <2>2. n \in Nat
    <3>1. want[<<e, id>>] \in Nat BY <1>1, Facts
    <3> QED BY <2>1, <3>1
  <2>3. t.buffered = s.buffered /\ t.finished = s.finished BY <1>3, <2>1, <2>2, MovedFields DEF s
  <2>4. stream'[<<e, id>>] = t /\ got'[<<e, id>>] = g BY <1>9, <2>1 DEF Becomes, Write, g
  <2> QED BY <1>g, <2>3, <2>4
<1>10. CASE CloseWrite(e, id)
  <2>1. PICK t : t = [stream[<<e, id>>] EXCEPT !.writeClosed = TRUE] /\ Becomes(e, id,
           t) BY <1>10, CloseAt
  <2>2. t.buffered = s.buffered /\ t.finished = s.finished BY <1>3, <2>1, MovedFields DEF s
  <2>3. stream'[<<e, id>>] = t /\ got'[<<e, id>>] = g BY <1>10, <2>1 DEF Becomes, CloseWrite, g
  <2> QED BY <1>g, <2>2, <2>3
<1>11. CASE CloseStream(e, id)
  <2>1. PICK t : t = Dead("closed") /\ Becomes(e, id, t) BY <1>11, CloseAt
  <2>2. t.err # "" /\ ~t.finished /\ stream'[<<e, id>>] = t BY <2>1, DeadFields DEF Becomes
  <2>3. UNCHANGED <<lastLocal, lastRemote>> BY <1>11 DEF CloseStream
  <2>4. knew(e, id) BY <1>11, HeldIsKnown DEF Moves
  <2>5. knew(e, id)' BY <2>3, <2>4, OthersKnow
  <2> QED BY <2>1, <2>2, <2>5, BuriedIsDead
<1>12. CASE Gone(e)
  <2>1. PICK t :
                /\ t = Dead("closed")
                /\ \A d \in Ends, i \in Ids :
                     stream'[<<d, i>>] = IF d = e /\ i \in streams[e] THEN t ELSE stream[<<d, i>>]
                /\ \A d \in Ends : streams'[d] = IF d = e THEN {} ELSE streams[d]
                /\ \A d \in Ends : accepted'[d] = IF d = e THEN <<>> ELSE accepted[d]
                /\ \A d \in Ends : err'[d] = IF d = e THEN "closed" ELSE err[d]
                /\ \A d \in Ends : link'[d] = IF d = e THEN <<>> ELSE link[d]
                /\ UNCHANGED <<lastLocal, lastRemote, held, want, wrote, got>>
    BY <1>12, GoneAt
  <2>2. got'[<<e, id>>] = g /\ (stream'[<<e, id>>] = t \/ stream'[<<e, id>>] = s) BY <2>1 DEF g, s
  <2>3. err'[e] = "closed" BY <2>1
  <2>4. ~Live(e, id)' /\ ~t.finished BY <2>1, <2>3, DeadFields DEF Live
  <2>5. CASE stream'[<<e, id>>] = s BY <1>g, <2>2, <2>5
  <2>6. CASE stream'[<<e, id>>] = t BY <2>4, <2>6
  <2> QED BY <2>2, <2>5, <2>6
<1> QED BY <1>5, <1>6, <1>7, <1>8, <1>9, <1>10, <1>11, <1>12, Turns

\* The frame that e applies to a stream, and what the stream is then.
LEMMA AppliedAt ==
  ASSUME Inv, NEW e \in Ends, Applies(e), NEW id, Head(link[e]).id = id
  PROVE  \E f, t : /\ f = Head(link[e]) /\ f.id = id /\ f \in Frames /\ f.type # "OPEN"
           /\ f.size \in Nat
                   /\ t = applied(f, stream[<<e, id>>]) /\ stream'[<<e, id>>] = t /\ Becomes(e,
                               id, t)
                   /\ got' = got /\ wrote' = wrote /\ link'[e] = Tail(link[e])
<1>0. PICK f : f = Head(link[e]) OBVIOUS
<1>1. UNCHANGED <<got, wrote>> BY DEF Applies
<1>2. PICK t : t = applied(f, stream[<<e, f.id>>]) /\ Becomes(e, f.id, t) BY <1>0, AppliesAt
<1>3. f \in Frames /\ f.type # "OPEN" /\ f.id \in Ids /\ f.size \in Nat BY <1>0, Arrives
<1>4. stream'[<<e, id>>] = t BY <1>0, <1>2, <1>3 DEF Becomes
<1>5. link'[e] = Tail(link[e]) BY ReceiveSpeaks
<1> QED BY <1>0, <1>1, <1>2, <1>3, <1>4, <1>5

\* DataOK and FinOK are kept where the step is taken: a DATA frame brings the next
\* bytes, FIN comes after all of them.
LEMMA OwnData ==
  ASSUME Inv, NEW e \in Ends, Step(e), MuxInv', Base', NEW id \in Ids
  PROVE  DataOK(e, id)' /\ FinOK(e, id)'
<1> DEFINE p == Peer(e)
<1>0. p \in Ends /\ Peer(p) = e /\ Peer(e) = p BY PeerIsEnd
<1>1. Apart(p) BY StepIsApart
<1>2. DataOK(e, id) /\ FinOK(e, id) /\ MuxInv /\ Base BY DEF Inv, PerStream
<1>3. wrote'[<<p, id>>] = wrote[<<p, id>>] BY <1>1 DEF Apart, Same
<1>4. Mute(p, id)' <=> Mute(p, id) BY <1>0, <1>1, ApartKnows
<1> HIDE DEF p
<1>5. CASE ~(Applies(e) /\ Head(link[e]).id = id /\ Head(link[e]).type \in {"DATA", "FIN"})
  <2>1. Live(e, id)' => /\ Live(e, id) /\ Carries(link[e], link'[e], {"DATA", "FIN"}, id)
                        /\ arrived(e, id)' = arrived(e, id) /\ got'[<<e, id>>] >= got[<<e, id>>]
                        /\ stream'[<<e, id>>].finished => stream[<<e, id>>].finished
    <3>1. ASSUME Live(e, id)'
          PROVE  /\ Live(e, id) /\ Carries(link[e], link'[e], {"DATA", "FIN"}, id)
                 /\ arrived(e, id)' = arrived(e, id) /\ got'[<<e, id>>] >= got[<<e, id>>]
                 /\ stream'[<<e, id>>].finished => stream[<<e, id>>].finished
      BY <1>5, <3>1, LiveShrinks, LineTaken, OwnFlow
    <3> QED BY <3>1
  <2>2. DataOK(e, id)' BY <1>0, <1>2, <1>3, <1>4, <2>1, DataCarry
  <2>3. FinOK(e, id)'
    <3>1. ASSUME stream'[<<e, id>>].finished
          PROVE  Mute(p, id)' /\ arrived(e, id)' = wrote'[<<p, id>>]
      <4>1. arrived(e, id)' = arrived(e, id) /\ stream[<<e, id>>].finished BY <1>5, <3>1, OwnFlow
      <4> QED BY <1>0, <1>2, <1>3, <1>4, <4>1 DEF FinOK
    <3> QED BY <1>0, <3>1 DEF FinOK
  <2> QED BY <2>2, <2>3
<1>6. CASE Applies(e) /\ Head(link[e]).id = id /\ Head(link[e]).type \in {"DATA", "FIN"}
  <2>1. PICK f, t :
                   /\ f = Head(link[e]) /\ f.id = id /\ f \in Frames /\ f.type # "OPEN"
                               /\ f.size \in Nat
                   /\ t = applied(f, stream[<<e, id>>]) /\ stream'[<<e, id>>] = t /\ Becomes(e,
                               id, t)
                   /\ got' = got /\ wrote' = wrote /\ link'[e] = Tail(link[e])
    BY <1>6, AppliedAt
  <2> DEFINE s == stream[<<e, id>>]
             g == got[<<e, id>>]
  <2>2. s \in Objects /\ g \in Nat /\ s.buffered \in Nat /\ arrived(e, id) = g + s.buffered
    BY <1>2, Facts DEF arrived
  <2>3. arrived(e, id)' = g + t.buffered BY <2>1 DEF arrived
  <2>4. Live(e, id) /\ link[e] \in Seq(Frames) /\ link[e] # <<>> BY <1>6, <2>1, Arrives
  <2>5. /\ wrote[<<p, id>>] - g <= StreamWindowBytes /\ FinLine(link[e], id)
        /\ NoneOf(link[e], {"FIN"}, id) \/ Mute(p, id)
    BY <1>0, <1>2, <2>4 DEF DataOK
  <2>6. FinLine(Tail(link[e]), id) /\ (NoneOf(link[e], {"FIN"}, id) => NoneOf(Tail(link[e]),
           {"FIN"}, id))
    BY <2>4, <2>5, FinTaken
  <2> HIDE DEF s, g
  <2>7. CASE f.type = "DATA"
    <3>1. t.buffered = s.buffered + f.size /\ t.finished = s.finished BY <2>1, <2>2, <2>7,
             AppliedFields DEF s
    <3>2. ~s.finished /\ DataLine(Tail(link[e]), id, arrived(e, id) + f.size, wrote[<<p, id>>])
      BY <1>0, <1>6, <2>1, <2>7, Arrives DEF s
    <3>3. arrived(e, id)' = arrived(e, id) + f.size BY <2>1, <2>2, <2>3, <3>1
    <3>4. DataLine(link'[e], id, arrived(e, id)', wrote'[<<p, id>>])
      BY <1>3, <2>1, <3>2, <3>3
    <3>5. ~stream'[<<e, id>>].finished BY <2>1, <3>1, <3>2
    <3>6. wrote'[<<p, id>>] - got'[<<e, id>>] <= StreamWindowBytes BY <1>3, <2>1, <2>5 DEF g
    <3>7. FinLine(link'[e], id) /\ (NoneOf(link'[e], {"FIN"}, id) \/ Mute(p, id)') BY <1>4, <2>1,
             <2>5, <2>6
    <3>8. DataOK(e, id)' BY <1>0, <3>4, <3>5, <3>6, <3>7 DEF DataOK
    <3>9. FinOK(e, id)' BY <3>5 DEF FinOK
    <3> QED BY <3>8, <3>9
  <2>8. CASE f.type = "FIN"
    <3>1. t.buffered = s.buffered BY <2>1, <2>2, <2>8, AppliedFields DEF s
    <3>2. /\ arrived(e, id) = wrote[<<p, id>>] /\ Mute(p, id)
          /\ DataLine(Tail(link[e]), id, arrived(e, id), wrote[<<p, id>>])
          /\ NoneOf(Tail(link[e]), {"DATA", "FIN"}, id)
      <4>1. /\ arrived(e, id) = wrote[<<Peer(e), id>>] /\ Mute(Peer(e), id)
            /\ DataLine(Tail(link[e]), id, arrived(e, id), wrote[<<Peer(e), id>>])
            /\ NoneOf(Tail(link[e]), {"DATA", "FIN"}, id)
        BY <1>6, <2>1, <2>8, Arrives
      <4> QED BY <1>0, <4>1
    <3>3. arrived(e, id)' = arrived(e, id) BY <2>2, <2>3, <3>1
    <3>4. DataLine(link'[e], id, arrived(e, id)', wrote'[<<p, id>>]) BY <1>3, <2>1, <3>2, <3>3
    <3>5. NoneOf(link'[e], {"DATA", "FIN"}, id) /\ Mute(p, id)' BY <1>4, <2>1, <3>2
    <3>6. wrote'[<<p, id>>] - got'[<<e, id>>] <= StreamWindowBytes BY <1>3, <2>1, <2>5 DEF g
    <3>7. FinLine(link'[e], id) BY <2>1, <2>6
    <3>8. DataOK(e, id)' BY <1>0, <3>4, <3>5, <3>6, <3>7 DEF DataOK
    <3>9. FinOK(e, id)' BY <1>0, <1>3, <3>2, <3>3, <3>5 DEF FinOK
    <3> QED BY <3>8, <3>9
  <2> QED BY <1>6, <2>1, <2>7, <2>8
<1> QED BY <1>5, <1>6

\* The credit of a live stream changes only as it is granted, given back or spent.
LEMMA OwnWindow ==
  ASSUME Inv, NEW e \in Ends, Step(e), NEW id \in Ids, Live(e, id)',
         ~(Applies(e) /\ Head(link[e]).id = id /\ Head(link[e]).type \in Credits),
         ~(Admits(e) /\ Head(link[e]).id = id), ~Write(e, id)
  PROVE  stream'[<<e, id>>].credit = stream[<<e, id>>].credit /\ stream'[<<e,
           id>>].owed = stream[<<e, id>>].owed
<1> DEFINE s == stream[<<e, id>>]
<1>1. MuxInv /\ Base BY DEF Inv
<1>2. s \in Objects BY <1>1, Facts
<1>3. SUFFICES ASSUME TRUE PROVE \E t : stream'[<<e, id>>] = t /\ t.credit = s.credit
         /\ t.owed = s.owed
  OBVIOUS
<1>4. CASE Same(e, id) BY <1>4 DEF Same
<1> HIDE DEF s
<1>5. CASE Applies(e) /\ Head(link[e]).id = id
  <2>1. PICK f, t :
                   /\ f = Head(link[e]) /\ f.id = id /\ f \in Frames /\ f.type # "OPEN"
                               /\ f.size \in Nat
                   /\ t = applied(f, stream[<<e, id>>]) /\ stream'[<<e, id>>] = t /\ Becomes(e,
                               id, t)
                   /\ got' = got /\ wrote' = wrote /\ link'[e] = Tail(link[e])
    BY <1>5, AppliedAt
  <2>2. f.type \in {"DATA", "WINDOW_UPDATE", "FIN", "RESET"} /\ id \in streams[e]
    BY <1>5, <2>1, Arrives
  <2>3. CASE f.type \in {"DATA", "FIN"}
    <3>1. t.credit = s.credit /\ t.owed = s.owed BY <1>2, <2>1, <2>3, AppliedFields DEF s
    <3> QED BY <2>1, <3>1
  <2>4. CASE f.type = "RESET"
    <3>1. t = Dead("reset") BY <1>2, <2>1, <2>4, AppliedFields DEF s
    <3>4. t.err = "reset" BY <3>1, DeadFields
    <3>2. t.err # "" BY <3>4
    <3>3. knew(e, id)'
      <4>1. knew(e, id) BY <2>2 DEF Inv, PerStream, Known
      <4>2. UNCHANGED <<lastLocal, lastRemote>> BY <1>5 DEF Applies
      <4> QED BY <4>1, <4>2, OthersKnow
    <3> QED BY <2>1, <3>2, <3>3, BuriedIsDead
  <2> QED BY <1>5, <2>1, <2>2, <2>3, <2>4 DEF Credits
<1>6. CASE Read(e, id)
  <2>1. PICK size \in 1 .. stream[<<e, id>>].buffered : \E t :
           /\ t = consumed(stream[<<e, id>>], size) /\ Becomes(e, id, t)
           /\ got' = [got EXCEPT ![<<e, id>>] = @ + size]
           /\ Send(e, <<Signal("WINDOW_UPDATE", id, size)>>)
    BY <1>6, ReadAt
  <2>2. PICK t : t = consumed(s, size) /\ Becomes(e, id, t) BY <2>1 DEF s
  <2>3. size \in Nat
    <3>1. stream[<<e, id>>].buffered \in Nat BY <1>1, Facts
    <3> QED BY <2>1, <3>1
  <2>4. t.credit = s.credit /\ t.owed = s.owed BY <1>2, <2>2, <2>3, MovedFields
  <2>5. stream'[<<e, id>>] = t BY <2>2 DEF Becomes
  <2> QED BY <2>4, <2>5
<1>7. CASE CloseWrite(e, id)
  <2>1. PICK t : t = [stream[<<e, id>>] EXCEPT !.writeClosed = TRUE] /\ Becomes(e, id,
           t) BY <1>7, CloseAt
  <2>2. t.credit = s.credit /\ t.owed = s.owed BY <1>2, <2>1, MovedFields DEF s
  <2>3. stream'[<<e, id>>] = t BY <2>1 DEF Becomes
  <2> QED BY <2>2, <2>3
<1>8. CASE CloseStream(e, id)
  <2>1. PICK t : t = Dead("closed") /\ Becomes(e, id, t) BY <1>8, CloseAt
  <2>6. t.err = "closed" BY <2>1, DeadFields
  <2>2. t.err # "" BY <2>6
  <2>3. UNCHANGED <<lastLocal, lastRemote>> BY <1>8 DEF CloseStream
  <2>4. knew(e, id) BY <1>8, HeldIsKnown DEF Moves
  <2>5. knew(e, id)' BY <2>3, <2>4, OthersKnow
  <2> QED BY <2>1, <2>2, <2>5, BuriedIsDead
<1>9. CASE Gone(e)
  <2>1. \A d \in Ends : err'[d] = IF d = e THEN "closed" ELSE err[d] BY <1>9, GoneAt
  <2>2. err'[e] = "closed" BY <2>1
  <2> QED BY <2>2 DEF Live
<1> QED BY <1>4, <1>5, <1>6, <1>7, <1>8, <1>9, Turns

\* Credit that e takes off its line.
LEMMA CreditArrives ==
  ASSUME Inv, NEW e \in Ends, Step(e), MuxInv', Base', NEW id \in Ids, NEW f,
         Live(e, id), link[e] # <<>>, f = Head(link[e]), f \in Frames, Counts(f, Credits, id),
                  link'[e] = Tail(link[e]),
         wrote'[<<e, id>>] = wrote[<<e, id>>],
         stream'[<<e, id>>].credit # NoWindow,
         received(e, id)' = received(e, id) + f.size,
         stream'[<<e, id>>].credit + stream'[<<e, id>>].owed = StreamWindowBytes
  PROVE  CreditOK(e, id)'
<1> DEFINE p == Peer(e)
<1>0. p \in Ends /\ Peer(e) = p BY PeerIsEnd
<1>1. Apart(p) BY StepIsApart
<1>2. CreditOK(e, id) /\ MuxInv /\ Base BY DEF Inv, PerStream
<1>3. PICK z : /\ CreditLine(link[e], id, received(e, id), z)
               /\ z <= StreamWindowBytes + wrote[<<e, id>>]
               /\ Live(Peer(e), id) => z = issued(Peer(e), id)
  BY <1>2 DEF CreditOK
<1>4. link[e] \in Seq(Frames) BY <1>2 DEF MuxInv, Shape
<1>5. CreditLine(Tail(link[e]), id, received(e, id) + Head(link[e]).size, z) BY <1>3, <1>4,
         CreditLineTaken
<1>6. CreditLine(link'[e], id, received(e, id)', z) BY <1>5
<1>7. Live(p, id)' <=> Live(p, id) BY <1>0, <1>1, ApartKnows
<1>8. issued(p, id)' = issued(p, id)
  <2>1. got'[<<p, id>>] = got[<<p, id>>] BY <1>1 DEF Apart, Same
  <2>2. knew(p, id)' <=> knew(p, id) BY <1>0, <1>1, ApartKnows
  <2> HIDE DEF p
  <2> QED BY <2>1, <2>2 DEF issued
<1>9. z <= StreamWindowBytes + wrote'[<<e, id>>] BY <1>3
<1>10. Live(p, id)' => z = issued(p, id)' BY <1>0, <1>3, <1>7, <1>8
<1> HIDE DEF p
<1> QED BY <1>0, <1>6, <1>9, <1>10 DEF CreditOK

\* CreditOK is kept where the step is taken: a write turns credit into owed bytes, an
\* update turns them back.
LEMMA OwnCredit ==
  ASSUME Inv, NEW e \in Ends, Step(e), MuxInv', Base', NEW id \in Ids
  PROVE  CreditOK(e, id)'
<1> DEFINE p == Peer(e)
           s == stream[<<e, id>>]
           w == wrote[<<e, id>>]
<1>0. p \in Ends /\ Peer(e) = p BY PeerIsEnd
<1>1. Apart(p) BY StepIsApart
<1>2. CreditOK(e, id) /\ MuxInv /\ Base BY DEF Inv, PerStream
<1>3. /\ s \in Objects /\ s.credit \in Int /\ s.owed \in Int /\ w \in Nat
         /\ StreamWindowBytes \in Nat \ {0}
      /\ link[e] \in Seq(Frames)
  BY <1>2, Facts
<1>4. Live(p, id)' => Live(p, id) /\ issued(p, id)' = issued(p, id)
  <2>1. got'[<<p, id>>] = got[<<p, id>>] BY <1>1 DEF Apart, Same
  <2>2. /\ knew(p, id)' <=> knew(p, id)
        /\ Live(p, id)' <=> Live(p, id)
    BY <1>0, <1>1, ApartKnows
  <2> HIDE DEF p
  <2> QED BY <2>1, <2>2 DEF issued
<1>5. CASE Applies(e) /\ Head(link[e]).id = id /\ Head(link[e]).type \in Credits
  <2>1. PICK f, t :
                   /\ f = Head(link[e]) /\ f.id = id /\ f \in Frames /\ f.type # "OPEN"
                               /\ f.size \in Nat
                   /\ t = applied(f, stream[<<e, id>>]) /\ stream'[<<e, id>>] = t /\ Becomes(e,
                               id, t)
                   /\ got' = got /\ wrote' = wrote /\ link'[e] = Tail(link[e])
    BY <1>5, AppliedAt
  <2>2. f.type = "WINDOW_UPDATE" /\ Counts(f, Credits, id) BY <1>5, <2>1 DEF Credits, Counts
  <2>3. Live(e, id) /\ link[e] # <<>> BY <1>5, <2>1, Arrives
  <2>4. /\ s.credit = NoWindow => t.credit = f.size /\ t.owed = s.owed
        /\ s.credit # NoWindow => t.credit = s.credit + f.size /\ t.owed = s.owed - f.size
    BY <1>3, <2>1, <2>2, AppliedFields
  <2>5. wrote'[<<e, id>>] = w BY <2>1
  <2>6. received(e, id)' = IF t.credit = NoWindow THEN 0 ELSE t.credit + w BY <2>1 DEF received
  <2>7. received(e, id) = IF s.credit = NoWindow THEN 0 ELSE s.credit + w BY DEF received
  <2>8. CASE s.credit = NoWindow
    <3>1. s.owed = 0 /\ w = 0 /\ Grants(link[e], id) BY <1>2, <2>3, <2>8 DEF CreditOK
    <3>2. f = link[e][1] /\ 1 \in 1 .. Len(link[e]) BY <1>2, <2>1, <2>3, HeadFrame
    <3>3. f.size = StreamWindowBytes BY <2>2, <3>1, <3>2 DEF Grants
    <3> HIDE DEF s, w
    <3>4. t.credit = StreamWindowBytes /\ t.owed = 0 BY <2>4, <2>8, <3>1, <3>3
    <3>5. t.credit # NoWindow BY <1>3, <3>4 DEF NoWindow
    <3>6. t.credit + t.owed = StreamWindowBytes BY <1>3, <3>4
    <3>7. received(e, id)' = received(e, id) + f.size BY <1>3, <2>6, <2>7, <2>8, <3>1, <3>3,
             <3>4, <3>5
    <3> QED BY <2>1, <2>2, <2>3, <3>5, <3>6, <3>7, CreditArrives
  <2>9. CASE s.credit # NoWindow
    <3>1. s.credit + s.owed = StreamWindowBytes BY <1>2, <2>3, <2>9 DEF CreditOK
    <3>2. s.credit \in NoWindow .. StreamWindowBytes BY DEF Inv, PerStream, Whole, Sized
    <3> HIDE DEF s, w
    <3>3. s.credit \in Nat BY <1>3, <2>9, <3>2 DEF NoWindow
    <3>4. t.credit # NoWindow BY <2>1, <2>4, <2>9, <3>3 DEF NoWindow
    <3>5. t.credit + t.owed = StreamWindowBytes BY <1>3, <2>1, <2>4, <2>9, <3>1, <3>3
    <3>6. received(e, id)' = received(e, id) + f.size BY <1>3, <2>1, <2>4, <2>6, <2>7, <2>9,
             <3>3, <3>4
    <3> QED BY <2>1, <2>2, <2>3, <3>4, <3>5, <3>6, CreditArrives
  <2> QED BY <2>8, <2>9
<1>6. CASE Admits(e) /\ Head(link[e]).id = id
  <2>0. PICK f : f = Head(link[e]) OBVIOUS
  <2>1. /\ link[e] # <<>> /\ f.type = "OPEN" /\ f.size = StreamWindowBytes /\ err[e] = ""
           /\ wrote' = wrote
    BY <1>6, <2>0 DEF Admits
  <2>2. PICK t : /\ t = [Fresh EXCEPT !.credit = StreamWindowBytes]
                 /\ stream[<<e, Head(link[e]).id>>] = Fresh
                 /\ \A c \in Ends, k \in Ids :
                     stream'[<<c, k>>] = IF c = e /\ k = Head(link[e]).id THEN t ELSE stream[<<c,
                              k>>]
                 /\ \A c \in Ends, k \in Ids :
                     k \in streams'[c] <=> k \in streams[c] \/ (c = e /\ k = Head(link[e]).id)
    BY <1>6, AdmitAt
  <2>3. stream'[<<e, id>>] = t /\ s = Fresh BY <1>6, <2>2
  <2>4. t.credit = StreamWindowBytes /\ t.owed = 0 /\ s.credit = NoWindow BY <2>2, <2>3,
           GrantedFields, FreshFields
  <2>5. f \in Frames /\ Counts(f, Credits, id)
    <3>1. f \in Frames BY <1>2, <2>0, <2>1, HeadFrame
    <3> QED BY <1>6, <2>0, <2>1, <3>1 DEF Counts, Credits
  <2>6. ~knew(e, id) BY <1>6, AdmitKnows
  <2>7. Live(e, id) BY <2>1, <2>6 DEF Live
  <2>8. w = 0 BY <1>2, <2>4, <2>7 DEF CreditOK
  <2>9. PICK g, F :
              /\ Lone(g, F) /\ g.type = "WINDOW_UPDATE" /\ g.id = Head(link[e]).id
                          /\ g.size = StreamWindowBytes
              /\ link[e] # <<>> /\ link'[e] = Tail(link[e]) /\ Posted(e, F)
    BY <1>6, ReceiveSpeaks
  <2>10. received(e, id)' = IF t.credit = NoWindow THEN 0 ELSE t.credit + w BY <2>1, <2>3
           DEF received
  <2>11. received(e, id) = 0 BY <2>4 DEF received
  <2>12. t.credit # NoWindow BY <1>3, <2>4 DEF NoWindow
  <2>13. t.credit + t.owed = StreamWindowBytes BY <1>3, <2>4
  <2> HIDE DEF s, w
  <2>14. received(e, id)' = received(e, id) + f.size
    <3>1. StreamWindowBytes \in Nat BY <1>3
    <3>2. t.credit + w = StreamWindowBytes BY <2>4, <2>8, <3>1
    <3>3. received(e, id)' = StreamWindowBytes BY <2>10, <2>12, <3>2
    <3>4. f.size = StreamWindowBytes BY <2>1
    <3>5. received(e, id) + f.size = StreamWindowBytes BY <2>11, <3>1, <3>4
    <3> QED BY <3>3, <3>5
  <2>15. wrote'[<<e, id>>] = wrote[<<e, id>>] BY <2>1
  <2> QED BY <2>0, <2>1, <2>3, <2>5, <2>7, <2>9, <2>12, <2>13, <2>14, <2>15, CreditArrives
<1>7. CASE /\ ~(Applies(e) /\ Head(link[e]).id = id /\ Head(link[e]).type \in Credits)
           /\ ~(Admits(e) /\ Head(link[e]).id = id)
  <2>1. Live(e, id)' => Live(e, id) /\ Carries(link[e], link'[e], Credits, id)
    BY <1>7, LiveShrinks, LineTaken
  <2>2. CASE Write(e, id)
    <3>1. PICK n, t :
           /\ n \in 1 .. want[<<e, id>>] /\ n <= stream[<<e, id>>].credit
           /\ t = [stream[<<e, id>>] EXCEPT !.credit = @ - n, !.owed = @ + n] /\ Becomes(e, id, t)
           /\ wrote' = [wrote EXCEPT ![<<e, id>>] = @ + n] /\ want' = [want EXCEPT ![<<e,
                       id>>] = @ - n]
           /\ Send(e, dataFrames(id, wrote[<<e, id>>] + 1, n))
      BY <2>2, WriteAt
    <3>2. n \in Nat
      <4>1. want[<<e, id>>] \in Nat BY <1>2, Facts
      <4> QED BY <3>1, <4>1
    <3>3. t.credit = s.credit - n /\ t.owed = s.owed + n BY <1>3, <3>1, <3>2, MovedFields
    <3>4. s.credit > 0 /\ n <= s.credit BY <2>2, <3>1 DEF Write
    <3>5. stream'[<<e, id>>] = t BY <3>1 DEF Becomes
    <3>6. wrote'[<<e, id>>] = w + n
      <4>1. wrote \in [Ends \X Ids -> Nat] BY <1>2 DEF MuxInv, Shape
      <4> QED BY <3>1, <4>1
    <3>7. received(e, id)' = IF t.credit = NoWindow THEN 0 ELSE t.credit + (w + n) BY <3>5,
             <3>6 DEF received
    <3>8. received(e, id) = IF s.credit = NoWindow THEN 0 ELSE s.credit + w BY DEF received
    <3> HIDE DEF s
    <3>9. t.credit # NoWindow /\ s.credit # NoWindow BY <1>3, <3>2, <3>3, <3>4 DEF NoWindow
    <3>10. t.credit + (w + n) = s.credit + w /\ w + n >= w /\ t.credit + t.owed = s.credit + s.owed
      BY <1>3, <3>2, <3>3
    <3>11. received(e, id)' = received(e, id) BY <3>7, <3>8, <3>9, <3>10
    <3> QED BY <1>0, <1>2, <1>4, <2>1, <3>5, <3>6, <3>9, <3>10, <3>11, CreditCarry DEF s
  <2>3. CASE ~Write(e, id)
    <3>1. wrote'[<<e, id>>] = w BY <2>3, WroteStays
    <3>2. Live(e, id)' => stream'[<<e, id>>].credit = s.credit /\ stream'[<<e, id>>].owed = s.owed
      BY <1>7, <2>3, OwnWindow
    <3>3. Live(e, id)' => received(e, id)' = received(e, id) BY <3>1, <3>2 DEF received
    <3>4. wrote'[<<e, id>>] >= wrote[<<e, id>>] BY <1>3, <3>1
    <3> QED BY <1>0, <1>2, <1>4, <2>1, <3>1, <3>2, <3>3, <3>4, CreditCarry
  <2> QED BY <2>2, <2>3
<1> QED BY <1>5, <1>6, <1>7

\* What becomes of a stream that an operation changes.
LEMMA ChangedIsKnown ==
  ASSUME Inv, NEW e \in Ends, NEW k \in Ids, NEW t, Becomes(e, k, t),
         UNCHANGED <<lastLocal, lastRemote, accepted, held>>, knew(e, k),
                  k \in streams[e] \/ t.err # "",
         \A id \in Ids : want'[<<e, id>>] > 0 => want[<<e, id>>] > 0,
         NEW id \in Ids
  PROVE  Known(e, id)'
<1>1. Known(e, id) /\ Known(e, k) BY DEF Inv, PerStream
<1>2. knew(e, id)' <=> knew(e, id) BY OthersKnow
<1>3. Used(e, id)' <=> Used(e, id) BY DEF Used
<1>4. want'[<<e, id>>] > 0 => id \in held'[e] BY <1>1 DEF Known
<1>5. stream'[<<e, id>>] = IF id = k THEN t ELSE stream[<<e, id>>] BY DEF Becomes
<1>6. id \in streams'[e] <=> id \in streams[e] /\ ~(id = k /\ (t.err # "" \/ retires(t))) BY
         DEF Becomes
<1>7. id \in streams'[e] => stream'[<<e, id>>].err = "" BY <1>1, <1>5, <1>6 DEF Known
<1>8. id \in streams'[e] \/ Used(e, id)' => knew(e, id)' BY <1>1, <1>2, <1>3, <1>6 DEF Known
<1>9. ~knew(e, id)' => stream'[<<e, id>>] = Fresh BY <1>1, <1>2, <1>5 DEF Known
<1>10. Used(e, id)' /\ stream'[<<e, id>>].err = "" => id \in streams'[e] \/ retires(stream'[<<e,
         id>>])
  BY <1>1, <1>3, <1>5, <1>6 DEF Known
<1> QED BY <1>4, <1>7, <1>8, <1>9, <1>10 DEF Known

\* Known is kept where the step is taken.
LEMMA OwnKnown ==
  ASSUME Inv, NEW e \in Ends, Step(e), NEW id \in Ids
  PROVE  Known(e, id)'
<1>1. MuxInv /\ Base /\ Known(e, id) BY DEF Inv, PerStream
<1>t. /\ streams \in [Ends -> SUBSET Ids] /\ held \in [Ends -> SUBSET Ids]
         /\ accepted \in [Ends -> Seq(Ids)]
      /\ want \in [Ends \X Ids -> Nat] /\ wrote \in [Ends \X Ids -> Nat]
  BY <1>1 DEF MuxInv, Shape
<1>2. CASE Open(e)
  <2>1. PICK k \in Ids :
           /\ k = nextId(lastLocal[e], e = "init") /\ Mine(e, k) /\ k > lastLocal[e]
           /\ ~knew(e, k)
           /\ lastLocal' = [lastLocal EXCEPT ![e] = k] /\ lastRemote' = lastRemote
           /\ \A d \in Ends, i \in Ids : knew(d, i)' <=> knew(d, i) \/ (d = e /\ i = k)
    BY <1>2, OpenKnows
  <2>2. /\ streams' = [streams EXCEPT ![e] = @ \cup {k}] /\ held' = [held EXCEPT ![e] = @ \cup {k}]
        /\ UNCHANGED <<stream, accepted, want>>
    BY <1>2, <2>1 DEF Open
  <2>3. streams'[e] = streams[e] \cup {k} /\ held'[e] = held[e] \cup {k} BY <1>t, <2>2
  <2>4. Used(e, id)' => Used(e, id) \/ id = k BY <2>2, <2>3 DEF Used
  <2>5. knew(e, id)' <=> knew(e, id) \/ id = k BY <2>1
  <2>6. id = k => stream[<<e, id>>].err = "" BY <1>1, <2>1, FreshFields DEF Known
  <2>7. stream' = stream /\ want' = want BY <2>2
  <2>8. id \in streams'[e] => stream'[<<e, id>>].err = "" BY <1>1, <2>3, <2>6, <2>7 DEF Known
  <2>9. id \in streams'[e] \/ Used(e, id)' => knew(e, id)' BY <1>1, <2>3, <2>4, <2>5 DEF Known
  <2>10. ~knew(e, id)' => stream'[<<e, id>>] = Fresh BY <1>1, <2>5, <2>7 DEF Known
  <2>11. Used(e, id)' /\ stream'[<<e,
           id>>].err = "" => id \in streams'[e] \/ retires(stream'[<<e, id>>])
    BY <1>1, <2>3, <2>4, <2>7 DEF Known
  <2>12. want'[<<e, id>>] > 0 => id \in held'[e] BY <1>1, <2>3, <2>7 DEF Known
  <2> QED BY <2>8, <2>9, <2>10, <2>11, <2>12 DEF Known
<1>3. CASE Accept(e)
  <2>1. /\ accepted[e] # <<>> /\ accepted' = [accepted EXCEPT ![e] = Tail(@)]
        /\ UNCHANGED <<streams, stream, want, lastLocal, lastRemote>>
    BY <1>3 DEF Accept
  <2>2. held' = [held EXCEPT ![e] = @ \cup {Head(accepted[e])}] \/ held' = [held EXCEPT ![e] = @]
    BY <1>3 DEF Accept
  <2>3. held'[e] = held[e] \cup {Head(accepted[e])} \/ held'[e] = held[e] BY <1>t, <2>2
  <2>4. accepted'[e] = Tail(accepted[e]) /\ accepted[e] \in Seq(Ids) BY <1>t, <2>1
  <2>5. Used(e, id)' => Used(e, id)
    <3>1. Head(accepted[e]) = accepted[e][1] /\ 1 \in 1 .. Len(accepted[e])
      <4>1. Len(accepted[e]) \in Nat /\ Len(accepted[e]) # 0 BY <2>1, <2>4, LenProperties, EmptySeq
      <4> QED BY <2>4, <4>1
    <3>2. \A i \in 1 .. Len(Tail(accepted[e])) :
            i + 1 \in 1 .. Len(accepted[e]) /\ Tail(accepted[e])[i] = accepted[e][i + 1]
      <4>1. Len(Tail(accepted[e])) = Len(accepted[e]) - 1 /\ Len(accepted[e]) \in Nat
            /\ \A i \in 1 .. Len(Tail(accepted[e])) : Tail(accepted[e])[i] = accepted[e][i + 1]
        BY <2>1, <2>4, HeadTailProperties, LenProperties
      <4> QED BY <4>1
    <3> QED BY <2>3, <2>4, <3>1, <3>2 DEF Used
  <2>6. knew(e, id)' <=> knew(e, id) BY <2>1, OthersKnow
  <2>7. id \in held[e] => id \in held'[e] BY <2>3
  <2> QED BY <1>1, <2>1, <2>5, <2>6, <2>7 DEF Known
<1>4. CASE Refuses(e)
  <2>1. \A d \in Ends, i \in Ids : knew(d, i)' <=> knew(d, i) \/ (d = e /\ i = Head(link[e]).id)
    BY <1>4, AdmitKnows
  <2>2. UNCHANGED <<streams, stream, accepted, held, want>> BY <1>4 DEF Refuses
  <2>3. knew(e, id) => knew(e, id)' BY <2>1
  <2>4. Used(e, id)' <=> Used(e, id) BY <2>2 DEF Used
  <2> QED BY <1>1, <2>2, <2>3, <2>4 DEF Known
<1>5. CASE Admits(e)
  <2>0. PICK k : k = Head(link[e]).id OBVIOUS
  <2>1. k \in Ids /\ \A d \in Ends, i \in Ids : knew(d, i)' <=> knew(d, i) \/ (d = e /\ i = k)
    BY <1>5, <2>0, AdmitKnows
  <2>2. accepted' = [accepted EXCEPT ![e] = Append(@, k)] /\ UNCHANGED <<held, want>> BY <1>5,
           <2>0 DEF Admits
  <2>3. PICK t : /\ t = [Fresh EXCEPT !.credit = StreamWindowBytes]
                 /\ stream[<<e, Head(link[e]).id>>] = Fresh
                 /\ \A c \in Ends, i \in Ids :
                     stream'[<<c, i>>] = IF c = e /\ i = Head(link[e]).id THEN t ELSE stream[<<c,
                              i>>]
                 /\ \A c \in Ends, i \in Ids :
                     i \in streams'[c] <=> i \in streams[c] \/ (c = e /\ i = Head(link[e]).id)
    BY <1>5, AdmitAt
  <2>4. stream'[<<e, id>>] = (IF id = k THEN t ELSE stream[<<e, id>>])
        /\ (id \in streams'[e] <=> id \in streams[e] \/ id = k)
    BY <2>0, <2>3
  <2>5. accepted'[e] = Append(accepted[e], k) /\ accepted[e] \in Seq(Ids) BY <1>t, <2>2
  <2>6. Used(e, id)' => Used(e, id) \/ id = k
    <3>1. /\ Len(Append(accepted[e], k)) = Len(accepted[e]) + 1
          /\ \A i \in 1 .. Len(accepted[e]) : Append(accepted[e], k)[i] = accepted[e][i]
          /\ Append(accepted[e], k)[Len(accepted[e]) + 1] = k
      BY <2>1, <2>5, AppendProperties
    <3>2. \A i \in 1 .. Len(Append(accepted[e],
             k)) : i \in 1 .. Len(accepted[e]) \/ i = Len(accepted[e]) + 1
      <4>1. Len(accepted[e]) \in Nat BY <2>5, LenProperties
      <4> QED BY <3>1, <4>1
    <3> QED BY <2>2, <2>5, <3>1, <3>2 DEF Used
  <2>7. t.err = "" BY <2>3, GrantedFields
  <2>8. knew(e, id)' <=> knew(e, id) \/ id = k BY <2>1
  <2>9. id \in streams'[e] => stream'[<<e, id>>].err = "" BY <1>1, <2>4, <2>7 DEF Known
  <2>10. id \in streams'[e] \/ Used(e, id)' => knew(e, id)' BY <1>1, <2>4, <2>6, <2>8 DEF Known
  <2>11. ~knew(e, id)' => stream'[<<e, id>>] = Fresh BY <1>1, <2>4, <2>8 DEF Known
  <2>12. Used(e, id)' /\ stream'[<<e,
           id>>].err = "" => id \in streams'[e] \/ retires(stream'[<<e, id>>])
    BY <1>1, <2>4, <2>6 DEF Known
  <2>13. want'[<<e, id>>] > 0 => id \in held'[e] BY <1>1, <2>2 DEF Known
  <2> QED BY <2>9, <2>10, <2>11, <2>12, <2>13 DEF Known
<1>6. CASE Ignores(e)
  <2>1. UNCHANGED <<streams, stream, accepted, held, want, lastLocal, lastRemote>> BY <1>6
           DEF Ignores
  <2>2. knew(e, id)' <=> knew(e, id) BY <2>1, OthersKnow
  <2>3. Used(e, id)' <=> Used(e, id) BY <2>1 DEF Used
  <2> QED BY <1>1, <2>1, <2>2, <2>3 DEF Known
<1>7. CASE Applies(e)
  <2>1. PICK t : t = applied(Head(link[e]), stream[<<e, Head(link[e]).id>>]) /\ Becomes(e,
           Head(link[e]).id, t)
    BY <1>7, AppliesAt
  <2>0. PICK k : k = Head(link[e]).id OBVIOUS
  <2>2. k \in Ids /\ k \in streams[e] BY <1>7, <2>0, Arrives
  <2>3. knew(e, k) BY <2>2 DEF Inv, PerStream, Known
  <2>4. UNCHANGED <<lastLocal, lastRemote, accepted, held, want>> BY <1>7 DEF Applies
  <2> QED BY <2>0, <2>1, <2>2, <2>3, <2>4, ChangedIsKnown
<1>8. CASE Gone(e)
  <2>1. PICK t :
                /\ t = Dead("closed")
                /\ \A d \in Ends, i \in Ids :
                     stream'[<<d, i>>] = IF d = e /\ i \in streams[e] THEN t ELSE stream[<<d, i>>]
                /\ \A d \in Ends : streams'[d] = IF d = e THEN {} ELSE streams[d]
                /\ \A d \in Ends : accepted'[d] = IF d = e THEN <<>> ELSE accepted[d]
                /\ \A d \in Ends : err'[d] = IF d = e THEN "closed" ELSE err[d]
                /\ \A d \in Ends : link'[d] = IF d = e THEN <<>> ELSE link[d]
                /\ UNCHANGED <<lastLocal, lastRemote, held, want, wrote, got>>
    BY <1>8, GoneAt
  <2>2. /\ streams'[e] = {} /\ accepted'[e] = <<>> /\ held' = held /\ want' = want
        /\ stream'[<<e, id>>] = IF id \in streams[e] THEN t ELSE stream[<<e, id>>]
    BY <2>1
  <2>3. knew(e, id)' <=> knew(e, id) BY <2>1, OthersKnow
  <2>4. Used(e, id)' => Used(e, id)
    <3>1. 1 .. Len(<<>>) = {} BY EmptySeq
    <3> QED BY <2>2, <3>1 DEF Used
  <2>5. t.err = "closed" BY <2>1, DeadFields
  <2>6. ~knew(e, id)' => stream'[<<e, id>>] = Fresh BY <1>1, <2>2, <2>3 DEF Known
  <2>7. Used(e, id)' => knew(e, id)' BY <1>1, <2>3, <2>4 DEF Known
  <2>8. Used(e, id)' /\ stream'[<<e, id>>].err = "" => retires(stream'[<<e, id>>])
    BY <1>1, <2>2, <2>4, <2>5 DEF Known
  <2>9. want'[<<e, id>>] > 0 => id \in held'[e] BY <1>1, <2>2 DEF Known
  <2> QED BY <2>2, <2>6, <2>7, <2>8, <2>9 DEF Known
<1>9. ASSUME NEW k \in Ids, Waits(e, k) PROVE Known(e, id)'
  <2>1. UNCHANGED <<streams, stream, accepted, held, lastLocal, lastRemote>>
    BY <1>9 DEF Waits, ReadWaits, WriteBegins, WriteWaits, WriteFails, WaitCancelled
  <2>2. knew(e, id)' <=> knew(e, id) BY <2>1, OthersKnow
  <2>3. Used(e, id)' <=> Used(e, id) BY <2>1 DEF Used
  <2>4. want'[<<e, id>>] > 0 => id \in held[e]
    <3>1. \/ want' = want \/ want' = [want EXCEPT ![<<e, k>>] = 0]
          \/ WriteBegins(e, k) /\ \E n : want' = [want EXCEPT ![<<e, k>>] = n]
      BY <1>9 DEF Waits, ReadWaits, WriteBegins, WriteWaits, WriteFails, WaitCancelled
    <3>2. CASE want' = want \/ want' = [want EXCEPT ![<<e, k>>] = 0]
      <4>1. want'[<<e, id>>] = want[<<e, id>>] \/ want'[<<e, id>>] = 0 BY <1>t, <3>2
      <4>2. ~(0 > 0) OBVIOUS
      <4>3. want[<<e, id>>] > 0 => id \in held[e] BY <1>1 DEF Known
      <4> QED BY ONLY <4>1, <4>2, <4>3
    <3>3. CASE WriteBegins(e, k) /\ \E n : want' = [want EXCEPT ![<<e, k>>] = n]
      <4>1. k \in held[e] BY <3>3 DEF WriteBegins, usable
      <4>2. id # k => want'[<<e, id>>] = want[<<e, id>>] BY <1>t, <3>3
      <4> QED BY <1>1, <4>1, <4>2 DEF Known
    <3> QED BY <3>1, <3>2, <3>3
  <2> QED BY <1>1, <2>1, <2>2, <2>3, <2>4 DEF Known
<1>10. ASSUME NEW k \in Ids, Moves(e, k) PROVE Known(e, id)'
  <2>1. knew(e, k) BY <1>10, HeldIsKnown
  <2>2. UNCHANGED <<lastLocal, lastRemote, accepted, held>>
    BY <1>10 DEF Moves, Read, Write, CloseWrite, CloseStream
  <2>3. CASE Read(e, k) \/ CloseWrite(e, k) \/ CloseStream(e, k)
    <3>1. want' = want BY <2>3 DEF Read, CloseWrite, CloseStream
    <3>2. PICK t : Becomes(e, k, t) /\ (CloseStream(e, k) => t = Dead("closed"))
      <4>1. CASE Read(e, k) /\ ~CloseStream(e, k) BY <4>1, ReadAt
      <4>2. CASE CloseWrite(e, k) /\ ~CloseStream(e, k) BY <4>2, CloseAt
      <4>3. CASE CloseStream(e, k) BY <4>3, CloseAt
      <4> QED BY <2>3, <4>1, <4>2, <4>3
    <3>3. k \in streams[e] \/ t.err # ""
      <4>1. CASE CloseStream(e, k)
        <5>1. t.err = "closed" BY <3>2, <4>1, DeadFields
        <5> QED BY <5>1
      <4>2. CASE ~CloseStream(e, k) BY <2>3, <4>2, InUse
      <4> QED BY <4>1, <4>2
    <3> QED BY <2>1, <2>2, <3>1, <3>2, <3>3, ChangedIsKnown
  <2>4. CASE Write(e, k)
    <3>1. PICK n, t :
           /\ n \in 1 .. want[<<e, k>>] /\ n <= stream[<<e, k>>].credit
           /\ t = [stream[<<e, k>>] EXCEPT !.credit = @ - n, !.owed = @ + n] /\ Becomes(e, k, t)
           /\ wrote' = [wrote EXCEPT ![<<e, k>>] = @ + n] /\ want' = [want EXCEPT ![<<e,
                       k>>] = @ - n]
           /\ Send(e, dataFrames(k, wrote[<<e, k>>] + 1, n))
      BY <2>4, WriteAt
    <3>2. k \in streams[e] BY <2>4, InUse
    <3>3. \A i \in Ids : want'[<<e, i>>] > 0 => want[<<e, i>>] > 0
      <4>1. want[<<e, k>>] > 0 BY <2>4 DEF Write, writing
      <4>2. \A i \in Ids : i # k => want'[<<e, i>>] = want[<<e, i>>] BY <1>t, <3>1
      <4> QED BY <4>1, <4>2
    <3> QED BY <2>1, <2>2, <3>1, <3>2, <3>3, ChangedIsKnown
  <2> QED BY <1>10, <2>3, <2>4 DEF Moves
<1> QED BY <1>2, <1>3, <1>4, <1>5, <1>6, <1>7, <1>8, <1>9, <1>10 DEF Step, Gone

\* And at the other end.
LEMMA PeerKnown ==
  ASSUME Inv, NEW e \in Ends, Step(e), NEW id \in Ids
  PROVE  Known(Peer(e), id)'
<1> DEFINE p == Peer(e)
<1>0. p \in Ends BY PeerIsEnd
<1>1. Apart(p) BY StepIsApart
<1>2. Known(p, id) BY <1>0 DEF Inv, PerStream
<1>3. knew(p, id)' <=> knew(p, id) BY <1>0, <1>1, ApartKnows
<1>4. /\ stream'[<<p, id>>] = stream[<<p, id>>] /\ want'[<<p, id>>] = want[<<p, id>>]
      /\ id \in streams'[p] <=> id \in streams[p]
      /\ held'[p] = held[p] /\ accepted'[p] = accepted[p]
  BY <1>1 DEF Apart, Same
<1> HIDE DEF p
<1>5. Used(p, id)' <=> Used(p, id) BY <1>4 DEF Used
<1>6. Known(p, id)' BY <1>2, <1>3, <1>4, <1>5 DEF Known
<1> QED BY <1>6 DEF p

\* What has arrived grows only with a DATA frame.
LEMMA ArrivedStays ==
  ASSUME Inv, NEW e \in Ends, Step(e), NEW id \in Ids,
         ~(Applies(e) /\ Head(link[e]).id = id /\ Head(link[e]).type \in {"DATA", "FIN"})
  PROVE  arrived(e, id)' <= arrived(e, id)
<1> DEFINE s == stream[<<e, id>>]
           g == got[<<e, id>>]
<1>1. MuxInv /\ Base BY DEF Inv
<1>2. s \in Objects /\ g \in Nat /\ s.buffered \in Nat BY <1>1, Facts
<1>3. arrived(e, id) = g + s.buffered /\ g + s.buffered \in Nat
         /\ g <= g + s.buffered BY <1>2 DEF arrived
<1>4. CASE Live(e, id)' \/ stream'[<<e, id>>].finished
  <2>1. arrived(e, id)' = arrived(e, id) BY <1>4, OwnFlow
  <2> QED BY <1>3, <2>1
<1>5. ASSUME NEW c, stream'[<<e, id>>] = Dead(c), got'[<<e, id>>] = g
      PROVE  arrived(e, id)' <= arrived(e, id)
  <2>1. stream'[<<e, id>>].buffered = 0 BY <1>5, DeadFields
  <2>2. arrived(e, id)' = g + 0 BY <1>5, <2>1 DEF arrived
  <2> HIDE DEF g, s
  <2> QED BY <1>2, <1>3, <2>2
<1>6. CASE Same(e, id)
  <2>1. arrived(e, id)' = arrived(e, id) BY <1>6 DEF Same, arrived
  <2> QED BY <1>3, <2>1
<1>7. CASE Admits(e) /\ Head(link[e]).id = id
  <2>1. PICK t : /\ t = [Fresh EXCEPT !.credit = StreamWindowBytes]
                 /\ stream[<<e, Head(link[e]).id>>] = Fresh
                 /\ \A c \in Ends, i \in Ids :
                     stream'[<<c, i>>] = IF c = e /\ i = Head(link[e]).id THEN t ELSE stream[<<c,
                              i>>]
                 /\ \A c \in Ends, i \in Ids :
                     i \in streams'[c] <=> i \in streams[c] \/ (c = e /\ i = Head(link[e]).id)
    BY <1>7, AdmitAt
  <2>2. err' = err /\ err[e] = "" BY <1>7 DEF Admits
  <2>3. Live(e, id)' BY <1>7, <2>1, <2>2 DEF Live
  <2> QED BY <1>4, <2>3
<1>8. CASE Applies(e) /\ Head(link[e]).id = id
  <2>1. PICK f, t :
                   /\ f = Head(link[e]) /\ f.id = id /\ f \in Frames /\ f.type # "OPEN"
                               /\ f.size \in Nat
                   /\ t = applied(f, stream[<<e, id>>]) /\ stream'[<<e, id>>] = t /\ Becomes(e,
                               id, t)
                   /\ got' = got /\ wrote' = wrote /\ link'[e] = Tail(link[e])
    BY <1>8, AppliedAt
  <2>2. f.type \in {"DATA", "WINDOW_UPDATE", "FIN", "RESET"} BY <1>8, <2>1, Arrives
  <2>3. CASE f.type = "RESET"
    <3>1. t = Dead("reset") BY <1>2, <2>1, <2>3, AppliedFields
    <3> QED BY <1>5, <2>1, <3>1
  <2>4. CASE f.type = "WINDOW_UPDATE"
    <3>1. t.buffered = s.buffered BY <1>2, <2>1, <2>4, AppliedFields
    <3>2. arrived(e, id)' = g + t.buffered BY <2>1 DEF arrived
    <3> HIDE DEF s, g
    <3> QED BY <1>3, <3>1, <3>2
  <2> QED BY <1>8, <2>1, <2>2, <2>3, <2>4
<1>9. CASE Read(e, id)
  <2>1. PICK size \in 1 .. stream[<<e, id>>].buffered : \E t :
           /\ t = consumed(stream[<<e, id>>], size) /\ Becomes(e, id, t)
           /\ got' = [got EXCEPT ![<<e, id>>] = @ + size]
           /\ Send(e, <<Signal("WINDOW_UPDATE", id, size)>>)
    BY <1>9, ReadAt
  <2>2. PICK t : t = consumed(s, size) /\ Becomes(e, id, t) /\ got' = [got EXCEPT ![<<e,
           id>>] = @ + size]
    BY <2>1
  <2>3. got'[<<e, id>>] = g + size
    <3>1. got \in [Ends \X Ids -> Nat] BY <1>1 DEF Base
    <3> QED BY <2>2, <3>1
  <2>4. size \in Nat BY <1>2, <2>1
  <2>5. t.buffered = s.buffered - size BY <1>2, <2>2, <2>4, MovedFields
  <2>6. stream'[<<e, id>>] = t BY <2>2 DEF Becomes
  <2>7. arrived(e, id)' = (g + size) + t.buffered BY <2>3, <2>6 DEF arrived
  <2> HIDE DEF s, g
  <2> QED BY <1>2, <1>3, <2>4, <2>5, <2>7
<1>10. CASE Write(e, id)
  <2>1. PICK n, t :
           /\ n \in 1 .. want[<<e, id>>] /\ n <= stream[<<e, id>>].credit
           /\ t = [stream[<<e, id>>] EXCEPT !.credit = @ - n, !.owed = @ + n] /\ Becomes(e, id, t)
           /\ wrote' = [wrote EXCEPT ![<<e, id>>] = @ + n] /\ want' = [want EXCEPT ![<<e,
                       id>>] = @ - n]
           /\ Send(e, dataFrames(id, wrote[<<e, id>>] + 1, n))
    BY <1>10, WriteAt
  <2>2. n \in Nat
    <3>1. want[<<e, id>>] \in Nat BY <1>1, Facts
    <3> QED BY <2>1, <3>1
  <2>3. t.buffered = s.buffered BY <1>2, <2>1, <2>2, MovedFields
  <2>4. stream'[<<e, id>>] = t /\ got'[<<e, id>>] = g BY <1>10, <2>1 DEF Becomes, Write
  <2>5. arrived(e, id)' = g + t.buffered BY <2>4 DEF arrived
  <2> HIDE DEF s, g
  <2> QED BY <1>3, <2>3, <2>5
<1>11. CASE CloseWrite(e, id)
  <2>1. PICK t : t = [stream[<<e, id>>] EXCEPT !.writeClosed = TRUE] /\ Becomes(e, id,
           t) BY <1>11, CloseAt
  <2>2. t.buffered = s.buffered BY <1>2, <2>1, MovedFields
  <2>3. stream'[<<e, id>>] = t /\ got'[<<e, id>>] = g BY <1>11, <2>1 DEF Becomes, CloseWrite
  <2>4. arrived(e, id)' = g + t.buffered BY <2>3 DEF arrived
  <2> HIDE DEF s, g
  <2> QED BY <1>3, <2>2, <2>4
<1>12. CASE CloseStream(e, id)
  <2>1. PICK t : t = Dead("closed") /\ Becomes(e, id, t) BY <1>12, CloseAt
  <2>2. stream'[<<e, id>>] = Dead("closed") /\ got'[<<e, id>>] = g BY <1>12, <2>1 DEF Becomes,
           CloseStream
  <2> QED BY <1>5, <2>2
<1>13. CASE Gone(e)
  <2>1. PICK t :
                /\ t = Dead("closed")
                /\ \A d \in Ends, i \in Ids :
                     stream'[<<d, i>>] = IF d = e /\ i \in streams[e] THEN t ELSE stream[<<d, i>>]
                /\ \A d \in Ends : streams'[d] = IF d = e THEN {} ELSE streams[d]
                /\ \A d \in Ends : accepted'[d] = IF d = e THEN <<>> ELSE accepted[d]
                /\ \A d \in Ends : err'[d] = IF d = e THEN "closed" ELSE err[d]
                /\ \A d \in Ends : link'[d] = IF d = e THEN <<>> ELSE link[d]
                /\ UNCHANGED <<lastLocal, lastRemote, held, want, wrote, got>>
    BY <1>13, GoneAt
  <2>2. got' = got /\ (stream'[<<e, id>>] = Dead("closed") \/ stream'[<<e, id>>] = s) BY <2>1
  <2>3. CASE stream'[<<e, id>>] = s
    <3>1. arrived(e, id)' = arrived(e, id) BY <2>2, <2>3 DEF arrived
    <3> QED BY <1>3, <3>1
  <2> QED BY <1>5, <2>2, <2>3
<1> QED BY <1>6, <1>7, <1>8, <1>9, <1>10, <1>11, <1>12, <1>13, Turns

\* The bytes of both directions stay within the bound, and no more arrives than was sent.
LEMMA BudgetKept ==
  ASSUME Inv, NEW e \in Ends, Step(e), MuxInv', Base', NEW id \in Ids
  PROVE  Budget(e, id)' /\ Budget(Peer(e), id)'
<1> DEFINE p == Peer(e)
           w == wrote[<<e, id>>]
           n == want[<<e, id>>]
           x == wrote[<<p, id>>]
           y == want[<<p, id>>]
<1>0. p \in Ends /\ Peer(p) = e /\ Peer(e) = p BY PeerIsEnd
<1>1. Apart(p) BY StepIsApart
<1>2. Budget(e, id) /\ Budget(p, id) /\ MuxInv /\ Base BY <1>0 DEF Inv, PerStream
<1>3. /\ w \in Nat /\ n \in Nat /\ x \in Nat /\ y \in Nat
      /\ arrived(e, id) \in Nat /\ arrived(p, id) \in Nat
  BY <1>0, <1>2, Facts
<1>4. w + n + x + y <= MaxBytes /\ arrived(e, id) <= x /\ arrived(p, id) <= w
  BY <1>0, <1>2 DEF Budget
<1>5. wrote'[<<p, id>>] = x /\ want'[<<p, id>>] = y /\ arrived(p, id)' = arrived(p, id)
  BY <1>1 DEF Apart, Same, arrived
<1>t. wrote \in [Ends \X Ids -> Nat] /\ want \in [Ends \X Ids -> Nat] BY <1>2 DEF MuxInv, Shape
<1>6. PICK v, m : /\ wrote'[<<e, id>>] = v /\ want'[<<e, id>>] = m
                  /\ v \in Nat /\ m \in Nat /\ w <= v /\ v + m + x + y <= MaxBytes
  <2>1. CASE wrote' = wrote /\ want' = want BY <1>3, <1>4, <2>1
  <2>2. CASE Write(e, id)
    <3>1. PICK k, t :
           /\ k \in 1 .. want[<<e, id>>] /\ k <= stream[<<e, id>>].credit
           /\ t = [stream[<<e, id>>] EXCEPT !.credit = @ - k, !.owed = @ + k] /\ Becomes(e, id, t)
           /\ wrote' = [wrote EXCEPT ![<<e, id>>] = @ + k] /\ want' = [want EXCEPT ![<<e,
                       id>>] = @ - k]
           /\ Send(e, dataFrames(id, wrote[<<e, id>>] + 1, k))
      BY <2>2, WriteAt
    <3>2. k \in Nat /\ k <= n BY <1>3, <3>1
    <3>3. wrote'[<<e, id>>] = w + k /\ want'[<<e, id>>] = n - k BY <1>t, <3>1
    <3> HIDE DEF w, n, x, y
    <3>4. w + k \in Nat /\ n - k \in Nat /\ w <= w + k /\ (w + k) + (n - k) + x + y <= MaxBytes
      BY <1>3, <1>4, <3>2
    <3> QED BY <3>3, <3>4
  <2>3. ASSUME NEW k \in Ids, Write(e, k), k # id
        PROVE wrote'[<<e, id>>] = w /\ want'[<<e, id>>] = n
    <3>1. PICK c, t :
           /\ c \in 1 .. want[<<e, k>>] /\ c <= stream[<<e, k>>].credit
           /\ t = [stream[<<e, k>>] EXCEPT !.credit = @ - c, !.owed = @ + c] /\ Becomes(e, k, t)
           /\ wrote' = [wrote EXCEPT ![<<e, k>>] = @ + c] /\ want' = [want EXCEPT ![<<e,
                       k>>] = @ - c]
           /\ Send(e, dataFrames(k, wrote[<<e, k>>] + 1, c))
      BY <2>3, WriteAt
    <3> QED BY <1>t, <2>3, <3>1
  <2>4. ASSUME NEW k \in Ids, Waits(e, k)
        PROVE \E m : /\ wrote'[<<e, id>>] = w /\ want'[<<e, id>>] = m
                     /\ m \in Nat /\ w + m + x + y <= MaxBytes
    <3>1. wrote' = wrote
      BY <2>4 DEF Waits, ReadWaits, WriteBegins, WriteWaits, WriteFails, WaitCancelled
    <3>2. \/ want' = want \/ want' = [want EXCEPT ![<<e, k>>] = 0]
          \/ \E m \in 1 .. MaxBytes - wrote[<<e, k>>] - wrote[<<Peer(e), k>>] - want[<<Peer(e),
                   k>>] :
               want' = [want EXCEPT ![<<e, k>>] = m]
      BY <2>4 DEF Waits, ReadWaits, WriteBegins, WriteWaits, WriteFails, WaitCancelled
    <3>3. CASE want' = want \/ want' = [want EXCEPT ![<<e, k>>] = 0]
      <4>1. want'[<<e, id>>] = n \/ want'[<<e, id>>] = 0 BY <1>t, <3>3
      <4> HIDE DEF w, n, x, y
      <4>2. 0 \in Nat /\ w + 0 + x + y <= MaxBytes BY <1>3, <1>4, MuxAssumption
      <4>3. wrote'[<<e, id>>] = w BY <3>1 DEF w
      <4> QED BY <1>3, <1>4, <4>1, <4>2, <4>3
    <3>4. ASSUME NEW m \in 1 .. MaxBytes - wrote[<<e, k>>] - wrote[<<Peer(e),
             k>>] - want[<<Peer(e), k>>],
                 want' = [want EXCEPT ![<<e, k>>] = m]
          PROVE  \E c : /\ wrote'[<<e, id>>] = w /\ want'[<<e, id>>] = c
                        /\ c \in Nat /\ w + c + x + y <= MaxBytes
      <4>1. CASE k # id
        <5>1. want'[<<e, id>>] = n BY <1>t, <3>4, <4>1
        <5> QED BY <1>3, <1>4, <3>1, <5>1
      <4>2. CASE k = id
        <5>1. want'[<<e, id>>] = m BY <1>t, <3>4, <4>2
        <5>2. m \in 1 .. MaxBytes - w - x - y BY <3>4, <4>2
        <5>3. wrote'[<<e, id>>] = w BY <3>1
        <5> HIDE DEF w, n, x, y
        <5>4. m \in Nat /\ w + m + x + y <= MaxBytes BY <1>3, <5>2, MuxAssumption
        <5> QED BY <5>1, <5>3, <5>4
      <4> QED BY <4>1, <4>2
    <3>5. ASSUME want' = want \/ want' = [want EXCEPT ![<<e, k>>] = 0]
          PROVE  \E c : /\ wrote'[<<e, id>>] = w /\ want'[<<e, id>>] = c
                        /\ c \in Nat /\ w + c + x + y <= MaxBytes
      BY <3>3, <3>5
    <3> QED BY <3>2, <3>4, <3>5
  <2>5. CASE ~(\E k \in Ids : Waits(e, k) \/ Write(e, k))
    <3>1. wrote' = wrote /\ want' = want
      BY <2>5 DEF Step, Moves, Open, Accept, Refuses, Admits, Ignores, Applies, Failing, Read,
               CloseWrite, CloseStream
    <3> QED BY <2>1, <3>1
  <2>6. w <= w BY <1>3
  <2> QED BY <1>3, <1>4, <2>2, <2>3, <2>4, <2>5, <2>6
<1>7. arrived(e, id)' <= x
  <2>1. CASE ~(Applies(e) /\ Head(link[e]).id = id /\ Head(link[e]).type \in {"DATA", "FIN"})
    <3>1. arrived(e, id)' <= arrived(e, id) BY <2>1, ArrivedStays
    <3>2. arrived(e, id)' \in Nat
      <4>1. got'[<<e, id>>] \in Nat BY DEF Base
      <4>2. stream'[<<e, id>>] \in Objects BY DEF MuxInv, Shape
      <4>3. stream'[<<e, id>>].buffered \in Nat BY <4>2 DEF Objects, Raw
      <4> QED BY <4>1, <4>3 DEF arrived
    <3> HIDE DEF x
    <3> QED BY <1>3, <1>4, <3>1, <3>2
  <2>2. CASE Applies(e) /\ Head(link[e]).id = id /\ Head(link[e]).type \in {"DATA", "FIN"}
    <3>1. PICK f, t :
                   /\ f = Head(link[e]) /\ f.id = id /\ f \in Frames /\ f.type # "OPEN"
                               /\ f.size \in Nat
                   /\ t = applied(f, stream[<<e, id>>]) /\ stream'[<<e, id>>] = t /\ Becomes(e,
                               id, t)
                   /\ got' = got /\ wrote' = wrote /\ link'[e] = Tail(link[e])
      BY <2>2, AppliedAt
    <3>2. /\ stream[<<e, id>>] \in Objects /\ stream[<<e, id>>].buffered \in Nat /\ got[<<e,
             id>>] \in Nat
      BY <1>2, Facts
    <3>3. arrived(e, id)' = got[<<e, id>>] + t.buffered BY <3>1 DEF arrived
    <3>4. arrived(e, id) = got[<<e, id>>] + stream[<<e, id>>].buffered BY DEF arrived
    <3>5. CASE f.type = "DATA"
      <4>1. t.buffered = stream[<<e, id>>].buffered + f.size BY <3>1, <3>2, <3>5, AppliedFields
      <4>2. arrived(e, id) + f.size <= x BY <2>2, <3>1, <3>5, Arrives
      <4>3. arrived(e, id)' = arrived(e, id) + f.size BY <3>1, <3>2, <3>3, <3>4, <4>1
      <4> QED BY <4>2, <4>3
    <3>6. CASE f.type = "FIN"
      <4>1. t.buffered = stream[<<e, id>>].buffered BY <3>1, <3>2, <3>6, AppliedFields
      <4>2. arrived(e, id)' = arrived(e, id) BY <3>3, <3>4, <4>1
      <4> QED BY <1>4, <4>2
    <3> QED BY <2>2, <3>1, <3>5, <3>6
  <2> QED BY <2>1, <2>2
<1> HIDE DEF p, w, n, x, y
<1>8. arrived(p, id)' <= v BY <1>3, <1>4, <1>5, <1>6
<1>9. v + m + x + y <= MaxBytes /\ x + y + v + m <= MaxBytes BY <1>3, <1>6
<1>10. Budget(e, id)' BY <1>0, <1>5, <1>6, <1>7, <1>9 DEF Budget
<1>11. Budget(p, id)' BY <1>0, <1>5, <1>6, <1>8, <1>9 DEF Budget
<1> QED BY <1>10, <1>11 DEF p

-----------------------------------------------------------------------------
(* The theorems.                                                           *)

\* Every step keeps the invariant.
LEMMA StepKeeps ==
  ASSUME Inv, Next
  PROVE  Inv'
<1>1. PICK e \in Ends : Step(e) BY NextIsStep
<1>2. MuxInv' BY NextKeepsInv DEF Inv
<1>3. Base' BY <1>1, BaseKept
<1>4. PerEnd' BY <1>1, <1>2, PerEndKept
<1>5. ASSUME NEW d \in Ends, NEW id \in Ids
      PROVE  (Known(d, id) /\ Budget(d, id) /\ Whole(d, id) /\ FinOK(d, id) /\ DataOK(d, id)
               /\ CreditOK(d, id))'
  <2>1. d = e \/ d = Peer(e) BY PeerIsEnd
  <2>2. CASE d = e
    <3>1. (Known(e, id) /\ Budget(e, id) /\ Whole(e, id) /\ FinOK(e, id) /\ DataOK(e, id)
             /\ CreditOK(e, id))'
      BY <1>1, <1>2, <1>3, OwnKnown, BudgetKept, OwnWhole, OwnData, OwnCredit
    <3> QED BY <2>2, <3>1
  <2>3. CASE d = Peer(e)
    <3>1. DataOK(Peer(e), id)' BY <1>1, <1>2, <1>3, PeerData, WrittenData, ClosedData
    <3>2. (Known(Peer(e), id) /\ Budget(Peer(e), id) /\ Whole(Peer(e), id) /\ FinOK(Peer(e), id)
             /\ DataOK(Peer(e), id) /\ CreditOK(Peer(e), id))'
      BY <1>1, <1>2, <1>3, <3>1, PeerKnown, BudgetKept, PeerWhole, PeerCredit
    <3> QED BY <2>3, <3>2
  <2> QED BY <2>1, <2>2, <2>3
<1>6. PerStream' BY <1>5 DEF PerStream
<1> QED BY <1>2, <1>3, <1>4, <1>6 DEF Inv

\* And so does stuttering.
LEMMA NextKeeps ==
  ASSUME Inv, [Next]_vars
  PROVE  Inv'
<1>1. CASE Next BY <1>1, StepKeeps
<1>2. CASE UNCHANGED vars
  <2>0. UNCHANGED <<err, lastLocal, lastRemote, streams, stream, accepted, held, listening,
          waiting, want, wrote, got, link, linkUp>>
    BY <1>2 DEF vars
  <2>1. MuxInv' BY NextKeepsInv DEF Inv
  <2>2. Base' BY <2>0 DEF Inv, Base
  <2>3. PerEnd'
    <3>1. ASSUME NEW d \in Ends PROVE (Parity(d) /\ Ended(d) /\ Sent(d) /\ Opens(d))'
      <4>1. Parity(d) /\ Ended(d) /\ Sent(d) /\ Opens(d) BY DEF Inv, PerEnd
      <4> QED BY <2>0, <4>1 DEF Parity, Ended, Sent, Opens
    <3> QED BY <3>1 DEF PerEnd
  <2>4. PerStream'
    <3>1. ASSUME NEW d \in Ends, NEW id \in Ids
          PROVE (Known(d, id) /\ Budget(d, id) /\ Whole(d, id) /\ FinOK(d, id) /\ DataOK(d,
                   id) /\ CreditOK(d, id))'
      <4>1. Known(d, id) /\ Budget(d, id) /\ Whole(d, id) /\ FinOK(d, id) /\ DataOK(d, id)
               /\ CreditOK(d, id)
        BY DEF Inv, PerStream
      <4>2. \A c : knew(c, id)' <=> knew(c, id) BY <2>0, OthersKnow
      <4>3. \A c : Live(c, id)' <=> Live(c, id) BY <2>0, <4>2 DEF Live
      <4>4. \A c : /\ Mute(c, id)' <=> Mute(c, id)
                   /\ Used(c, id)' <=> Used(c, id)
        BY <2>0 DEF Mute, Used
      <4>5. \A c : received(c, id)' = received(c, id) /\ arrived(c, id)' = arrived(c, id)
        BY <2>0 DEF received, arrived
      <4>6. \A c : issued(c, id)' = issued(c, id) BY <2>0, <4>2 DEF issued
      <4>7. Known(d, id)' /\ Budget(d, id)' BY <2>0, <4>1, <4>2, <4>4, <4>5 DEF Known, Budget
      <4>8. Whole(d, id)' /\ FinOK(d, id)' BY <2>0, <4>1, <4>4, <4>5 DEF Whole, Sized, Placed,
               Ring, FinOK
      <4>9. DataOK(d, id)' BY <2>0, <4>1, <4>3, <4>4, <4>5 DEF DataOK
      <4>10. CreditOK(d, id)' BY <2>0, <4>1, <4>3, <4>5, <4>6 DEF CreditOK
      <4> QED BY <4>7, <4>8, <4>9, <4>10
    <3> QED BY <3>1 DEF PerStream
  <2> QED BY <2>1, <2>2, <2>3, <2>4 DEF Inv
<1> QED BY <1>1, <1>2

\* The invariant holds of two fresh muxes.
LEMMA InitHolds ==
  ASSUME Init
  PROVE  Inv
<1>1. MuxInv BY InitMakesInv
<1>2. StreamWindowBytes \in Nat \ {0} /\ MaxBytes \in Nat /\ MaxId \in Nat BY MuxAssumption
<1>3. Base
  <2>1. 0 \in 0 .. MaxId BY <1>2
  <2> QED BY <2>1 DEF Init, Base
<1>4. ASSUME NEW e \in Ends
      PROVE  /\ lastLocal[e] = 0 /\ lastRemote[e] = 0 /\ lastLocal[Peer(e)] = 0 /\ err[e] = ""
             /\ link[e] = <<>> /\ streams[e] = {} /\ accepted[e] = <<>> /\ held[e] = {}
  BY PeerIsEnd DEF Init
<1>5. Len(<<>>) = 0 /\ 1 .. 0 = {} BY EmptySeq
<1>6. ASSUME NEW e \in Ends PROVE Parity(e) /\ Ended(e) /\ Sent(e) /\ Opens(e)
  <2>1. Parity(e) /\ Ended(e)
    <3>0. lastRemote[e] = 0 /\ lastLocal[Peer(e)] = 0 BY <1>4
    <3>1. lastRemote[e] <= lastLocal[Peer(e)] BY ONLY <3>0
    <3>2. Parity(e) BY <1>4, <3>1 DEF Parity
    <3>3. Ended(e) BY <1>4 DEF Ended
    <3> QED BY <3>2, <3>3
  <2>2. Sent(e) BY <1>4, <1>5 DEF Sent
  <2>3. OpenLine(<<>>, e, 0, 0, 0) BY OpenLineEmpty
  <2>4. Opens(e) BY <1>4, <2>3 DEF Opens
  <2> QED BY <2>1, <2>2, <2>4
<1>7. ASSUME NEW e \in Ends, NEW id \in Ids
      PROVE  Known(e, id) /\ Budget(e, id) /\ Whole(e, id) /\ FinOK(e, id) /\ DataOK(e, id)
               /\ CreditOK(e, id)
  <2>0. Peer(e) \in Ends BY PeerIsEnd
  <2>1. /\ stream[<<e, id>>] = Fresh /\ want[<<e, id>>] = 0 /\ wrote[<<e, id>>] = 0 /\ got[<<e,
           id>>] = 0
        /\ want[<<Peer(e), id>>] = 0 /\ wrote[<<Peer(e), id>>] = 0 /\ got[<<Peer(e), id>>] = 0
    BY <2>0 DEF Init
  <2>2. ASSUME NEW c \in Ends PROVE ~knew(c, id)
    <3>1. id \in Nat \ {0} BY FrameFields
    <3>2. lastLocal[c] = 0 /\ lastRemote[c] = 0 BY <1>4
    <3> QED BY <3>1, <3>2 DEF knew
  <2>3. ~Used(e, id) BY <1>4, <1>5 DEF Used
  <2>4. Known(e, id)
    <3>1. id \notin streams[e] BY <1>4
    <3>2. ~(want[<<e, id>>] > 0) BY <2>1
    <3>3. ~knew(e, id) BY <2>2
    <3> QED BY <2>1, <2>3, <3>1, <3>2, <3>3 DEF Known
  <2>5. arrived(e, id) = 0
    <3>1. stream[<<e, id>>].buffered = 0 BY <2>1, FreshFields
    <3>2. got[<<e, id>>] = 0 BY <2>1
    <3>3. got[<<e, id>>] + stream[<<e, id>>].buffered = 0 BY ONLY <3>1, <3>2
    <3> QED BY <3>3 DEF arrived
  <2>6. Budget(e, id) BY <1>2, <2>1, <2>5 DEF Budget
  <2>7. Whole(e, id)
    <3>1. Sound(Fresh, 0) BY FreshFields, BareIsSound
    <3> QED BY <2>1, <3>1 DEF Whole, Sound
  <2>8. FinOK(e, id) BY <2>1, FreshFields DEF FinOK
  <2>9. \A K : NoneOf(<<>>, K, id) BY <1>5 DEF NoneOf
  <2>10. DataLine(<<>>, id, 0, 0) /\ CreditLine(<<>>, id, 0, 0) BY CreditLineEmpty
  <2>11. FinLine(<<>>, id) BY <1>5 DEF FinLine
  <2>12. DataOK(e, id)
    <3>1. link[e] = <<>> BY <1>4
    <3>2. wrote[<<Peer(e), id>>] - got[<<e, id>>] <= StreamWindowBytes BY <1>2, <2>1
    <3>3. DataLine(link[e], id, arrived(e, id), wrote[<<Peer(e), id>>]) BY <2>1, <2>5, <2>10, <3>1
    <3>4. FinLine(link[e], id) /\ NoneOf(link[e], {"FIN"}, id) /\ NoneOf(link[e], {"DATA",
             "FIN"}, id)
      BY <2>9, <2>11, <3>1
    <3> QED BY <3>2, <3>3, <3>4 DEF DataOK
  <2>13. received(e, id) = 0 /\ issued(Peer(e), id) = 0
    <3>1. stream[<<e, id>>].credit = NoWindow BY <2>1, FreshFields
    <3>2. ~knew(Peer(e), id) BY <2>0, <2>2
    <3>3. got[<<Peer(e), id>>] = 0 BY <2>1
    <3>4. got[<<Peer(e), id>>] + 0 = 0 BY ONLY <3>3
    <3> QED BY <3>1, <3>2, <3>4 DEF received, issued
  <2>14. Grants(<<>>, id) BY <1>5 DEF Grants
  <2>15. CreditOK(e, id)
    <3>1. link[e] = <<>> BY <1>4
    <3>2. CreditLine(link[e], id, received(e, id), 0) BY <2>10, <2>13, <3>1
    <3>3. 0 <= StreamWindowBytes + wrote[<<e, id>>] BY <1>2, <2>1
    <3>4. stream[<<e, id>>].credit = NoWindow /\ stream[<<e, id>>].owed = 0 BY <2>1, FreshFields
    <3>5. Grants(link[e], id) /\ wrote[<<e, id>>] = 0 BY <2>1, <2>14, <3>1
    <3>6. \E z : /\ CreditLine(link[e], id, received(e, id), z)
                 /\ z <= StreamWindowBytes + wrote[<<e, id>>]
                 /\ Live(Peer(e), id) => z = issued(Peer(e), id)
      BY <2>13, <3>2, <3>3
    <3> QED BY <3>4, <3>5, <3>6 DEF CreditOK
  <2> QED BY <2>4, <2>6, <2>7, <2>8, <2>12, <2>15
<1> QED BY <1>1, <1>3, <1>6, <1>7 DEF Inv, PerEnd, PerStream

\* Every variable keeps its type: no window, ring index or counter leaves its bounds,
\* whatever the window, the frame size and the number of streams.
THEOREM TypeCorrect == Spec => []TypeOK
<1>1. Inv => TypeOK
  <2> SUFFICES ASSUME Inv PROVE TypeOK OBVIOUS
  <2>1. MuxInv /\ Base BY DEF Inv
  <2>2. /\ streams \in [Ends -> SUBSET Ids] /\ accepted \in [Ends -> Seq(Ids)]
           /\ held \in [Ends -> SUBSET Ids]
        /\ stream \in [Ends \X Ids -> Objects]
        /\ want \in [Ends \X Ids -> Nat] /\ wrote \in [Ends \X Ids -> Nat]
    BY <2>1 DEF MuxInv, Shape
  <2>3. ASSUME NEW e \in Ends, NEW id \in Ids
        PROVE  /\ stream[<<e, id>>] \in Streams
               /\ want[<<e, id>>] \in 0 .. MaxBytes /\ wrote[<<e, id>>] \in 0 .. MaxBytes
               /\ got[<<e, id>>] \in 0 .. MaxBytes
    <3> DEFINE s == stream[<<e, id>>]
    <3>1. Sized(s) /\ Budget(e, id) BY DEF Inv, PerStream, Whole
    <3>2. Peer(e) \in Ends BY PeerIsEnd
    <3>3. /\ s \in Objects /\ s.buffered \in Nat /\ s.pending = s.buffered
          /\ s.available = StreamWindowBytes - s.buffered
          /\ want[<<e, id>>] \in Nat /\ wrote[<<e, id>>] \in Nat /\ got[<<e, id>>] \in Nat
          /\ want[<<Peer(e), id>>] \in Nat /\ wrote[<<Peer(e), id>>] \in Nat
          /\ arrived(e, id) \in Nat /\ got[<<e, id>>] <= arrived(e, id) /\ StreamWindowBytes \in Nat
      BY <2>1, <3>2, Facts
    <3>4. /\ wrote[<<e, id>>] + want[<<e, id>>] + wrote[<<Peer(e), id>>] + want[<<Peer(e),
             id>>] <= MaxBytes
          /\ arrived(e, id) <= wrote[<<Peer(e), id>>]
      BY <3>1 DEF Budget
    <3>5. /\ want[<<e, id>>] \in 0 .. MaxBytes /\ wrote[<<e, id>>] \in 0 .. MaxBytes
          /\ got[<<e, id>>] \in 0 .. MaxBytes
      BY <3>3, <3>4, MuxAssumption
    <3>6. s \in Raw BY <3>3 DEF Objects
    <3>7. s.available \in Nat /\ s.finished \in BOOLEAN /\ s.writeClosed \in BOOLEAN
             /\ s.err \in Causes BY <3>6 DEF Raw
    <3>8. /\ s.available \in 0 .. StreamWindowBytes /\ s.pending \in 0 .. StreamWindowBytes
          /\ s.buffered \in 0 .. StreamWindowBytes
      <4> HIDE DEF s
      <4> QED BY <3>3, <3>7
    <3>9. /\ s.credit \in NoWindow .. StreamWindowBytes /\ s.owed \in 0 .. StreamWindowBytes
          /\ s.queue \in [0 .. StreamWindowBytes - 1 -> 0 .. MaxBytes]
                      /\ s.readIndex \in 0 .. StreamWindowBytes - 1
      BY <3>1 DEF Sized, Placed
    <3> HIDE DEF s
    <3>10. s = [available |-> s.available, pending |-> s.pending, finished |-> s.finished,
             credit |-> s.credit,
                owed |-> s.owed, queue |-> s.queue, readIndex |-> s.readIndex,
                         buffered |-> s.buffered,
                writeClosed |-> s.writeClosed, err |-> s.err]
      BY <3>6 DEF Raw
    <3>11. s \in Streams BY <3>7, <3>8, <3>9, <3>10 DEF Streams, Causes
    <3> QED BY <3>5, <3>11 DEF s
  <2>4. stream \in [Ends \X Ids -> Streams] BY <2>2, <2>3
  <2>5. want \in [Ends \X Ids -> 0 .. MaxBytes]
           /\ wrote \in [Ends \X Ids -> 0 .. MaxBytes] BY <2>2, <2>3
  <2>6. got \in [Ends \X Ids -> 0 .. MaxBytes]
    <3>1. got \in [Ends \X Ids -> Nat] BY <2>1 DEF Base
    <3> QED BY <2>3, <3>1
  <2> QED BY <2>1, <2>2, <2>4, <2>5, <2>6 DEF TypeOK, Base
<1> QED BY <1>1, InitHolds, NextKeeps, PTL DEF Spec

\* Two ends that both run this code never fail each other's mux: every frame that the
\* code sends passes every check of the frame loop (mux.go), in every interleaving of
\* readers, writers, closes and resets.
THEOREM NoProtocolFailureHolds == Spec => []NoProtocolFailure
<1>1. Inv => NoProtocolFailure BY DEF Inv, Base, NoProtocolFailure
<1> QED BY <1>1, InitHolds, NextKeeps, PTL DEF Spec

\* A reader is given the bytes that the other end wrote, in order, without loss or
\* repetition, and sees the end of the stream only after all of them.
THEOREM ReadsInOrderHolds == Spec => []ReadsInOrder
<1>1. Inv => ReadsInOrder
  <2> SUFFICES ASSUME Inv, NEW e \in Ends, NEW id \in Ids
               PROVE  /\ \A i \in 0 .. stream[<<e, id>>].buffered - 1 :
                           stream[<<e, id>>].queue[(stream[<<e,
                                    id>>].readIndex + i) % StreamWindowBytes]
                             = got[<<e, id>>] + 1 + i
                      /\ drained(stream[<<e, id>>]) => got[<<e, id>>] = wrote[<<Peer(e), id>>]
    BY DEF ReadsInOrder
  <2>1. Whole(e, id) /\ FinOK(e, id) /\ MuxInv /\ Base BY DEF Inv, PerStream
  <2>2. ASSUME drained(stream[<<e, id>>]) PROVE got[<<e, id>>] = wrote[<<Peer(e), id>>]
    <3>1. /\ stream[<<e, id>>].pending = stream[<<e, id>>].buffered /\ got[<<e, id>>] \in Nat
      BY <2>1, Facts
    <3>2. stream[<<e, id>>].finished /\ stream[<<e, id>>].buffered = 0 BY <2>2, <3>1 DEF drained
    <3>3. arrived(e, id) = wrote[<<Peer(e), id>>] BY <2>1, <3>2 DEF FinOK
    <3> QED BY <3>1, <3>2, <3>3 DEF arrived
  <2> QED BY <2>1, <2>2 DEF Whole, Ring
<1> QED BY <1>1, InitHolds, NextKeeps, PTL DEF Spec

\* No credit is lost or made up: for every live stream the credit on its way leads from
\* what the writer received to what the reader gave away, and never beyond the window.
\* (CreditConserved states the same as a sum over the frames.)
THEOREM CreditHolds == Spec => [](\A e \in Ends, id \in Ids : CreditOK(e, id))
<1>1. Inv => \A e \in Ends, id \in Ids : CreditOK(e, id) BY DEF Inv, PerStream
<1> QED BY <1>1, InitHolds, NextKeeps, PTL DEF Spec
=============================================================================
