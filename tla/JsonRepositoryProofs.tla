------------------------ MODULE JsonRepositoryProofs ------------------------
(***************************************************************************)
(* saveMany is all or nothing, for every set of records, every batch,      *)
(* however many calls are made at once and whichever storage operation     *)
(* fails: proofs about JsonRepository.                                     *)
(***************************************************************************)
EXTENDS JsonRepository, SequenceTheorems, TLAPS

\* What the proofs ask of the constants: the program has a first version, and
\* a batch writes at least one of the records (saveMany of an empty list makes
\* no storage operation).
Constants == legacyVersion \in Versions /\ Batch \in Seq(Keys) /\ Batch # <<>>

Values == Raw \cup {Missing}
CallRecords ==
  [op : {"none", "get", "save", "saveMany", "remove"}, keys : Seq(Keys),
   undo : Seq(Keys \X Values), stage : {"read", "write", "undo", "done"},
   answer : {"none", "ok", "empty", "refused", "failed"}, before : [Keys -> Values],
   blurred : BOOLEAN]

\* A batch at work that met no storage fault but a failed write, and no other writer.
Clean(r) == r.op = "saveMany" /\ r.stage # "done" /\ ~r.blurred

\* Undoing what is still to be undone leaves every record as it was found: a
\* record not to be undone is as it was, and of the undos of a record the last
\* one writes what was found.
Undoable(r, s) ==
  /\ \A k \in Keys : s[k] = r.before[k] \/ \E i \in DOMAIN r.undo : r.undo[i][1] = k
  /\ \A i \in DOMAIN r.undo :
       \/ r.undo[i][2] = r.before[r.undo[i][1]]
       \/ \E j \in DOMAIN r.undo : j > i /\ r.undo[j][1] = r.undo[i][1]

\* What is not to be written any more is written, and the record about to be
\* written is to be undone.
Written(r, s, c) ==
  /\ r.keys # <<>> /\ Len(r.keys) <= Len(Batch)
  /\ \A i \in 1..Len(r.keys) : r.keys[i] = Batch[Len(Batch) - Len(r.keys) + i]
  /\ \A i \in 1..Len(Batch) - Len(r.keys) : s[Batch[i]].by = c
  /\ r.stage = "write" => r.undo # <<>> /\ r.undo[1][1] = Head(r.keys)

CallOK(r, s, c) ==
  Clean(r) => Undoable(r, s) /\ (r.stage \in {"read", "write"} => Written(r, s, c))

\* The inductive invariant.
IInv ==
  /\ version \in Versions /\ storage \in [Keys -> Values] /\ calls \in [Calls -> CallRecords]
  /\ \A c \in Calls : /\ CallOK(calls[c], storage, c)
                      /\ calls[c].op # "none" /\ calls[c].stage # "done" => calls[c].keys # <<>>

LEMMA IdleTyped == Idle \in CallRecords /\ Idle.stage = "done"
BY DEF Idle, CallRecords, Values

\* It holds at the start.
LEMMA Starts == ASSUME Constants, Init PROVE IInv
<1>1. storage \in [Keys -> Values] BY DEF Init, Constants, Values, Raw
<1>2. calls \in [Calls -> CallRecords] /\ \A c \in Calls : calls[c].stage = "done"
  BY IdleTyped DEF Init
<1> QED BY <1>1, <1>2 DEF IInv, Init, CallOK, Clean

\* A call that is over.
LEMMA DoneTyped ==
  ASSUME IInv, NEW c \in Calls, NEW a \in {"none", "ok", "empty", "refused", "failed"}
  PROVE  Done(c, a) \in CallRecords /\ Done(c, a).stage = "done" /\ Done(c, a).answer = a
         /\ Done(c, a).blurred = calls[c].blurred
BY IdleTyped DEF Done, CallRecords, IInv

\* What a step that writes nothing, for one call, keeps.
LEMMA QuietStep ==
  ASSUME IInv, NEW c \in Calls, NEW r \in CallRecords, calls' = [calls EXCEPT ![c] = r],
         UNCHANGED <<version, storage>>, CallOK(r, storage, c),
         r.op # "none" /\ r.stage # "done" => r.keys # <<>>
  PROVE  IInv' /\ \A d \in Calls : calls'[d] = IF d = c THEN r ELSE calls[d]
<1>1. calls' \in [Calls -> CallRecords] /\ \A d \in Calls : calls'[d] = IF d = c THEN r ELSE calls[d]
  BY DEF IInv
<1>2. \A d \in Calls : CallOK(calls'[d], storage', d) BY <1>1 DEF IInv
<1> QED BY <1>1, <1>2 DEF IInv

\* What a step that writes a record, for one call, keeps: the other calls at work are blurred.
LEMMA WriteStep ==
  ASSUME IInv, NEW c \in Calls, NEW r \in CallRecords, calls' = [Blur(c) EXCEPT ![c] = r],
         version' = version, storage' \in [Keys -> Values], CallOK(r, storage', c),
         r.op # "none" /\ r.stage # "done" => r.keys # <<>>
  PROVE  /\ IInv' /\ calls'[c] = r
         /\ \A d \in Calls : d # c => /\ calls'[d].stage = calls[d].stage
                                      /\ calls'[d].stage # "done" => calls'[d].blurred
<1>1. Blur(c) \in [Calls -> CallRecords]
      /\ \A d \in Calls : /\ Blur(c)[d].stage = calls[d].stage /\ Blur(c)[d].op = calls[d].op
                          /\ Blur(c)[d].keys = calls[d].keys
                          /\ d # c /\ calls[d].stage # "done" => Blur(c)[d].blurred
  BY DEF IInv, Blur, CallRecords
<1>2. calls' \in [Calls -> CallRecords] /\ \A d \in Calls : calls'[d] = IF d = c THEN r ELSE Blur(c)[d]
  BY <1>1
<1>3. \A d \in Calls : d # c => CallOK(calls'[d], storage', d)
  BY <1>1, <1>2 DEF CallOK, Clean
<1> QED BY <1>1, <1>2, <1>3 DEF IInv

\* A read and a finished call write nothing.
LEMMA Finishes ==
  ASSUME IInv, NEW c \in Calls, NEW a \in {"none", "ok", "empty", "refused", "failed"}, Finish(c, a),
         UNCHANGED <<version, storage>>
  PROVE  IInv' /\ \A d \in Calls : calls'[d] = IF d = c THEN Done(c, a) ELSE calls[d]
<1>1. PICK r : r = Done(c, a) OBVIOUS
<1>2. r \in CallRecords /\ r.stage = "done" /\ calls' = [calls EXCEPT ![c] = r]
  BY <1>1, DoneTyped DEF Finish
<1>3. CallOK(r, storage, c) BY <1>2 DEF CallOK, Clean
<1> QED BY <1>1, <1>2, <1>3, QuietStep

\* A step after which no batch is over that was not is no concern of BatchStep.
LEMMA NothingOver ==
  ASSUME \A c \in Calls : calls[c].op = "saveMany" /\ calls[c].stage # "done" => calls'[c].stage # "done"
  PROVE  BatchStep
BY DEF BatchStep

LEMMA AskSteps ==
  ASSUME Constants, IInv, NEW c \in Calls, NEW op \in {"get", "save", "saveMany", "remove"}, Ask(c, op)
  PROVE  IInv' /\ BatchStep
<1>1. PICK ks \in IF op = "saveMany" THEN {Batch} ELSE {<<k>> : k \in Keys} :
        calls' = [calls EXCEPT ![c] = [Idle EXCEPT
          !.op = op, !.keys = ks, !.before = storage,
          !.stage = IF op \in {"get", "saveMany"} THEN "read" ELSE "write"]]
  BY DEF Ask
<1>2. ks \in Seq(Keys) /\ ks # <<>> /\ (op = "saveMany" => ks = Batch)
  <2>1. CASE op = "saveMany" BY <1>1, <2>1 DEF Constants
  <2>2. CASE op # "saveMany"
    <3>1. PICK k \in Keys : ks = <<k>> BY <1>1, <2>2
    <3> QED BY <2>2, <3>1
  <2> QED BY <2>1, <2>2
<1>3. PICK r : r = [Idle EXCEPT !.op = op, !.keys = ks, !.before = storage,
                      !.stage = IF op \in {"get", "saveMany"} THEN "read" ELSE "write"]
  OBVIOUS
<1>4. /\ r.op = op /\ r.keys = ks /\ r.before = storage /\ r.undo = <<>>
      /\ r.stage = IF op \in {"get", "saveMany"} THEN "read" ELSE "write"
      /\ r \in CallRecords
  <2>1. Idle \in CallRecords /\ Idle.undo = <<>> BY IdleTyped DEF Idle
  <2>2. storage \in [Keys -> Values] BY DEF IInv
  <2>3. PICK st \in {"read", "write"} : st = IF op \in {"get", "saveMany"} THEN "read" ELSE "write" OBVIOUS
  <2>4. r = [Idle EXCEPT !.op = op, !.keys = ks, !.before = storage, !.stage = st] BY <1>3, <2>3
  <2> HIDE DEF Values, Idle
  <2>5. r \in CallRecords BY <1>2, <2>1, <2>2, <2>4 DEF CallRecords
  <2>6. /\ r.op = op /\ r.keys = ks /\ r.before = storage /\ r.undo = Idle.undo /\ r.stage = st
    BY <2>1, <2>4 DEF CallRecords
  <2> QED BY <2>1, <2>3, <2>5, <2>6
<1>5. CallOK(r, storage, c)
  <2>1. SUFFICES ASSUME Clean(r) PROVE Undoable(r, storage) /\ Written(r, storage, c)
    BY DEF CallOK
  <2>2. r.keys = Batch /\ r.stage = "read" BY <1>2, <1>4, <2>1 DEF Clean
  <2>3. Undoable(r, storage) BY <1>4 DEF Undoable
  <2>4. Len(Batch) \in Nat BY DEF Constants
  <2>5. Written(r, storage, c) BY <2>2, <2>4 DEF Written, Constants
  <2> QED BY <2>3, <2>5
<1>6. IInv' /\ \A d \in Calls : calls'[d] = IF d = c THEN r ELSE calls[d]
  <2>1. UNCHANGED <<version, storage>> /\ calls' = [calls EXCEPT ![c] = r] BY <1>1, <1>3 DEF Ask
  <2> QED BY <1>2, <1>4, <1>5, <2>1, QuietStep
<1>7. calls[c].op = "none" BY DEF Ask
<1> QED BY <1>6, <1>7, NothingOver

\* What the proofs need of get: it answers, whatever it makes of the record it reads.
Got(c) ==
  /\ calls[c].op = "get" /\ \E a \in {"empty", "ok", "refused"} : Finish(c, a)
  /\ UNCHANGED <<version, storage>>
Move ==
  \/ Install
  \/ \E c \in Calls :
       \/ Got(c) \/ save(c) \/ batchRead(c) \/ batchWrite(c) \/ batchUndo(c)
       \/ \E op \in {"get", "save", "saveMany", "remove"} : Ask(c, op)

LEMMA Moves == Next => Move
<1>1. \A c \in Calls : get(c) => Got(c) BY DEF get, Got
<1> QED BY <1>1 DEF Next, Move

LEMMA GetSteps == ASSUME IInv, NEW c \in Calls, Got(c) PROVE IInv' /\ BatchStep
<1>1. PICK a \in {"none", "ok", "empty", "refused", "failed"} : Finish(c, a) BY DEF Got
<1>2. IInv' /\ \A d \in Calls : calls'[d] = IF d = c THEN Done(c, a) ELSE calls[d]
  BY <1>1, Finishes DEF Got
<1>3. calls[c].op = "get" BY DEF Got
<1> QED BY <1>2, <1>3, NothingOver

LEMMA SaveSteps == ASSUME IInv, NEW c \in Calls, save(c) PROVE IInv' /\ BatchStep
<1>1. calls[c].op \in {"save", "remove"} /\ version' = version BY DEF save
<1>2. CASE Finish(c, "failed") /\ UNCHANGED storage
  <2>1. IInv' /\ \A d \in Calls : calls'[d] = IF d = c THEN Done(c, "failed") ELSE calls[d]
    BY <1>1, <1>2, Finishes
  <2> QED BY <1>1, <2>1, NothingOver
<1>3. CASE ~(Finish(c, "failed") /\ UNCHANGED storage)
  <2>1. PICK k : k = Head(calls[c].keys) OBVIOUS
  <2>2. /\ storage' = [storage EXCEPT ![k] =
                         IF calls[c].op = "save" THEN encodeRepositoryRecord(c) ELSE Missing]
        /\ calls' = [Blur(c) EXCEPT ![c] = Done(c, "ok")]
    BY <1>3, <2>1 DEF save
  <2>3. encodeRepositoryRecord(c) \in Values BY DEF encodeRepositoryRecord, Values, Raw, IInv
  <2>4. storage' \in [Keys -> Values] BY <2>2, <2>3 DEF IInv, Values
  <2>5. PICK r : r = Done(c, "ok") OBVIOUS
  <2>6. r \in CallRecords /\ r.stage = "done" BY <2>5, DoneTyped
  <2>7. CallOK(r, storage', c) BY <2>6 DEF CallOK, Clean
  <2>8. /\ IInv' /\ \A d \in Calls : d # c => calls'[d].stage = calls[d].stage
    BY <1>1, <2>2, <2>4, <2>5, <2>6, <2>7, WriteStep
  <2> QED BY <1>1, <2>8, NothingOver
<1> QED BY <1>2, <1>3

\* What is put in front of the undos keeps the records undoable: either the
\* record was to be undone before, or it is as it was found.
LEMMA UndoAdded ==
  ASSUME NEW V, NEW u \in Seq(Keys \X V), NEW k \in Keys, NEW x \in V
  PROVE  /\ <<<<k, x>>>> \o u \in Seq(Keys \X V) /\ <<<<k, x>>>> \o u # <<>>
         /\ Len(<<<<k, x>>>> \o u) = Len(u) + 1 /\ (<<<<k, x>>>> \o u)[1] = <<k, x>>
         /\ \A i \in 1..Len(u) : (<<<<k, x>>>> \o u)[i + 1] = u[i]
<1>1. <<k, x>> \in Keys \X V OBVIOUS
<1>2. PICK p : p = <<k, x>> OBVIOUS
<1> QED BY <1>1, <1>2

LEMMA ReadSteps == ASSUME IInv, NEW c \in Calls, batchRead(c) PROVE IInv' /\ BatchStep
<1> DEFINE k == Head(calls[c].keys)
<1>1. calls[c] \in CallRecords /\ calls[c].op = "saveMany" /\ calls[c].stage = "read" /\ calls[c].keys # <<>>
  BY DEF IInv, batchRead
<1>2. k \in Keys /\ storage[k] \in Values BY <1>1 DEF IInv, CallRecords
<1>3. PICK x \in Values, b \in BOOLEAN :
        /\ ~b => x = storage[k] /\ ~calls[c].blurred
        /\ calls' = [calls EXCEPT ![c] = [calls[c] EXCEPT !.stage = "write", !.blurred = b,
                                                          !.undo = rollback(c, k, x)]]
  <2>1. CASE calls' = [calls EXCEPT ![c].stage = "write", ![c].undo = rollback(c, k, storage[k])]
    <3>1. calls' = [calls EXCEPT ![c] = [calls[c] EXCEPT !.stage = "write", !.undo = rollback(c, k, storage[k])]]
      BY <2>1 DEF IInv
    <3>2. [calls[c] EXCEPT !.stage = "write", !.undo = rollback(c, k, storage[k])]
            = [calls[c] EXCEPT !.stage = "write", !.blurred = calls[c].blurred,
                               !.undo = rollback(c, k, storage[k])]
      BY <1>1 DEF CallRecords
    <3>3. calls[c].blurred \in BOOLEAN BY <1>1 DEF CallRecords
    <3> QED BY <1>2, <3>1, <3>2, <3>3
  <2>2. CASE calls' = [calls EXCEPT ![c].stage = "write", ![c].blurred = TRUE,
                                    ![c].undo = rollback(c, k, Missing)]
    <3>1. calls' = [calls EXCEPT ![c] = [calls[c] EXCEPT !.stage = "write", !.blurred = TRUE,
                                                         !.undo = rollback(c, k, Missing)]]
      BY <2>2 DEF IInv
    <3> QED BY <3>1 DEF Values
  <2> QED BY <2>1, <2>2 DEF batchRead
<1>4. PICK u : u = rollback(c, k, x) OBVIOUS
<1>5. PICK r : r = [calls[c] EXCEPT !.stage = "write", !.blurred = b, !.undo = u] OBVIOUS
<1>6. PICK w : w = calls[c].undo OBVIOUS
<1>7. /\ w \in Seq(Keys \X Values) /\ u \in Seq(Keys \X Values) /\ u # <<>> /\ Len(u) = Len(w) + 1
      /\ u[1] = <<k, x>> /\ \A i \in 1..Len(w) : u[i + 1] = w[i]
  <2>1. w \in Seq(Keys \X Values) BY <1>1, <1>6 DEF CallRecords
  <2> HIDE DEF Values, k
  <2> QED BY <1>2, <1>4, <1>6, <2>1, UndoAdded DEF rollback
<1>8. /\ r \in CallRecords /\ r.stage = "write" /\ r.undo = u /\ r.op = "saveMany" /\ r.keys = calls[c].keys
      /\ r.before = calls[c].before /\ r.blurred = b
  BY <1>1, <1>5, <1>7 DEF CallRecords
<1>9. CallOK(r, storage, c)
  <2>1. SUFFICES ASSUME Clean(r) PROVE Undoable(r, storage) /\ Written(r, storage, c)
    BY DEF CallOK
  <2>2. ~b /\ x = storage[k] /\ ~calls[c].blurred BY <1>3, <1>8, <2>1 DEF Clean
  <2>3. Undoable(calls[c], storage) /\ Written(calls[c], storage, c)
    BY <1>1, <2>2 DEF IInv, CallOK, Clean
  <2>4. /\ DOMAIN w = 1..Len(w) /\ DOMAIN u = 1..Len(u) /\ Len(w) \in Nat BY <1>7
  <2>5. ASSUME NEW l \in Keys
        PROVE  storage[l] = r.before[l] \/ \E i \in DOMAIN u : u[i][1] = l
    <3>1. CASE storage[l] = calls[c].before[l] BY <1>8, <3>1
    <3>2. CASE \E i \in DOMAIN w : w[i][1] = l
      <4>1. PICK i \in 1..Len(w) : w[i][1] = l BY <2>4, <3>2
      <4>2. i + 1 \in DOMAIN u /\ u[i + 1][1] = l BY <1>7, <2>4, <4>1
      <4> QED BY <4>2
    <3> QED BY <1>6, <2>3, <3>1, <3>2 DEF Undoable
  <2>6. ASSUME NEW i \in DOMAIN u
        PROVE  \/ u[i][2] = r.before[u[i][1]]
               \/ \E j \in DOMAIN u : j > i /\ u[j][1] = u[i][1]
    <3>1. CASE i = 1
      <4>1. u[i][1] = k /\ u[i][2] = storage[k] BY <1>7, <2>2, <3>1
      <4>2. CASE storage[k] = calls[c].before[k] BY <1>8, <4>1, <4>2
      <4>3. CASE \E j \in DOMAIN w : w[j][1] = k
        <5>1. PICK j \in 1..Len(w) : w[j][1] = k BY <2>4, <4>3
        <5>2. j + 1 \in DOMAIN u /\ u[j + 1][1] = k /\ j + 1 > i BY <1>7, <2>4, <3>1, <5>1
        <5> QED BY <4>1, <5>2
      <4> QED BY <1>2, <1>6, <2>3, <4>2, <4>3 DEF Undoable
    <3>2. CASE i # 1
      <4>1. PICK n : n = i - 1 OBVIOUS
      <4>2. n \in DOMAIN w /\ i = n + 1 /\ u[i] = w[n] BY <1>7, <2>4, <3>2, <4>1
      <4>3. CASE w[n][2] = calls[c].before[w[n][1]] BY <1>8, <4>2, <4>3
      <4>4. CASE \E j \in DOMAIN w : j > n /\ w[j][1] = w[n][1]
        <5>1. PICK j \in 1..Len(w) : j > n /\ w[j][1] = w[n][1] BY <2>4, <4>4
        <5>2. j + 1 \in DOMAIN u /\ u[j + 1][1] = u[i][1] /\ j + 1 > i BY <1>7, <2>4, <4>2, <5>1
        <5> QED BY <5>2
      <4> QED BY <1>6, <2>3, <4>2, <4>3, <4>4 DEF Undoable
    <3> QED BY <3>1, <3>2
  <2>7. Undoable(r, storage) BY <1>8, <2>5, <2>6 DEF Undoable
  <2>8. Written(r, storage, c)
    <3>1. r.undo # <<>> /\ r.undo[1][1] = Head(r.keys) BY <1>7, <1>8
    <3> QED BY <1>8, <2>3, <3>1 DEF Written
  <2> QED BY <2>7, <2>8
<1>10. UNCHANGED <<version, storage>> BY DEF batchRead
<1>11. calls' = [calls EXCEPT ![c] = r] BY <1>3, <1>4, <1>5
<1>12. IInv' /\ \A d \in Calls : calls'[d] = IF d = c THEN r ELSE calls[d]
  BY <1>1, <1>8, <1>9, <1>10, <1>11, QuietStep
<1> QED BY <1>8, <1>12, NothingOver

\* A record that is to be undone may be written.
LEMMA UndoableWritten ==
  ASSUME NEW r \in CallRecords, NEW s, NEW t, NEW k, Undoable(r, s),
         \A l \in Keys : l # k => t[l] = s[l], \E i \in DOMAIN r.undo : r.undo[i][1] = k
  PROVE  Undoable(r, t)
BY DEF Undoable

LEMMA UndoableSame ==
  ASSUME NEW r, NEW q, NEW s, Undoable(r, s), q.undo = r.undo, q.before = r.before
  PROVE  Undoable(q, s)
BY DEF Undoable

LEMMA WriteSteps == ASSUME Constants, IInv, NEW c \in Calls, batchWrite(c) PROVE IInv' /\ BatchStep
<1> DEFINE ks == calls[c].keys
<1>1. calls[c] \in CallRecords /\ calls[c].op = "saveMany" /\ calls[c].stage = "write" /\ ks # <<>>
  BY DEF IInv, batchWrite
<1>2. ks \in Seq(Keys) /\ Head(ks) \in Keys /\ version' = version /\ Head(ks) = ks[1] /\ Len(ks) \in Nat /\ Len(ks) >= 1
  BY <1>1 DEF CallRecords, batchWrite
<1>3. CASE calls' = [calls EXCEPT ![c].stage = "undo"] /\ UNCHANGED storage
  <2>1. PICK r : r = [calls[c] EXCEPT !.stage = "undo"] OBVIOUS
  <2>2. calls' = [calls EXCEPT ![c] = r] BY <1>3, <2>1 DEF IInv
  <2>3. /\ r \in CallRecords /\ r.stage = "undo" /\ r.op = "saveMany" /\ r.blurred = calls[c].blurred
        /\ r.undo = calls[c].undo /\ r.before = calls[c].before /\ r.keys = ks
    BY <1>1, <2>1 DEF CallRecords
  <2>4. CallOK(r, storage, c)
    <3>1. Clean(r) => Clean(calls[c]) BY <1>1, <2>3 DEF Clean
    <3>2. Clean(r) => Undoable(r, storage) BY <2>3, <3>1, UndoableSame DEF IInv, CallOK
    <3> QED BY <2>3, <3>2 DEF CallOK
  <2>5. IInv' /\ \A d \in Calls : calls'[d] = IF d = c THEN r ELSE calls[d]
    BY <1>1, <1>2, <1>3, <2>2, <2>3, <2>4, QuietStep
  <2> QED BY <2>3, <2>5, NothingOver
<1>4. CASE ~(calls' = [calls EXCEPT ![c].stage = "undo"] /\ UNCHANGED storage)
  <2>1. PICK k : k = Head(ks) OBVIOUS
  <2>2. /\ storage' = [storage EXCEPT ![k] = encodeRepositoryRecord(c)]
        /\ IF Tail(ks) = <<>>
           THEN calls' = [Blur(c) EXCEPT ![c] = Done(c, "ok")]
           ELSE calls' = [Blur(c) EXCEPT ![c].stage = "read", ![c].keys = Tail(@)]
    BY <1>4, <2>1 DEF batchWrite
  <2>3. encodeRepositoryRecord(c) \in Values /\ encodeRepositoryRecord(c).by = c
    BY DEF encodeRepositoryRecord, Values, Raw, IInv
  <2>4. /\ storage' \in [Keys -> Values] /\ storage'[k].by = c
        /\ \A l \in Keys : l # k => storage'[l] = storage[l]
    BY <1>2, <2>1, <2>2, <2>3 DEF IInv
  <2>5. Clean(calls[c]) => Undoable(calls[c], storage) /\ Written(calls[c], storage, c)
    BY <1>1 DEF IInv, CallOK
  <2>6. Len(Batch) \in Nat /\ DOMAIN Batch = 1..Len(Batch) /\ \A i \in 1..Len(Batch) : Batch[i] \in Keys
    BY DEF Constants
  <2>7. ASSUME Clean(calls[c])
        PROVE  /\ Len(ks) <= Len(Batch)
               /\ \A i \in 1..Len(Batch) - Len(ks) + 1 : storage'[Batch[i]].by = c
    <3>1. Written(calls[c], storage, c) BY <2>5, <2>7
    <3>2. Len(ks) <= Len(Batch) /\ Head(ks) = Batch[Len(Batch) - Len(ks) + 1]
      <4>1. 1 \in 1..Len(ks) BY <1>2
      <4> HIDE DEF ks
      <4>2. \A i \in 1..Len(ks) : ks[i] = Batch[Len(Batch) - Len(ks) + i] BY <3>1 DEF Written, ks
      <4>3. ks[1] = Batch[Len(Batch) - Len(ks) + 1] BY <4>1, <4>2
      <4>4. Len(ks) <= Len(Batch) BY <3>1 DEF Written, ks
      <4> QED BY <1>2, <4>3, <4>4
    <3>3. ASSUME NEW i \in 1..Len(Batch) - Len(ks) + 1 PROVE storage'[Batch[i]].by = c
      <4>1. i \in 1..Len(Batch) BY <1>2, <2>6, <3>2
      <4>2. CASE Batch[i] = k BY <2>4, <4>2
      <4>3. CASE Batch[i] # k
        <5>1. i # Len(Batch) - Len(ks) + 1 BY <2>1, <3>2, <4>3
        <5>2. i \in 1..Len(Batch) - Len(ks) BY <1>2, <2>6, <3>2, <5>1
        <5>3. storage[Batch[i]].by = c BY <3>1, <5>2 DEF Written
        <5> QED BY <2>4, <2>6, <4>1, <4>3, <5>3
      <4> QED BY <4>2, <4>3
    <3> QED BY <3>2, <3>3
  <2>8. CASE Tail(ks) = <<>>
    <3>1. PICK r : r = Done(c, "ok") OBVIOUS
    <3>2. /\ r \in CallRecords /\ r.stage = "done" /\ r.answer = "ok" /\ r.blurred = calls[c].blurred
      BY <3>1, DoneTyped
    <3>3. CallOK(r, storage', c) BY <3>2 DEF CallOK, Clean
    <3>4. /\ IInv' /\ calls'[c] = r
          /\ \A d \in Calls : d # c => calls'[d].stage = calls[d].stage
      <4>1. calls' = [Blur(c) EXCEPT ![c] = r] BY <2>2, <2>8, <3>1
      <4>2. version' = version /\ storage' \in [Keys -> Values] BY <1>2, <2>4
      <4> HIDE DEF Values, CallRecords, ks
      <4> QED BY <3>2, <3>3, <4>1, <4>2, WriteStep
    <3>5. Len(ks) = 1
      <4>1. Len(Tail(ks)) = Len(ks) - 1 BY <1>1, <1>2
      <4>2. Len(Tail(ks)) = 0
        <5>1. PICK q : q = Tail(ks) OBVIOUS
        <5>2. q = <<>> BY <2>8, <5>1
        <5>3. Len(q) = 0 BY <5>2
        <5> QED BY <5>1, <5>3, Zenon
      <4> HIDE DEF ks
      <4> QED BY <1>2, <4>1, <4>2
    <3>6. ~r.blurred => \A i \in DOMAIN Batch : storage'[Batch[i]].by = c
      BY <1>1, <2>6, <2>7, <3>2, <3>5 DEF Clean
    <3>7. BatchStep BY <3>2, <3>4, <3>6 DEF BatchStep
    <3> QED BY <3>4, <3>7
  <2>9. CASE Tail(ks) # <<>>
    <3>1. PICK q : q = Tail(ks) OBVIOUS
    <3>2. /\ q \in Seq(Keys) /\ q # <<>> /\ Len(q) = Len(ks) - 1 /\ Len(q) \in Nat
          /\ \A i \in 1..Len(q) : q[i] = ks[i + 1]
      BY <1>1, <1>2, <2>9, <3>1
    <3>3. PICK r : r = [calls[c] EXCEPT !.stage = "read", !.keys = q] OBVIOUS
    <3>4. /\ r \in CallRecords /\ r.stage = "read" /\ r.op = "saveMany" /\ r.blurred = calls[c].blurred
          /\ r.undo = calls[c].undo /\ r.before = calls[c].before /\ r.keys = q
      BY <1>1, <3>2, <3>3 DEF CallRecords
    <3>5. calls' = [Blur(c) EXCEPT ![c] = r]
      <4>1. DOMAIN Blur(c) = Calls /\ Blur(c)[c] = calls[c] BY DEF Blur
      <4>2. calls' = [Blur(c) EXCEPT ![c].stage = "read", ![c].keys = Tail(@)] BY <2>2, <2>9
      <4>3. calls' = [Blur(c) EXCEPT ![c] = [calls[c] EXCEPT !.stage = "read", !.keys = Tail(ks)]]
        BY <1>1, <4>1, <4>2 DEF CallRecords
      <4> QED BY <3>1, <3>3, <4>3
    <3>6. CallOK(r, storage', c)
      <4>1. SUFFICES ASSUME Clean(r) PROVE Undoable(r, storage') /\ Written(r, storage', c) BY DEF CallOK
      <4>2. Clean(calls[c]) BY <1>1, <3>4, <4>1 DEF Clean
      <4>3. calls[c].undo # <<>> /\ calls[c].undo[1][1] = k BY <1>1, <2>1, <2>5, <4>2 DEF Written
      <4>4. 1 \in DOMAIN calls[c].undo
        <5>1. calls[c].undo \in Seq(Keys \X Values) BY <1>1 DEF CallRecords
        <5> HIDE DEF Values
        <5> QED BY <4>3, <5>1
      <4>5. Undoable(calls[c], storage') BY <1>1, <2>4, <2>5, <4>2, <4>3, <4>4, UndoableWritten
      <4>6. Undoable(r, storage') BY <3>4, <4>5, UndoableSame
      <4>7. \A i \in 1..Len(q) : q[i] = Batch[Len(Batch) - Len(q) + i]
        <5> TAKE i \in 1..Len(q)
        <5>1. /\ i + 1 \in 1..Len(ks) /\ q[i] = ks[i + 1]
              /\ Len(Batch) - Len(ks) + (i + 1) = Len(Batch) - Len(q) + i
          BY <1>2, <2>6, <3>2
        <5>2. ks[i + 1] = Batch[Len(Batch) - Len(ks) + (i + 1)] BY <2>5, <4>2, <5>1 DEF Written
        <5> QED BY <5>1, <5>2
      <4>8. Len(q) <= Len(Batch) /\ Len(Batch) - Len(q) = Len(Batch) - Len(ks) + 1 BY <1>2, <2>6, <2>7, <3>2, <4>2
      <4>9. Written(r, storage', c) BY <2>7, <3>2, <3>4, <4>2, <4>7, <4>8 DEF Written
      <4> QED BY <4>6, <4>9
    <3>7. /\ IInv' /\ calls'[c] = r /\ \A d \in Calls : d # c => calls'[d].stage = calls[d].stage
      <4>1. version' = version /\ storage' \in [Keys -> Values] BY <1>2, <2>4
      <4> HIDE DEF Values, CallRecords, ks
      <4> QED BY <3>2, <3>4, <3>5, <3>6, <4>1, WriteStep
    <3> QED BY <3>4, <3>7, NothingOver
  <2> QED BY <2>8, <2>9
<1> QED BY <1>3, <1>4

LEMMA UndoSteps == ASSUME IInv, NEW c \in Calls, batchUndo(c) PROVE IInv' /\ BatchStep
<1> DEFINE u == calls[c].undo
<1>1. calls[c] \in CallRecords /\ calls[c].op = "saveMany" /\ calls[c].stage = "undo" /\ calls[c].keys # <<>>
  BY DEF IInv, batchUndo
<1>2. /\ u \in Seq(Keys \X Values) /\ calls[c].before \in [Keys -> Values] /\ version' = version
      /\ calls[c].blurred \in BOOLEAN
  BY <1>1 DEF CallRecords, batchUndo
<1>3. Clean(calls[c]) => Undoable(calls[c], storage) BY DEF IInv, CallOK
<1>4. CASE u = <<>>
  <2>1. Finish(c, "failed") /\ UNCHANGED storage BY <1>4 DEF batchUndo
  <2>2. IInv' /\ \A d \in Calls : calls'[d] = IF d = c THEN Done(c, "failed") ELSE calls[d]
    BY <1>2, <2>1, Finishes
  <2>3. PICK r : r = Done(c, "failed") OBVIOUS
  <2>4. r.answer = "failed" /\ r.blurred = calls[c].blurred BY <2>3, DoneTyped
  <2>5. ASSUME ~r.blurred PROVE storage' = calls[c].before
    <3>1. Undoable(calls[c], storage) BY <1>1, <1>3, <2>4, <2>5 DEF Clean
    <3>2. \A k \in Keys : storage[k] = calls[c].before[k] BY <1>4, <3>1 DEF Undoable
    <3> QED BY <1>2, <2>1, <3>2 DEF IInv
  <2>6. BatchStep BY <2>2, <2>3, <2>4, <2>5 DEF BatchStep
  <2> QED BY <2>2, <2>6
<1>5. CASE u # <<>>
  <2>1. PICK q : q = Tail(u) OBVIOUS
  <2>2. PICK k, x : k = u[1][1] /\ x = u[1][2] OBVIOUS
  <2>3. /\ q \in Seq(Keys \X Values) /\ Len(u) \in Nat /\ Len(u) >= 1 /\ DOMAIN u = 1..Len(u)
        /\ Len(q) = Len(u) - 1 /\ DOMAIN q = 1..Len(q) /\ \A i \in 1..Len(q) : q[i] = u[i + 1]
        /\ k \in Keys /\ x \in Values
    <3> HIDE DEF Values, u
    <3>1. u[1] \in Keys \X Values BY <1>2, <1>5
    <3> QED BY <1>2, <1>5, <2>1, <2>2, <3>1
  <2>4. \/ /\ storage' = [storage EXCEPT ![k] = x]
           /\ calls' = [Blur(c) EXCEPT ![c].undo = q]
        \/ /\ calls' = [calls EXCEPT ![c].undo = q, ![c].blurred = TRUE]
           /\ UNCHANGED storage
    BY <1>5, <2>1, <2>2 DEF batchUndo
  <2>5. CASE /\ calls' = [calls EXCEPT ![c].undo = q, ![c].blurred = TRUE]
             /\ UNCHANGED storage
    <3>1. PICK r : r = [calls[c] EXCEPT !.undo = q, !.blurred = TRUE] OBVIOUS
    <3>2. /\ r \in CallRecords /\ r.stage = "undo" /\ r.blurred /\ r.keys = calls[c].keys
      BY <1>1, <2>3, <3>1 DEF CallRecords
    <3>3. calls' = [calls EXCEPT ![c] = r] BY <2>5, <3>1 DEF IInv
    <3>4. CallOK(r, storage, c) BY <3>2 DEF CallOK, Clean
    <3>5. IInv' /\ \A d \in Calls : calls'[d] = IF d = c THEN r ELSE calls[d]
      BY <1>1, <1>2, <2>5, <3>2, <3>3, <3>4, QuietStep
    <3> QED BY <3>2, <3>5, NothingOver
  <2>6. CASE /\ storage' = [storage EXCEPT ![k] = x]
             /\ calls' = [Blur(c) EXCEPT ![c].undo = q]
    <3>1. PICK r : r = [calls[c] EXCEPT !.undo = q] OBVIOUS
    <3>2. /\ r \in CallRecords /\ r.stage = "undo" /\ r.op = "saveMany" /\ r.blurred = calls[c].blurred
          /\ r.undo = q /\ r.before = calls[c].before /\ r.keys = calls[c].keys
      BY <1>1, <2>3, <3>1 DEF CallRecords
    <3>3. calls' = [Blur(c) EXCEPT ![c] = r]
      <4>1. DOMAIN Blur(c) = Calls /\ Blur(c)[c] = calls[c] BY DEF Blur
      <4> QED BY <2>6, <3>1, <4>1
    <3>4. storage' \in [Keys -> Values] /\ storage'[k] = x /\ \A l \in Keys : l # k => storage'[l] = storage[l]
      <4> HIDE DEF Values
      <4> QED BY <2>3, <2>6 DEF IInv
    <3>5. CallOK(r, storage', c)
      <4>1. SUFFICES ASSUME Clean(r) PROVE Undoable(r, storage') BY <3>2 DEF CallOK
      <4>2. Undoable(calls[c], storage) BY <1>1, <1>3, <3>2, <4>1 DEF Clean
      <4>3. ASSUME NEW i \in DOMAIN u, i # 1 PROVE i - 1 \in DOMAIN q /\ q[i - 1] = u[i]
        BY <2>3, <4>3
      <4>4. x = r.before[k] \/ \E i \in DOMAIN q : q[i][1] = k
        <5>1. 1 \in DOMAIN u BY <2>3
        <5>2. CASE u[1][2] = calls[c].before[u[1][1]] BY <2>2, <3>2, <5>2
        <5>3. CASE \E j \in DOMAIN u : j > 1 /\ u[j][1] = u[1][1]
          <6>1. PICK j \in DOMAIN u : j > 1 /\ u[j][1] = u[1][1] BY <5>3
          <6>2. j - 1 \in DOMAIN q /\ q[j - 1] = u[j] BY <2>3, <4>3, <6>1
          <6> QED BY <2>2, <6>1, <6>2
        <5> QED BY <4>2, <5>1, <5>2, <5>3 DEF Undoable
      <4>5. ASSUME NEW l \in Keys PROVE storage'[l] = r.before[l] \/ \E i \in DOMAIN q : q[i][1] = l
        <5>1. CASE l = k BY <3>4, <4>4, <5>1
        <5>2. CASE l # k
          <6>1. CASE storage[l] = calls[c].before[l] BY <3>2, <3>4, <5>2, <6>1
          <6>2. CASE \E i \in DOMAIN u : u[i][1] = l
            <7>1. PICK i \in DOMAIN u : u[i][1] = l BY <6>2
            <7>2. i - 1 \in DOMAIN q /\ q[i - 1] = u[i] BY <2>2, <4>3, <5>2, <7>1
            <7> QED BY <7>1, <7>2
          <6> QED BY <4>2, <6>1, <6>2 DEF Undoable
        <5> QED BY <5>1, <5>2
      <4>6. ASSUME NEW i \in DOMAIN q
            PROVE  \/ q[i][2] = r.before[q[i][1]]
                   \/ \E j \in DOMAIN q : j > i /\ q[j][1] = q[i][1]
        <5>1. i + 1 \in DOMAIN u /\ u[i + 1] = q[i] BY <2>3
        <5>2. CASE u[i + 1][2] = calls[c].before[u[i + 1][1]] BY <3>2, <5>1, <5>2
        <5>3. CASE \E j \in DOMAIN u : j > i + 1 /\ u[j][1] = u[i + 1][1]
          <6>1. PICK j \in DOMAIN u : j > i + 1 /\ u[j][1] = u[i + 1][1] BY <5>3
          <6>2. j # 1 /\ j - 1 > i BY <2>3, <6>1
          <6>3. j - 1 \in DOMAIN q /\ q[j - 1] = u[j] BY <4>3, <6>2
          <6> QED BY <5>1, <6>1, <6>2, <6>3
        <5> QED BY <4>2, <5>1, <5>2, <5>3 DEF Undoable
      <4> QED BY <3>2, <4>5, <4>6 DEF Undoable
    <3>6. /\ IInv' /\ calls'[c] = r /\ \A d \in Calls : d # c => calls'[d].stage = calls[d].stage
      <4>1. version' = version /\ storage' \in [Keys -> Values] /\ r.keys # <<>> BY <1>1, <1>2, <3>2, <3>4
      <4> HIDE DEF Values, CallRecords, u
      <4> QED BY <3>2, <3>3, <3>5, <4>1, WriteStep
    <3> QED BY <3>2, <3>6, NothingOver
  <2> QED BY <2>4, <2>5, <2>6
<1> QED BY <1>4, <1>5

\* Every step keeps the invariant and ends a batch whole or not at all.
LEMMA Steps == ASSUME Constants, IInv, [Move]_vars PROVE IInv' /\ BatchStep
<1>1. CASE Install
  <2>1. /\ \A c \in Calls : calls[c].stage = "done"
        /\ version' \in Versions /\ calls' = [c \in Calls |-> Idle] /\ storage' = storage
    BY <1>1 DEF Install
  <2>2. calls' \in [Calls -> CallRecords] /\ \A c \in Calls : calls'[c].stage = "done"
    BY <2>1, IdleTyped
  <2>3. IInv' BY <2>1, <2>2 DEF IInv, CallOK, Clean
  <2>4. BatchStep BY <2>1 DEF BatchStep
  <2> QED BY <2>3, <2>4
<1>2. CASE UNCHANGED vars
  <2>1. version' = version /\ storage' = storage /\ calls' = calls BY <1>2 DEF vars
  <2>2. IInv' BY <2>1 DEF IInv
  <2>3. BatchStep BY <2>1 DEF BatchStep
  <2> QED BY <2>2, <2>3
<1>3. ASSUME NEW c \in Calls,
             \/ Got(c) \/ save(c) \/ batchRead(c) \/ batchWrite(c) \/ batchUndo(c)
             \/ \E op \in {"get", "save", "saveMany", "remove"} : Ask(c, op)
      PROVE  IInv' /\ BatchStep
  BY <1>3, AskSteps, GetSteps, SaveSteps, ReadSteps, WriteSteps, UndoSteps
<1> QED BY <1>1, <1>2, <1>3 DEF Move

\* saveMany is all or nothing, for every batch, every number of calls made at once and every
\* fault of the storage: answered as failed, with no fault but the write that failed and no
\* other writer meanwhile, it leaves every record as it found it; answered as saved, it wrote
\* them all (runtime.ts applyRepositoryBatch).
THEOREM BatchIsWholeHolds == ASSUME Constants PROVE Spec => BatchIsWhole
<1>1. Init => IInv BY Starts
<1>2. IInv /\ [Next]_vars => IInv' BY Moves, Steps
<1>3. IInv /\ [Next]_vars => [BatchStep]_vars BY Moves, Steps
<1> QED BY <1>1, <1>2, <1>3, PTL DEF Spec, BatchIsWhole
=============================================================================
