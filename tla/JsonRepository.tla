----------------------------- MODULE JsonRepository -----------------------------
(***************************************************************************)
(* The record store of the desktop foundation package                      *)
(* (packages/desktop-foundation/src/runtime.ts createJsonRepository, over  *)
(* storage.ts createBridgeRepositoryStorage, which has no batch of its     *)
(* own): records carry the version of the program that wrote them and are  *)
(* migrated when read; several are written one after the other and undone  *)
(* when one fails.  The repository is one with a version: without one,     *)
(* records are stored and answered as they are, which leaves what Init     *)
(* finds.  The option migrate, a caller's own conversion on every read, is *)
(* left out.                                                               *)
(* Every storage operation is awaited and may fail, so calls interleave.   *)
(***************************************************************************)
EXTENDS Naturals, Sequences, FiniteSets

CONSTANTS
  Keys,        \* the record ids in use
  Batch,       \* the ids saveMany writes, in order
  Calls,       \* the callers; bound: each makes one call per start of the program
  Versions,    \* 1..n: the versions of the program
  migrations,  \* its migrations, <<from, to>>, in the order they are declared
  Missing      \* no record

VARIABLES
  version,   \* the version of the running program
  storage,   \* storage[k]: the raw value, or Missing
  calls      \* calls[c]: the call c is making

vars == <<version, storage, calls>>

legacyVersion == 1

\* A raw value: the version of its envelope (0: written before there was one),
\* the version whose shape the record has (0: none), and who wrote it.
Raw == [envelope : Versions \cup {0}, shape : Versions \cup {0}, by : Calls \cup {0}]
Idle == [op |-> "none", keys |-> <<>>, undo |-> <<>>, stage |-> "done",
         answer |-> "none", before |-> [k \in Keys |-> Missing],
         blurred |-> FALSE]

TypeOK ==
  /\ version \in Versions /\ storage \in [Keys -> Raw \cup {Missing}]
  /\ \A c \in Calls :
       /\ calls[c].op \in {"none", "get", "save", "saveMany", "remove"}
       /\ calls[c].stage \in {"read", "write", "undo", "done"}
       /\ calls[c].answer \in {"none", "ok", "empty", "refused", "failed"}

-----------------------------------------------------------------------------
(* Conversions                                                               *)

encodePlain(c) == [envelope |-> 0, shape |-> version, by |-> c]

encodeRepositoryRecord(c) == [envelope |-> version, shape |-> version, by |-> c]

\* the first migration declared for a version, as find does
migrationFrom(v) == LET is == {i \in DOMAIN migrations : migrations[i][1] = v} IN
  IF is = {} THEN 0 ELSE CHOOSE i \in is : \A j \in is : i <= j

\* the shape a record of shape s, taken to be of version v, is migrated to; 0
\* when the record is newer or the path is missing.  A migration makes sense
\* of records of its own version only.
migrated[v \in Versions, s \in Versions \cup {0}] ==
  LET i == migrationFrom(v) IN
  IF v = version THEN s
  ELSE IF v > version \/ i = 0 THEN 0
  ELSE IF migrations[i][2] <= v \/ migrations[i][2] > version THEN 0
  ELSE migrated[migrations[i][2], IF s = v THEN migrations[i][2] ELSE 0]

decodeRepositoryRecord(raw) ==
  migrated[IF raw.envelope = 0 THEN legacyVersion ELSE raw.envelope, raw.shape]
\* options.validate admits only records of the running program's shape
validate(raw) == decodeRepositoryRecord(raw) = version
\* whether the decoder itself answers, whatever the record holds
readable(raw) ==
  LET v == IF raw.envelope = 0 THEN legacyVersion ELSE raw.envelope IN migrated[v, v] # 0

-----------------------------------------------------------------------------
(* Calls                                                                     *)

Done(c, answer) ==
  [Idle EXCEPT !.op = calls[c].op, !.answer = answer, !.blurred = calls[c].blurred]
Finish(c, answer) == calls' = [calls EXCEPT ![c] = Done(c, answer)]

\* history: another call wrote a record while this one is at work
Blur(c) == [d \in Calls |->
  IF d # c /\ calls[d].stage # "done" THEN [calls[d] EXCEPT !.blurred = TRUE] ELSE calls[d]]

Ask(c, op) ==
  /\ calls[c].op = "none"
  /\ \E ks \in IF op = "saveMany" THEN {Batch} ELSE {<<k>> : k \in Keys} :
       calls' = [calls EXCEPT ![c] = [Idle EXCEPT
         !.op = op, !.keys = ks, !.before = storage,
         !.stage = IF op \in {"get", "saveMany"} THEN "read" ELSE "write"]]
  /\ UNCHANGED <<version, storage>>

\* get: a failed read is answered as a missing record (readStorage's fallback)
get(c) ==
  /\ calls[c].op = "get" /\ calls[c].stage = "read"
  /\ LET raw == storage[Head(calls[c].keys)] IN
     \/ Finish(c, "empty") \* the storage failed, or there is no record
     \/ /\ raw # Missing
        /\ \/ ~readable(raw) /\ Finish(c, "refused")
           \/ readable(raw) /\ Finish(c, IF validate(raw) THEN "ok" ELSE "refused")
  /\ UNCHANGED <<version, storage>>

\* save and remove: one storage operation
save(c) ==
  LET k == Head(calls[c].keys) IN
  /\ calls[c].op \in {"save", "remove"} /\ calls[c].stage = "write"
  /\ \/ /\ storage' = [storage EXCEPT ![k] =
                          IF calls[c].op = "save" THEN encodeRepositoryRecord(c) ELSE Missing]
        /\ calls' = [Blur(c) EXCEPT ![c] = Done(c, "ok")]
     \/ Finish(c, "failed") /\ UNCHANGED storage
  /\ UNCHANGED version

rollbackForgets(c, k, previous) == <<<<k, previous>>>>

\* rollback.unshift: the newest first; a failed undo is skipped.  The record
\* whose write failed is written back too.
rollback(c, k, previous) == <<<<k, previous>>>> \o calls[c].undo

\* applyRepositoryBatch, per record: what was there is read first (a failed
\* read passes for a missing record), then the record is written
batchRead(c) ==
  LET k == Head(calls[c].keys) IN
  /\ calls[c].op = "saveMany" /\ calls[c].stage = "read"
  /\ \/ calls' = [calls EXCEPT ![c].stage = "write",
                               ![c].undo = rollback(c, k, storage[k])]
     \/ /\ storage[k] # Missing
        /\ calls' = [calls EXCEPT ![c].stage = "write", ![c].blurred = TRUE,
                                  ![c].undo = rollback(c, k, Missing)]
  /\ UNCHANGED <<version, storage>>

batchWrite(c) ==
  LET k == Head(calls[c].keys) IN
  /\ calls[c].op = "saveMany" /\ calls[c].stage = "write"
  /\ \/ /\ storage' = [storage EXCEPT ![k] = encodeRepositoryRecord(c)]
        /\ IF Tail(calls[c].keys) = <<>>
           THEN calls' = [Blur(c) EXCEPT ![c] = Done(c, "ok")]
           ELSE calls' = [Blur(c) EXCEPT ![c].stage = "read", ![c].keys = Tail(@)]
     \/ calls' = [calls EXCEPT ![c].stage = "undo"] /\ UNCHANGED storage
  /\ UNCHANGED version

batchUndo(c) ==
  /\ calls[c].op = "saveMany" /\ calls[c].stage = "undo"
  /\ IF calls[c].undo = <<>> THEN Finish(c, "failed") /\ UNCHANGED storage
     ELSE LET k == calls[c].undo[1][1] IN
       /\ \/ /\ storage' = [storage EXCEPT ![k] = calls[c].undo[1][2]]
             /\ calls' = [Blur(c) EXCEPT ![c].undo = Tail(calls[c].undo)]
          \/ /\ calls' = [calls EXCEPT ![c].undo = Tail(calls[c].undo), ![c].blurred = TRUE]
             /\ UNCHANGED storage
  /\ UNCHANGED version

\* another version of the program is installed and started
Install ==
  /\ \A c \in Calls : calls[c].stage = "done"
  /\ version' \in Versions \ {version}
  /\ calls' = [c \in Calls |-> Idle]
  /\ UNCHANGED storage

Init ==
  /\ version \in Versions
  /\ storage \in [Keys -> {Missing, [envelope |-> 0, shape |-> legacyVersion, by |-> 0]}]
  /\ calls = [c \in Calls |-> Idle]

Next ==
  \/ Install
  \/ \E c \in Calls :
       \/ get(c) \/ save(c) \/ batchRead(c) \/ batchWrite(c) \/ batchUndo(c)
       \/ \E op \in {"get", "save", "saveMany", "remove"} : Ask(c, op)

Spec == Init /\ [][Next]_vars

-----------------------------------------------------------------------------
(* Whatever versions of the program wrote and read a record, it is either    *)
(* refused as newer or without a migration path, or every migration it still *)
(* needs is applied to it once, in order, so that get answers a record of    *)
(* the running program's shape (runtime.ts encodeRepositoryRecord,           *)
(* decodeRepositoryRecord).                                                  *)
RecordsAreReadable ==
  \A k \in Keys :
    (storage[k] # Missing /\ readable(storage[k])) => validate(storage[k])

(* saveMany is all or nothing.  Answered as failed, it leaves every record   *)
(* as it found it, and answered as saved it wrote them all - unless a read   *)
(* of what was there failed and passed for a missing record                  *)
(* (storage.ts:23-28), an undo failed and was skipped, or another call wrote *)
(* meanwhile (runtime.ts applyRepositoryBatch).                              *)
BatchStep ==
  \A c \in Calls :
    (/\ calls[c].op = "saveMany" /\ calls[c].stage # "done"
     /\ calls'[c].stage = "done" /\ ~calls'[c].blurred) =>
      IF calls'[c].answer = "failed" THEN storage' = calls[c].before
      ELSE \A i \in DOMAIN Batch : storage'[Batch[i]].by = c
BatchIsWhole == [][BatchStep]_vars
=============================================================================
