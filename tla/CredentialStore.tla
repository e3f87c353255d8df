--------------------------- MODULE CredentialStore ---------------------------
(***************************************************************************)
(* The device credential store of the Electron main process               *)
(* (electron/main/p2p/credentials.ts) for one coordinator.  Five places    *)
(* hold records: three keys of the native secret provider behind dshkerd   *)
(* (the credential, the pending enrollment, the user session) and two      *)
(* legacy safeStorage files (the registration and the session).  Every     *)
(* operation runs alone in the promise chain of #serialize; what it writes *)
(* is a sequence of single-place writes, any of which may fail, and the    *)
(* process may die between two of them.                                    *)
(*                                                                         *)
(* A record's revision is the hash of its bytes, so two revisions are      *)
(* equal exactly when the records are; the model compares the records.     *)
(***************************************************************************)
EXTENDS Naturals, Sequences, FiniteSets

CONSTANTS Requests,   \* enrollment request ids, drawn fresh by the workflow
          Certs,      \* certificates the coordinator may issue
          Tokens      \* login session tokens

VARIABLES
  port,     \* is a core secret port injected (a legacy build has none)
  store,    \* what each of the five places holds
  jobs,     \* the #pending chain: operations queued, the head running
  reply     \* a settled operation whose continuation has not run yet

storeVars == <<port, store, jobs, reply>>

Slots == {"core", "enr", "sess", "file", "sfile"}

\* The places reached through the provider's RPC, and not through a file.
ProviderSlots == {"core", "enr", "sess"}

Absent  == [kind |-> "none"]
Corrupt == [kind |-> "corrupt"]
Pending(r)       == [kind |-> "pending", req |-> r]
Credential(r, c) == [kind |-> "registered", req |-> r, cert |-> c]
Session(t)       == [kind |-> "session", token |-> t]

Records ==
  {Absent, Corrupt} \cup {Pending(r) : r \in Requests}
    \cup {Credential(r, c) : r \in Requests, c \in Certs}
    \cup {Session(t) : t \in Tokens}

Nobody  == "nobody"
Clients == {"enrollment", "device", "login", "restore"}
NoReply == [to |-> Nobody, ok |-> FALSE, value |-> Absent]

Ops == {"load", "prepare", "complete", "replace", "remove",
        "saveSession", "loadSession", "removeSession"}

Writes == [slot : Slots, value : Records]

\* by: whose continuation waits; rec: the record to store; rev: the record the
\* caller last read; ok and value: what the caller will be told.
Job(op, by, rec, rev) ==
  [op |-> op, by |-> by, rec |-> rec, rev |-> rev,
   begun |-> FALSE, plan |-> <<>>, ok |-> FALSE, value |-> Absent]

Jobs == [op : Ops, by : Clients \cup {Nobody}, rec : Records, rev : Records,
         begun : BOOLEAN, plan : Seq(Writes), ok : BOOLEAN, value : Records]

\* No continuation is waiting for the microtask queue.
Settled == reply = NoReply

Busy == jobs # <<>>

Enqueue(job) == jobs' = Append(jobs, job)

(***************************************************************************)
(* Reading.                                                                *)
(***************************************************************************)

\* assertPeerCredential and assertPendingEnrollment: a record no load accepts.
WellFormed(record) == record.kind \in {"pending", "registered"}

\* The routed read: the provider's credential, then its pending enrollment,
\* then whatever the legacy file holds.
Routed ==
  IF port /\ store["core"] # Absent THEN store["core"]
  ELSE IF port /\ store["enr"] # Absent THEN store["enr"]
  ELSE store["file"]

\* The one-shot migration a routed read carries out before it answers.
Migration ==
  IF port /\ store["core"] = Absent /\ store["enr"] = Absent
     /\ WellFormed(store["file"])
  THEN << [slot  |-> IF store["file"].kind = "registered" THEN "core" ELSE "enr",
           value |-> store["file"]],
          [slot |-> "file", value |-> Absent] >>
  ELSE <<>>

\* The persisted login session: the provider's, else the legacy file's.
RoutedSession ==
  IF port /\ store["sess"] # Absent THEN store["sess"] ELSE store["sfile"]

(***************************************************************************)
(* What each operation demands of what it read, and what it then writes.   *)
(***************************************************************************)

Clear(slot)    == [slot |-> slot, value |-> Absent]
Put(slot, rec) == [slot |-> slot, value |-> rec]

\* Publication is exclusive: an enrollment starts only where nothing is stored.
PrepareAdmitted(job) == Routed = Absent

PreparePlan(job) == << Put(IF port THEN "enr" ELSE "file", job.rec) >>

\* The pending key is replaced only by the credential issued for it.
CompleteAdmitted(job) ==
  /\ Routed.kind = "pending"
  /\ Routed = job.rev
  /\ Routed.req = job.rec.req

\* Mutant: the pending record is retired first.
CompletePlanRetiresFirst(job) ==
  IF port THEN << Clear("enr"), Put("core", job.rec), Clear("file") >>
          ELSE << Put("file", job.rec) >>

\* The pending record is retired only after the credential is stored.
CompletePlan(job) ==
  IF port THEN << Put("core", job.rec), Clear("enr"), Clear("file") >>
          ELSE << Put("file", job.rec) >>

\* Mutant: any registration is replaced, whichever record was renewed.
ReplaceAnyRegistration(job) == job.by # Nobody /\ Routed.kind = "registered"

\* Mutant: the renewed credential is written whatever is stored.
ReplaceAsUpsert(job) == job.by # Nobody /\ Routed # Corrupt

\* A renewed certificate replaces the very record it was requested for.
ReplaceAdmitted(job) ==
  /\ job.by # Nobody
  /\ Routed.kind = "registered"
  /\ Routed = job.rev
  /\ Routed.req = job.rec.req

ReplacePlan(job) == << Put(IF port THEN "core" ELSE "file", job.rec) >>

RemoveAdmitted(job) == WellFormed(Routed) /\ Routed = job.rev

RemovePlan(job) ==
  IF port THEN << Clear("core"), Clear("enr"), Clear("sess"),
                  Clear("file"), Clear("sfile") >>
          ELSE << Clear("file"), Clear("sfile") >>

SaveSessionPlan(job) ==
  IF port THEN << Put("sess", job.rec), Clear("sfile") >>
          ELSE << Put("sfile", job.rec) >>

LoadSessionPlan(job) ==
  IF port /\ store["sess"] = Absent /\ store["sfile"] # Absent
  THEN << Put("sess", store["sfile"]), Clear("sfile") >>
  ELSE <<>>

RemoveSessionPlan(job) ==
  IF port THEN << Clear("sess"), Clear("sfile") >> ELSE << Clear("sfile") >>

Admitted(job) ==
  /\ job.op = "load"     => WellFormed(Routed)
  /\ job.op = "prepare"  => PrepareAdmitted(job)
  /\ job.op = "complete" => CompleteAdmitted(job)
  /\ job.op = "replace"  => ReplaceAdmitted(job)
  /\ job.op = "remove"   => RemoveAdmitted(job)

\* Every registration operation migrates first, the refused ones too.
Plan(job) ==
  IF job.op = "load" \/ ~Admitted(job) THEN Migration
  ELSE CASE job.op = "saveSession"   -> SaveSessionPlan(job)
         [] job.op = "loadSession"   -> LoadSessionPlan(job)
         [] job.op = "removeSession" -> RemoveSessionPlan(job)
         [] job.op = "prepare"       -> PreparePlan(job)
         [] job.op = "complete"      -> Migration \o CompletePlan(job)
         [] job.op = "replace"       -> Migration \o ReplacePlan(job)
         [] job.op = "remove"        -> Migration \o RemovePlan(job)

Answer(job) ==
  CASE job.op = "load"        -> Routed
    [] job.op = "loadSession" -> RoutedSession
    [] OTHER                  -> job.rec

(***************************************************************************)
(* The chain.                                                              *)
(***************************************************************************)

\* Settle the head: its caller's continuation is the next thing to run.
Finish(job, ok, value) ==
  /\ jobs' = Tail(jobs)
  /\ reply' = IF job.by = Nobody THEN NoReply
              ELSE [to |-> job.by, ok |-> ok, value |-> value]

\* The head reads what is stored, is refused or admitted, and fixes its writes.
Begin ==
  /\ Settled /\ Busy
  /\ LET job == Head(jobs) IN
       /\ ~job.begun
       /\ IF Plan(job) = <<>>
          THEN Finish(job, Admitted(job), Answer(job))
          ELSE /\ jobs' = [jobs EXCEPT ![1].begun = TRUE, ![1].plan = Plan(job),
                                       ![1].ok = Admitted(job), ![1].value = Answer(job)]
               /\ UNCHANGED reply
  /\ UNCHANGED <<port, store>>

\* The file path of replace asks its caller once more before it renames.
Lapsed(job) == ~port /\ job.op = "replace" /\ job.by = Nobody

\* One write reaches its place, and the last one settles the operation.
Write ==
  /\ Settled /\ Busy
  /\ LET job == Head(jobs) IN
       /\ job.begun
       /\ IF Lapsed(job) THEN Finish(job, FALSE, Absent) /\ UNCHANGED store
          ELSE /\ store' = [store EXCEPT ![Head(job.plan).slot] = Head(job.plan).value]
               /\ IF Len(job.plan) = 1 THEN Finish(job, job.ok, job.value)
                  ELSE /\ jobs' = [jobs EXCEPT ![1].plan = Tail(@)]
                       /\ UNCHANGED reply
  /\ UNCHANGED port

\* A read or a write fails: the operation ends where it is.  A provider call
\* that timed out may have been carried out.
Fail ==
  /\ Settled /\ Busy
  /\ LET job == Head(jobs) IN
       /\ Finish(job, FALSE, Corrupt)
       /\ \/ UNCHANGED store
          \/ /\ job.begun
             /\ Head(job.plan).slot \in ProviderSlots
             /\ store' = [store EXCEPT ![Head(job.plan).slot] = Head(job.plan).value]
  /\ UNCHANGED port

\* A build with or without the port, over a machine whose legacy files, if any,
\* an earlier build left.
StoreInit(legacy, session) ==
  /\ port \in BOOLEAN
  /\ store = [s \in Slots |-> CASE s = "file"  -> legacy
                                [] s = "sfile" -> session
                                [] OTHER       -> Absent]
  /\ jobs = <<>>
  /\ reply = NoReply

StoreTypeOK ==
  /\ port \in BOOLEAN
  /\ store \in [Slots -> Records]
  /\ jobs \in Seq(Jobs)
  /\ reply \in [to : Clients \cup {Nobody}, ok : BOOLEAN, value : Records]
=============================================================================
