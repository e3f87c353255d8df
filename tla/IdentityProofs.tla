----------------------------- MODULE IdentityProofs -----------------------------
(***************************************************************************)
(* Proofs about this machine's identity with one coordinator, for any      *)
(* number of enrollment requests, certificates, account tokens, failures   *)
(* and operations asked for: the places that hold the registration never   *)
(* disagree, a spent enrollment token stays resumable, a removed           *)
(* registration stays removed and a login is not lost.                     *)
(*                                                                         *)
(* The four facts rest on one inductive invariant, IInv.  Its first parts  *)
(* are about the chain of store operations, the middle ones about the      *)
(* writes the running operation still has to do, the last ones about what  *)
(* the clients of the store believe.  A step of PeerIdentity is either a   *)
(* step of the store or one of its clients', which leaves the running      *)
(* operation alone (Aside); each kind has a lemma that says what a step    *)
(* must show, and every action one that shows it.                          *)
(***************************************************************************)
EXTENDS PeerIdentity, SequenceTheorems, TLAPS

\* The places that hold the registration: the core's credential, the enrollment's, the
\* file.
RegSlots == {"core", "enr", "file"}

\* The places that hold the session: the core's and the file.
SessSlots == {"sess", "sfile"}

\* The store operations on the registration.
RegOps == {"load", "prepare", "complete", "replace", "remove"}

\* The positions of the store's operation chain.
Index == 1..Len(jobs)

\* The operation at the head of the chain.
Cur == jobs[1]

\* It has read the places and is writing.
Running == jobs # <<>> /\ Cur.begun

\* What the workflow of enrollment waits for.
Awaited(pc) ==
  CASE pc \in {"inspect", "submitPending", "recover", "leave"} -> "load"
    [] pc \in {"prepare", "joined"} -> "prepare"
    [] pc = "complete" -> "complete"
    [] pc = "removing" -> "remove"
    [] OTHER -> "none"

-----------------------------------------------------------------------------
(* The inductive invariant. *)

\* The type of every variable.
Types ==
  /\ StoreTypeOK
  /\ acct \in Tokens \cup {NoToken}
  /\ tokens \in [Tokens -> {"unused", "valid", "revoked", "expired"}]
  /\ account \in [pc : {"idle", "adopt", "login", "persist", "logout", "read"},
                  tok : Tokens \cup {NoToken}]
  /\ restore \in {"idle", "load", "adopt", "drop"}
  /\ waiting \subseteq AccountOps \cup DeviceOps
  /\ ready \subseteq AccountOps \cup DeviceOps
  /\ enroll \in [pc : {"idle", "inspect", "submitPending", "recover", "leave", "prepare",
                       "joined", "submit", "query", "complete", "leaving", "removing"},
                 req : Requests \cup {0}, rec : Records]
  /\ device \in [pc : {"idle", "load", "certificate", "scope", "scoped", "renewed", "replace",
                       "readback", "restore"},
                 rec : Records, want : Records, tok : Tokens \cup {NoToken},
                 scoped : BOOLEAN, again : BOOLEAN]
  /\ restored \in BOOLEAN
  /\ issued \in [Requests -> Certs \cup {0}]
  /\ consumed \subseteq Requests /\ left \subseteq Requests
  /\ fresh \in [ops : Nat, req : Nat, cert : Nat, tok : Nat, legacy : SUBSET Nat]
  /\ faults \in 0..MaxFaults

\* What an operation of the chain is for: what it carries fits its name, whoever queued it
\* still waits for it, and a session is removed only once nobody holds one the coordinator
\* accepts.
JobShape(j) ==
  /\ j.op = "prepare" => j.rec.kind = "pending"
  /\ j.op \in {"complete", "replace"} => j.rec.kind = "registered"
  /\ j.op = "saveSession" => j.rec.kind = "session"
  /\ j.op = "remove" => j.rev.kind = "registered" /\ j.rev.req \in left
  /\ j.op \in {"prepare", "complete", "remove"} => j.by \in {"enrollment", Nobody}
  /\ j.op = "replace" => j.by \in {"device", Nobody}
  /\ j.op = "saveSession" => j.by \in {"login", Nobody}
  /\ j.op \in {"loadSession", "removeSession"} => j.by \in {"restore", Nobody}
  /\ j.by = "enrollment" => j.op = Awaited(enroll.pc)
  /\ j.by = "login" => j.op = "saveSession" /\ account.pc = "persist" /\ j.rec = Session(account.tok)
  /\ j.by = "restore" => \/ j.op = "loadSession" /\ restore = "load"
                         \/ j.op = "removeSession" /\ restore = "drop"
  /\ j.op = "removeSession" =>
       /\ acct = NoToken /\ account.pc = "idle" /\ ready = {}
       /\ store["sess"].kind = "session" => ~Accepts(store["sess"].token)

\* Every queued operation is one of those.
Shapes == \A i \in Index : JobShape(jobs[i])

\* Only the head has begun; a client has one operation queued (the maintenance may have
\* more), an abandoned one stands before the living, no removal of the session follows an
\* operation that writes one, and an answer waits for nobody still queued.
Order ==
  /\ \A i \in Index : jobs[i].begun => i = 1 /\ Settled
  /\ \A i, k \in Index : i < k =>
       /\ jobs[k].by = Nobody => jobs[i].by = Nobody
       /\ jobs[i].by = jobs[k].by => jobs[i].by \in {Nobody, "device"}
       /\ jobs[k].op = "removeSession" => jobs[i].op \notin {"saveSession", "loadSession"}
  /\ reply.to # Nobody => \A i \in Index : /\ jobs[i].by # Nobody
                                           /\ jobs[i].by = reply.to => reply.to = "device"

\* While a session or an operation past the store holds, no operation queued before a lost
\* helper is left.
NoOrphans ==
  \/ acct # NoToken \/ account.pc # "idle" \/ ready # {}
  \/ enroll.pc \in {"submit", "query", "leaving", "complete", "removing"}
  => \A i \in Index : jobs[i].by # Nobody

\* Each place holds only its kind of record, without the port only the files do, and a
\* damaged file is alone.
Places ==
  /\ \A s \in {"core", "enr"} : store[s].kind \in {"none", "pending", "registered"}
  /\ store["file"].kind \in {"none", "corrupt", "pending", "registered"}
  /\ \A s \in SessSlots : store[s].kind \in {"none", "session"}
  /\ ~port => store["core"] = Absent /\ store["enr"] = Absent /\ store["sess"] = Absent
  /\ store["file"] = Corrupt => store["core"] = Absent /\ store["enr"] = Absent

\* No operation on the registration writes over a damaged file.
Stuck == Running /\ store["file"] = Corrupt => Cur.op \notin RegOps

\* A write of an operation puts the kind of record its place holds.
WriteShape(j, w) ==
  /\ w.slot \in RegSlots => j.op \in RegOps /\ w.value.kind \in {"none", "pending", "registered"}
  /\ w.slot \in SessSlots => w.value.kind \in {"none", "session"}
  /\ w.slot \in SessSlots /\ w.value # Absent => j.op \in {"saveSession", "loadSession"}
  /\ w.slot = "sess" /\ w.value = Absent => j.op \in {"remove", "removeSession"}
  /\ ~port => w.slot \in {"file", "sfile"}

\* The running operation has writes left, and each has that shape.
Planned == Running => Cur.plan # <<>> /\ \A k \in 1..Len(Cur.plan) : WriteShape(Cur, Cur.plan[k])

\* The registration the places, the writes still to come and the answer agree on.
OneReq(q) ==
  /\ \A s \in RegSlots : WellFormed(store[s]) => store[s].req = q
  /\ Running =>
       /\ \A k \in 1..Len(Cur.plan) :
            Cur.plan[k].slot \in RegSlots /\ WellFormed(Cur.plan[k].value) => Cur.plan[k].value.req = q
       /\ Cur.ok /\ Cur.op \in {"load", "prepare"} => WellFormed(Cur.value) /\ Cur.value.req = q

\* There is one such registration.
SameId == \E q \in Requests : OneReq(q)

\* An operation on the registration that neither starts nor ends one.
Keeps(j) == j.op \in RegOps /\ ~(j.ok /\ j.op \in {"prepare", "remove"})

\* An earlier write of the plan fills one of the places.
Covered(p, k, S) == \E i \in 1..Len(p) : i < k /\ p[i].slot \in S /\ p[i].value # Absent

\* No write of the plan empties a place unless a better one holds the registration by then.
KeepsPlan(p) ==
  \A k \in 1..Len(p) : p[k].value = Absent =>
    /\ p[k].slot # "core"
    /\ p[k].slot = "enr" => store["core"] # Absent \/ Covered(p, k, {"core"})
    /\ p[k].slot = "file" =>
         /\ port
         /\ \/ store["core"] # Absent \/ store["enr"] # Absent
            \/ Covered(p, k, {"core", "enr"})

\* Such an operation runs over a registration and its plan keeps it.
Keeping == Running /\ Keeps(Cur) => WellFormed(Routed) /\ KeepsPlan(Cur.plan)

\* A preparation writes its one pending record where nothing was held.
Preparing ==
  Running /\ Cur.op = "prepare" /\ Cur.ok =>
    /\ Cur.plan = <<Put(IF port THEN "enr" ELSE "file", Cur.rec)>>
    /\ Cur.value = Cur.rec
    /\ Routed = Absent

\* A removal runs only for a device the coordinator removed, and fills no place that did
\* not route already.
Removing ==
  Running /\ Cur.op = "remove" /\ Cur.ok =>
    /\ consumed \subseteq left
    /\ \A k \in 1..Len(Cur.plan) : Cur.plan[k].slot \in RegSlots /\ Cur.plan[k].value # Absent =>
         k = 1 /\ WellFormed(Routed)

\* What the operation that stores a session has left to do.
Saving ==
  Running /\ Cur.op = "saveSession" =>
    \/ ~port /\ Cur.plan = <<Put("sfile", Cur.rec)>>
    \/ port /\ Cur.plan = <<Put("sess", Cur.rec), Clear("sfile")>>
    \/ port /\ Cur.plan = <<Clear("sfile")>> /\ store["sess"] = Cur.rec

\* What the operation that moves a session into the core has left to do.
Loading ==
  Running /\ Cur.op = "loadSession" =>
    /\ port /\ Cur.value.kind = "session"
    /\ \/ Cur.plan = <<Put("sess", Cur.value), Clear("sfile")>>
       \/ /\ Cur.plan = <<Clear("sfile")>>
          /\ account.pc = "persist" \/ Cur.by = Nobody \/ store["sess"] \in {Absent, Cur.value}

\* An answer on its way says what is held: to the enrollment which registration, to a login
\* that its session alone is stored, to a restoration the session the core has.
Replies ==
  /\ reply.to = "enrollment" =>
       /\ Awaited(enroll.pc) # "none"
       /\ reply.ok /\ Awaited(enroll.pc) \in {"load", "prepare"} =>
            /\ WellFormed(reply.value) /\ WellFormed(Routed)
            /\ Routed.req = reply.value.req
            /\ Awaited(enroll.pc) = "prepare" => reply.value.kind = "pending"
  /\ reply.to = "login" =>
       /\ account.pc = "persist"
       /\ reply.ok => \A s \in SessSlots : store[s] \in {Absent, Session(account.tok)}
  /\ reply.to = "restore" =>
       /\ restore \in {"load", "drop"}
       /\ restore = "load" /\ reply.ok /\ reply.value.kind = "session" /\ account.pc # "persist" =>
            store["sess"] \in {Absent, reply.value}

\* A step of the enrollment or of the maintenance past its load works on the registration
\* it loaded.
Workflow ==
  /\ enroll.pc \in {"submit", "query", "leaving"} => enroll.req \in Requests
  /\ enroll.pc = "submit" => WellFormed(Routed) /\ Routed.req = enroll.req
  /\ enroll.pc = "leaving" => enroll.rec.kind = "registered" /\ enroll.rec.req = enroll.req
  /\ device.pc \in {"certificate", "scope", "scoped", "renewed"} => device.rec.kind = "registered"
  /\ device.pc = "renewed" => device.want.kind = "registered"

\* Only an operation on the account that found no session logs in or out, and an adoption
\* is of the session that is stored.
Accounts ==
  /\ account.pc \in {"login", "persist", "logout"} => acct = NoToken
  /\ account.pc \in {"adopt", "persist", "read", "logout"} => account.tok \in Tokens
  /\ account.pc = "read" => acct \in {NoToken, account.tok}
  /\ account.pc = "adopt" =>
       /\ restore = "adopt"
       /\ store["sess"] \in {Absent, Session(account.tok)}
       /\ acct \in {NoToken, account.tok} \/ tokens[acct] = "expired"

\* A restoration that meets a session already adopted meets the same one.
Restoring ==
  restore = "load" /\ HasSession =>
    /\ \A s \in SessSlots : store[s] \in {Absent, Session(acct)}
    /\ Running =>
         /\ \A k \in 1..Len(Cur.plan) : Cur.plan[k].slot \in SessSlots =>
              Cur.plan[k].value \in {Absent, Session(acct)}
         /\ Cur.op = "loadSession" => Cur.value \in {Absent, Session(acct)}
    /\ reply.to = "restore" /\ reply.ok => reply.value \in {Absent, Session(acct)}

\* What the bounds must be for a program that enrolls and logs in: numbers from one on.
Constants ==
  /\ Requests \subseteq Nat \ {0} /\ 1 \in Requests
  /\ Certs \subseteq Nat \ {0} /\ 1 \in Certs
  /\ Tokens \subseteq Nat \ {0} /\ 1 \in Tokens
  /\ MaxFaults \in Nat

\* The inductive invariant.
IInv ==
  /\ Types /\ Shapes /\ Order /\ NoOrphans
  /\ Places /\ Stuck /\ Planned /\ SameId /\ Keeping /\ Preparing /\ Removing /\ Saving /\ Loading
  /\ Replies /\ Workflow /\ Accounts /\ Restoring /\ SpentIsResumable

-----------------------------------------------------------------------------
(* Records, the chain and the plans of its operations. *)

\* The forms of records tell their kind and their contents.
LEMMA KindsOfForms ==
  /\ Absent.kind = "none" /\ Corrupt.kind = "corrupt"
  /\ \A r : Pending(r).kind = "pending" /\ Pending(r).req = r
  /\ \A r, c : Credential(r, c).kind = "registered" /\ Credential(r, c).req = r
  /\ \A t : Session(t).kind = "session" /\ Session(t).token = t
BY DEF Absent, Corrupt, Pending, Credential, Session

\* Every form is a record, and a record's kind tells its form.
LEMMA RecordForms ==
  /\ Absent \in Records /\ Corrupt \in Records
  /\ \A r \in Requests : Pending(r) \in Records
  /\ \A r \in Requests, c \in Certs : Credential(r, c) \in Records
  /\ \A t \in Tokens : Session(t) \in Records
  /\ \A x \in Records :
       /\ x.kind \in {"none", "corrupt", "pending", "registered", "session"}
       /\ x.kind = "none" => x = Absent
       /\ x.kind = "corrupt" => x = Corrupt
       /\ x.kind = "pending" => x.req \in Requests
       /\ x.kind = "registered" => x.req \in Requests
       /\ x.kind = "session" => x.token \in Tokens /\ x = Session(x.token)
<1>1. \A x \in Records :
        \/ x = Absent \/ x = Corrupt
        \/ \E r \in Requests : x = Pending(r)
        \/ \E r \in Requests, c \in Certs : x = Credential(r, c)
        \/ \E t \in Tokens : x = Session(t)
  BY DEF Records
<1>2. /\ Absent \in Records /\ Corrupt \in Records
      /\ \A r \in Requests : Pending(r) \in Records
      /\ \A r \in Requests, c \in Certs : Credential(r, c) \in Records
      /\ \A t \in Tokens : Session(t) \in Records
  BY DEF Records
<1> QED BY <1>1, <1>2, KindsOfForms

\* A queued operation has the fields it was queued with and has not begun.
LEMMA JobForm ==
  ASSUME NEW op \in Ops, NEW by \in Clients \cup {Nobody}, NEW rec \in Records, NEW rev \in Records
  PROVE  /\ Job(op, by, rec, rev) \in Jobs
         /\ Job(op, by, rec, rev).op = op /\ Job(op, by, rec, rev).by = by
         /\ Job(op, by, rec, rev).rec = rec /\ Job(op, by, rec, rev).rev = rev
         /\ ~Job(op, by, rec, rev).begun
<1>1. <<>> \in Seq(Writes) OBVIOUS
<1>2. Absent \in Records BY RecordForms
<1> QED BY <1>1, <1>2 DEF Job, Jobs

\* Queueing an operation leaves the others where they were.
LEMMA AppendQueue ==
  ASSUME NEW q \in Seq(Jobs), NEW j \in Jobs
  PROVE  /\ Append(q, j) \in Seq(Jobs) /\ Len(Append(q, j)) = Len(q) + 1
         /\ Len(q) \in Nat
         /\ \A i \in 1..Len(q) : Append(q, j)[i] = q[i]
         /\ Append(q, j)[Len(q) + 1] = j
         /\ Append(q, j) # <<>>
OBVIOUS

\* Dropping the head moves the others one place up.
LEMMA TailQueue ==
  ASSUME NEW S, NEW q \in Seq(S), q # <<>>
  PROVE  /\ Tail(q) \in Seq(S) /\ Len(Tail(q)) = Len(q) - 1 /\ Len(q) \in Nat /\ Len(q) >= 1
         /\ q[1] \in S /\ Head(q) = q[1]
         /\ \A i \in 1..Len(q) - 1 : Tail(q)[i] = q[i + 1]
         /\ \A i \in 1..Len(q) : q[i] \in S
<1>1. Len(q) \in Nat /\ Len(q) >= 1 BY EmptySeq
<1> QED BY <1>1, HeadTailProperties

\* The chain as seen from outside: at most one operation is queued.
Outside ==
  \/ UNCHANGED jobs
  \/ \E j \in Jobs : ~j.begun /\ jobs' = Append(jobs, j)

\* The core writes or forgets the session it shares with main; main stores none meanwhile.
SessionMoves ==
  \/ UNCHANGED store
  \/ \E r \in Records : /\ store' = [store EXCEPT !["sess"] = r]
                        /\ r.kind \in {"none", "session"} /\ (r # Absent => port)
                        /\ ~(Running /\ Cur.op = "saveSession")

\* An operation queued from outside leaves the running one alone.
LEMMA OutsideRuns ==
  ASSUME jobs \in Seq(Jobs), Outside
  PROVE  /\ jobs' \in Seq(Jobs)
         /\ Running' <=> Running
         /\ Running => Cur' = Cur
         /\ Len(jobs) \in Nat /\ Len(jobs') \in Nat /\ Len(jobs) <= Len(jobs')
         /\ \A i \in 1..Len(jobs) : jobs'[i] = jobs[i]
<1>1. CASE UNCHANGED jobs BY <1>1 DEF Running, Cur
<1>2. CASE \E j \in Jobs : ~j.begun /\ jobs' = Append(jobs, j)
  <2>1. PICK j \in Jobs : ~j.begun /\ jobs' = Append(jobs, j) BY <1>2
  <2>2. /\ jobs' \in Seq(Jobs) /\ Len(jobs') = Len(jobs) + 1 /\ Len(jobs) \in Nat
        /\ \A i \in 1..Len(jobs) : jobs'[i] = jobs[i]
        /\ jobs'[Len(jobs) + 1] = j /\ jobs' # <<>>
    BY <2>1, AppendQueue
  <2>3. CASE jobs = <<>>
    <3>1. Len(jobs) = 0 BY <2>3
    <3>2. jobs'[1] = j BY <3>1, <2>2
    <3> QED BY <3>1, <3>2, <2>1, <2>2, <2>3 DEF Running, Cur
  <2>4. CASE jobs # <<>>
    <3>1. Len(jobs) >= 1 BY <2>4, TailQueue
    <3>2. jobs'[1] = jobs[1] BY <3>1, <2>2
    <3> QED BY <3>1, <3>2, <2>2, <2>4 DEF Running, Cur
  <2> QED BY <2>3, <2>4
<1> QED BY <1>1, <1>2 DEF Outside

\* The same operation runs on, over the same registration.
SameRun ==
  /\ UNCHANGED port /\ SessionMoves
  /\ (Running' <=> Running)
  /\ Running => /\ Cur'.op = Cur.op /\ Cur'.rec = Cur.rec /\ Cur'.plan = Cur.plan
                /\ Cur'.ok = Cur.ok /\ Cur'.value = Cur.value

\* The facts about the running operation survive such a step.
LEMMA SameRunKeeps ==
  ASSUME store \in [Slots -> Records], SameRun
  PROVE  /\ Routed' = Routed
         /\ store' \in [Slots -> Records] /\ store'["file"] = store["file"]
         /\ Places => Places'
         /\ Stuck => Stuck'
         /\ Planned => Planned'
         /\ SameId => SameId'
         /\ Keeping => Keeping'
         /\ Preparing => Preparing'
         /\ Saving => Saving'
<1>1. port' = port BY DEF SameRun
<1>2. /\ Running' <=> Running
      /\ Running => /\ Cur'.op = Cur.op /\ Cur'.rec = Cur.rec /\ Cur'.plan = Cur.plan
                    /\ Cur'.ok = Cur.ok /\ Cur'.value = Cur.value
  BY DEF SameRun
<1>3. /\ store' \in [Slots -> Records]
      /\ \A s \in Slots \ {"sess"} : store'[s] = store[s]
      /\ \/ store' = store
         \/ /\ store'["sess"].kind \in {"none", "session"} /\ (~port => store'["sess"] = Absent)
            /\ ~(Running /\ Cur.op = "saveSession")
  BY DEF SameRun, SessionMoves, Slots
<1>4. /\ store'["core"] = store["core"] /\ store'["enr"] = store["enr"]
      /\ store'["file"] = store["file"] /\ store'["sfile"] = store["sfile"]
  BY <1>3 DEF Slots
<1>5. Routed' = Routed BY <1>1, <1>4 DEF Routed
<1>6. Places => Places'
  <2> SUFFICES ASSUME Places PROVE Places' OBVIOUS
  <2>1. store'["sess"].kind \in {"none", "session"} /\ (~port => store'["sess"] = Absent)
    BY <1>3 DEF Places, SessSlots
  <2> QED BY <2>1, <1>1, <1>4 DEF Places, SessSlots
<1>7. Stuck => Stuck' BY <1>2, <1>4 DEF Stuck
<1>8. Planned => Planned' BY <1>1, <1>2 DEF Planned, WriteShape
<1>9. SameId => SameId' BY <1>2, <1>4 DEF SameId, OneReq, RegSlots
<1>10. Keeping => Keeping' BY <1>1, <1>2, <1>4, <1>5 DEF Keeping, KeepsPlan, Keeps, Covered
<1>11. Preparing => Preparing' BY <1>1, <1>2, <1>5 DEF Preparing
<1>12. Saving => Saving' BY <1>1, <1>2, <1>3 DEF Saving
<1> QED BY <1>3, <1>4, <1>5, <1>6, <1>7, <1>8, <1>9, <1>10, <1>11, <1>12

\* Queueing is such a step.
LEMMA OutsideIsSameRun ==
  ASSUME jobs \in Seq(Jobs), Outside, UNCHANGED port, SessionMoves
  PROVE  SameRun
BY OutsideRuns DEF SameRun

\* The registration the store routes to is one a place holds.
LEMMA RoutedIsHeld ==
  /\ \E s \in RegSlots : Routed = store[s]
  /\ \A q : OneReq(q) /\ WellFormed(Routed) => Routed.req = q
  /\ Places /\ Routed = Absent => \A s \in RegSlots : store[s] = Absent
  /\ Places /\ Routed = Corrupt =>
       store["file"] = Corrupt /\ store["core"] = Absent /\ store["enr"] = Absent
BY KindsOfForms DEF Routed, RegSlots, OneReq, Places

\* What a place holds is nothing, damaged, or well-formed.
LEMMA PlaceForms ==
  ASSUME Types, Places
  PROVE  /\ store \in [Slots -> Records]
         /\ \A s \in {"core", "enr"} : store[s] # Absent => WellFormed(store[s])
         /\ store["file"] # Absent /\ store["file"] # Corrupt => WellFormed(store["file"])
<1>1. store \in [Slots -> Records] BY DEF Types, StoreTypeOK
<1>2. \A s \in RegSlots : store[s] \in Records BY <1>1 DEF RegSlots, Slots
<1> QED BY <1>1, <1>2, RecordForms DEF Places, WellFormed, RegSlots

\* The running operation is the head and its writes are writes.
LEMMA PlanForm ==
  ASSUME Types, Running
  PROVE  /\ Cur \in Jobs /\ Cur.plan \in Seq(Writes) /\ Len(jobs) \in Nat /\ Len(jobs) >= 1
         /\ jobs \in Seq(Jobs) /\ Head(jobs) = Cur /\ 1 \in Index
         /\ \A i \in Index : jobs[i] \in Jobs
         /\ Planned => /\ Len(Cur.plan) \in Nat /\ Len(Cur.plan) >= 1
                       /\ Head(Cur.plan) = Cur.plan[1]
                       /\ \A k \in 1..Len(Cur.plan) : Cur.plan[k] \in Writes
<1>1. jobs \in Seq(Jobs) /\ jobs # <<>> BY DEF Types, StoreTypeOK, Running
<1>2. /\ Cur \in Jobs /\ Head(jobs) = Cur /\ Len(jobs) \in Nat /\ Len(jobs) >= 1
      /\ \A i \in Index : jobs[i] \in Jobs
  BY <1>1, TailQueue DEF Cur, Index
<1>3. Cur.plan \in Seq(Writes) BY <1>2 DEF Jobs
<1>4. Planned => Cur.plan # <<>> BY DEF Planned
<1>5. Planned => /\ Len(Cur.plan) \in Nat /\ Len(Cur.plan) >= 1
                 /\ Head(Cur.plan) = Cur.plan[1]
                 /\ \A k \in 1..Len(Cur.plan) : Cur.plan[k] \in Writes
  BY <1>3, <1>4, TailQueue
<1> QED BY <1>1, <1>2, <1>3, <1>5 DEF Index

\* The places after one write of the running operation.
Written == store' = [store EXCEPT ![Cur.plan[1].slot] = Cur.plan[1].value] /\ port' = port

\* The facts the store's own steps rest on.
StoreInv == /\ Types /\ Places /\ Stuck /\ Planned /\ SameId /\ Keeping /\ Preparing /\ Removing

\* The next write of the running operation has its shape.
LEMMA FirstWrite ==
  ASSUME StoreInv, Shapes, Running
  PROVE  /\ Cur.plan[1].slot \in Slots /\ Cur.plan[1].value \in Records
         /\ WriteShape(Cur, Cur.plan[1])
         /\ JobShape(Cur)
         /\ 1 \in 1..Len(Cur.plan)
         /\ Cur.op \in Ops /\ Cur.rec \in Records /\ Cur.value \in Records
<1>1. /\ Cur \in Jobs /\ 1 \in 1..Len(Cur.plan) /\ Cur.plan[1] \in Writes /\ 1 \in Index
  BY PlanForm DEF StoreInv
<1> QED BY <1>1 DEF Writes, Planned, StoreInv, Shapes, Jobs, Cur

\* What is routed after a write.
LEMMA WrittenRouted ==
  ASSUME StoreInv, Shapes, Running, Written
  PROVE  /\ Cur.plan[1].slot \in SessSlots => Routed' = Routed
         /\ Cur.plan[1].slot \in RegSlots /\ Cur.plan[1].value # Absent =>
              WellFormed(Routed') /\ WellFormed(Cur.plan[1].value)
         /\ Keeps(Cur) => WellFormed(Routed')
         /\ Routed = Absent /\ Cur.plan[1].value = Absent => Routed' = Absent
         /\ Cur.op = "prepare" /\ Cur.ok => Routed' = Cur.rec
<1> DEFINE w == Cur.plan[1]
<1>1. /\ w.slot \in Slots /\ w.value \in Records /\ WriteShape(Cur, w) /\ JobShape(Cur)
      /\ 1 \in 1..Len(Cur.plan)
  BY FirstWrite
<1>2. /\ store \in [Slots -> Records]
      /\ \A s \in {"core", "enr"} : store[s] # Absent => WellFormed(store[s])
      /\ store["file"] # Absent /\ store["file"] # Corrupt => WellFormed(store["file"])
  BY PlaceForms DEF StoreInv
<1>3. port' = port /\ \A s \in Slots : store'[s] = IF s = w.slot THEN w.value ELSE store[s]
  BY <1>2, <1>1 DEF Written
<1>4. w.slot \in SessSlots => Routed' = Routed BY <1>3 DEF SessSlots, Routed, Slots
<1>5. ASSUME w.slot \in RegSlots, w.value # Absent
      PROVE  WellFormed(Routed') /\ WellFormed(w.value)
  <2>1. WellFormed(w.value) BY <1>5, <1>1, RecordForms DEF WriteShape, WellFormed
  <2>2. ~port => w.slot = "file" BY <1>5, <1>1 DEF WriteShape, RegSlots
  <2>3. CASE w.slot = "core"
    <3>1. store'["core"] = w.value /\ port BY <2>3, <1>3, <2>2 DEF Slots
    <3> QED BY <3>1, <1>3, <2>1, <1>5 DEF Routed
  <2>4. CASE w.slot = "enr"
    <3>1. store'["enr"] = w.value /\ port /\ store'["core"] = store["core"]
      BY <2>4, <1>3, <2>2 DEF Slots
    <3> QED BY <3>1, <1>2, <1>3, <2>1, <1>5 DEF Routed
  <2>5. CASE w.slot = "file"
    <3>1. store'["file"] = w.value /\ store'["enr"] = store["enr"] /\ store'["core"] = store["core"]
      BY <2>5, <1>3 DEF Slots
    <3> QED BY <3>1, <1>2, <1>3, <2>1, <1>5 DEF Routed
  <2> QED BY <2>1, <2>3, <2>4, <2>5, <1>5 DEF RegSlots
<1>6. ASSUME Keeps(Cur) PROVE WellFormed(Routed')
  <2>1. WellFormed(Routed) BY <1>6 DEF Keeping, KeepsPlan, StoreInv
  <2>2. CASE w.slot \in SessSlots BY <2>2, <2>1, <1>4
  <2>3. CASE w.slot \in RegSlots /\ w.value # Absent BY <2>3, <1>5
  <2>4. CASE w.slot \in RegSlots /\ w.value = Absent
    <3>1. \A S : ~Covered(Cur.plan, 1, S)
      <4>1. Len(Cur.plan) \in Nat BY PlanForm DEF StoreInv
      <4> QED BY <4>1 DEF Covered
    <3>2. /\ w.slot # "core"
          /\ w.slot = "enr" => store["core"] # Absent
          /\ w.slot = "file" => port /\ (store["core"] # Absent \/ store["enr"] # Absent)
      BY <1>6, <1>1, <2>4, <3>1 DEF Keeping, KeepsPlan, StoreInv
    <3>3. CASE w.slot = "enr"
      <4>1. store'["core"] = store["core"] /\ store["core"] # Absent /\ port
        BY <3>3, <3>2, <1>3, <1>1 DEF Slots, WriteShape
      <4> QED BY <4>1, <1>2, <1>3 DEF Routed
    <3>4. CASE w.slot = "file"
      <4>1. store'["core"] = store["core"] /\ store'["enr"] = store["enr"]
        BY <3>4, <1>3 DEF Slots
      <4> QED BY <4>1, <3>4, <3>2, <1>2, <1>3 DEF Routed
    <3> QED BY <3>2, <3>3, <3>4, <2>4 DEF RegSlots
  <2> QED BY <2>2, <2>3, <2>4, <1>1 DEF Slots, SessSlots, RegSlots
<1>7. ASSUME Routed = Absent, w.value = Absent PROVE Routed' = Absent
  <2>1. \A s \in RegSlots : store[s] = Absent BY <1>7, RoutedIsHeld DEF StoreInv
  <2>2. \A s \in RegSlots : store'[s] = Absent BY <2>1, <1>3, <1>7 DEF RegSlots, Slots
  <2> QED BY <2>2 DEF Routed, RegSlots
<1>8. ASSUME Cur.op = "prepare", Cur.ok PROVE Routed' = Cur.rec
  <2>1. /\ w = Put(IF port THEN "enr" ELSE "file", Cur.rec) /\ Routed = Absent
    BY <1>8 DEF Preparing, StoreInv
  <2>2. \A s \in RegSlots : store[s] = Absent BY <2>1, RoutedIsHeld DEF StoreInv
  <2>3. w.value = Cur.rec /\ w.slot = IF port THEN "enr" ELSE "file" BY <2>1 DEF Put
  <2>4. Cur.rec # Absent BY <1>1, <1>8, KindsOfForms DEF JobShape
  <2>5. store'["core"] = Absent /\ store'[w.slot] = Cur.rec
    BY <2>2, <2>3, <1>3 DEF RegSlots, Slots
  <2> QED BY <2>3, <2>4, <2>5, <1>3 DEF Routed
<1> QED BY <1>4, <1>5, <1>6, <1>7, <1>8

\* The places keep their kinds and their one registration after a write.
LEMMA WrittenPlaces ==
  ASSUME StoreInv, Shapes, Running, Written
  PROVE  /\ store' \in [Slots -> Records]
         /\ Places'
         /\ \A q : OneReq(q) => /\ \A s \in RegSlots : WellFormed(store'[s]) => store'[s].req = q
                                /\ WellFormed(Routed') => Routed'.req = q
         /\ \A s \in SessSlots : store'[s] = IF s = Cur.plan[1].slot THEN Cur.plan[1].value ELSE store[s]
<1> DEFINE w == Cur.plan[1]
<1>1. /\ w.slot \in Slots /\ w.value \in Records /\ WriteShape(Cur, w) /\ JobShape(Cur)
      /\ 1 \in 1..Len(Cur.plan)
  BY FirstWrite
<1>2. store \in [Slots -> Records] BY PlaceForms DEF StoreInv
<1>3. port' = port /\ \A s \in Slots : store'[s] = IF s = w.slot THEN w.value ELSE store[s]
  BY <1>2, <1>1 DEF Written
<1>4. store' \in [Slots -> Records] BY <1>1, <1>2 DEF Written
<1>5. Places'
  <2>1. \A s \in {"core", "enr"} : store'[s].kind \in {"none", "pending", "registered"}
    BY <1>1, <1>3 DEF Places, StoreInv, WriteShape, RegSlots, Slots
  <2>2. store'["file"].kind \in {"none", "corrupt", "pending", "registered"}
    BY <1>1, <1>3 DEF Places, StoreInv, WriteShape, RegSlots, Slots
  <2>3. \A s \in SessSlots : store'[s].kind \in {"none", "session"}
    BY <1>1, <1>3 DEF Places, StoreInv, WriteShape, SessSlots, Slots
  <2>4. ~port' => store'["core"] = Absent /\ store'["enr"] = Absent /\ store'["sess"] = Absent
    BY <1>1, <1>3 DEF Places, StoreInv, WriteShape, Slots
  <2>5. ASSUME store'["file"] = Corrupt PROVE store'["core"] = Absent /\ store'["enr"] = Absent
    <3>1. w.slot # "file" BY <2>5, <1>1, <1>3, KindsOfForms DEF WriteShape, RegSlots, Slots
    <3>2. store["file"] = Corrupt BY <3>1, <2>5, <1>3 DEF Slots
    <3>3. Cur.op \notin RegOps BY <3>2 DEF Stuck, StoreInv
    <3>4. w.slot \notin RegSlots BY <3>3, <1>1 DEF WriteShape
    <3> QED BY <3>2, <3>4, <1>3 DEF Places, StoreInv, Slots, RegSlots
  <2> QED BY <2>1, <2>2, <2>3, <2>4, <2>5 DEF Places
<1>6. ASSUME NEW q, OneReq(q) PROVE \A s \in RegSlots : WellFormed(store'[s]) => store'[s].req = q
  <2>1. w.slot \in RegSlots /\ WellFormed(w.value) => w.value.req = q
    BY <1>6, <1>1 DEF OneReq
  <2>2. \A s \in RegSlots : WellFormed(store[s]) => store[s].req = q BY <1>6 DEF OneReq
  <2> QED BY <2>1, <2>2, <1>3 DEF RegSlots, Slots
<1>7. ASSUME NEW q, OneReq(q), WellFormed(Routed') PROVE Routed'.req = q
  <2>1. \A s \in RegSlots : WellFormed(store'[s]) => store'[s].req = q BY <1>6, <1>7
  <2>2. \E s \in RegSlots : Routed' = store'[s] BY DEF Routed, RegSlots
  <2> QED BY <2>1, <2>2, <1>7
<1>8. \A s \in SessSlots : store'[s] = IF s = w.slot THEN w.value ELSE store[s]
  BY <1>3 DEF SessSlots, Slots
<1> QED BY <1>4, <1>5, <1>6, <1>7, <1>8

\* A write loses no registration whose token was spent.
LEMMA WrittenSpent ==
  ASSUME StoreInv, Shapes, Running, Written, SpentIsResumable, UNCHANGED <<consumed, left>>
  PROVE  SpentIsResumable'
<1> SUFFICES ASSUME NEW r \in consumed \ left PROVE WellFormed(Routed') /\ Routed'.req = r
  BY DEF SpentIsResumable
<1>1. WellFormed(Routed) /\ Routed.req = r BY DEF SpentIsResumable
<1>2. PICK q \in Requests : OneReq(q) BY DEF StoreInv, SameId
<1>3. q = r BY <1>1, <1>2, RoutedIsHeld
<1>4. ~(Cur.ok /\ Cur.op = "remove") BY DEF Removing, StoreInv
<1>5. ~(Cur.ok /\ Cur.op = "prepare")
  BY <1>1, KindsOfForms DEF Preparing, StoreInv, WellFormed
<1>6. WellFormed(Routed')
  <2>1. CASE Cur.op \in RegOps BY <2>1, <1>4, <1>5, WrittenRouted DEF Keeps
  <2>2. CASE Cur.op \notin RegOps
    <3>1. Cur.plan[1].slot \in SessSlots
      BY <2>2, FirstWrite DEF WriteShape, Slots, SessSlots, RegSlots
    <3> QED BY <3>1, <1>1, WrittenRouted
  <2> QED BY <2>1, <2>2
<1> QED BY <1>2, <1>3, <1>6, WrittenPlaces

\* A write brings back no registration that was removed.
LEMMA WrittenResurrects ==
  ASSUME StoreInv, Shapes, Running, Written
  PROVE  ResurrectionStep
<1> DEFINE w == Cur.plan[1]
<1>1. /\ w.slot \in Slots /\ w.value \in Records /\ WriteShape(Cur, w) /\ JobShape(Cur)
      /\ 1 \in 1..Len(Cur.plan) /\ Cur.rec \in Records
  BY FirstWrite
<1>2. ASSUME Routed = Absent, Routed' # Absent PROVE Routed'.kind = "pending"
  <2>1. ~WellFormed(Routed) BY <1>2, KindsOfForms DEF WellFormed
  <2>2. w.value # Absent BY <1>2, WrittenRouted
  <2>3. w.slot \in RegSlots BY <1>1, <1>2, WrittenRouted DEF Slots, RegSlots, SessSlots
  <2>4. Cur.op \in RegOps BY <2>3, <1>1 DEF WriteShape
  <2>5. ~(Cur.op = "remove" /\ Cur.ok) BY <2>1, <2>2, <2>3, <1>1 DEF Removing, StoreInv
  <2>6. ~Keeps(Cur) BY <2>1 DEF Keeping, KeepsPlan, StoreInv
  <2>7. Cur.op = "prepare" /\ Cur.ok BY <2>4, <2>5, <2>6 DEF Keeps
  <2> QED BY <2>7, <1>1, WrittenRouted DEF JobShape
<1>3. ASSUME Routed = Corrupt PROVE store'["file"] = Corrupt /\ Routed' = Corrupt
  <2>1. store["file"] = Corrupt BY <1>3, RoutedIsHeld DEF StoreInv
  <2>2. Cur.op \notin RegOps BY <2>1 DEF Stuck, StoreInv
  <2>3. w.slot \in SessSlots BY <2>2, <1>1 DEF WriteShape, Slots, RegSlots, SessSlots
  <2>4. Routed' = Routed BY <2>3, WrittenRouted
  <2>5. store \in [Slots -> Records] BY PlaceForms DEF StoreInv
  <2>6. store'["file"] = store["file"] BY <2>3, <2>5, <1>1 DEF Written, SessSlots, Slots
  <2> QED BY <2>1, <2>4, <2>6, <1>3
<1> QED BY <1>2, <1>3 DEF ResurrectionStep

\* The operation goes on with the writes that are left.
GoesOn == /\ Len(Cur.plan) # 1
          /\ jobs' = [jobs EXCEPT ![1].plan = Tail(@)]

\* The running operation with its next write done is otherwise the same.
LEMMA GoneOn ==
  ASSUME StoreInv, Running, GoesOn
  PROVE  /\ jobs' \in Seq(Jobs) /\ Len(jobs') = Len(jobs) /\ Index' = Index
         /\ Running' /\ Cur' = [Cur EXCEPT !.plan = Tail(Cur.plan)]
         /\ \A i \in Index : i # 1 => jobs'[i] = jobs[i]
         /\ Cur'.op = Cur.op /\ Cur'.by = Cur.by /\ Cur'.rec = Cur.rec /\ Cur'.rev = Cur.rev
         /\ Cur'.ok = Cur.ok /\ Cur'.value = Cur.value /\ Cur'.begun
         /\ Cur'.plan = Tail(Cur.plan) /\ Cur'.plan # <<>>
         /\ Len(Cur'.plan) = Len(Cur.plan) - 1 /\ Len(Cur'.plan) \in Nat /\ Len(Cur'.plan) >= 1
         /\ \A k \in 1..Len(Cur'.plan) : k + 1 \in 1..Len(Cur.plan) /\ Cur'.plan[k] = Cur.plan[k + 1]
<1>1. /\ Cur \in Jobs /\ Cur.plan \in Seq(Writes) /\ jobs \in Seq(Jobs) /\ 1 \in Index
      /\ Len(Cur.plan) \in Nat /\ Len(Cur.plan) >= 1 /\ Len(jobs) \in Nat /\ Len(jobs) >= 1
  BY PlanForm DEF StoreInv
<1>2. Len(Cur.plan) - 1 \in Nat /\ Len(Cur.plan) - 1 >= 1
  <2>1. PICK n \in Nat : n = Len(Cur.plan) BY <1>1
  <2>2. n >= 1 /\ n # 1 BY <2>1, <1>1 DEF GoesOn
  <2>3. n - 1 \in Nat /\ n - 1 >= 1 BY ONLY <2>2, n \in Nat
  <2> QED BY <2>1, <2>3
<1>3. /\ Tail(Cur.plan) \in Seq(Writes) /\ Len(Tail(Cur.plan)) = Len(Cur.plan) - 1
      /\ \A k \in 1..Len(Cur.plan) - 1 : Tail(Cur.plan)[k] = Cur.plan[k + 1]
  BY <1>1, TailQueue DEF StoreInv, Planned
<1>4. PICK c : c = [Cur EXCEPT !.plan = Tail(Cur.plan)] OBVIOUS
<1>5. c \in Jobs BY <1>1, <1>3, <1>4 DEF Jobs
<1>6. jobs' = [jobs EXCEPT ![1] = c] BY <1>1, <1>4 DEF GoesOn, Cur
<1>7. jobs' \in Seq(Jobs) /\ Len(jobs') = Len(jobs) /\ jobs'[1] = c
      /\ \A i \in Index : i # 1 => jobs'[i] = jobs[i]
  BY <1>1, <1>5, <1>6, ExceptSeq DEF Index
<1>8. Cur' = c /\ Index' = Index BY <1>7 DEF Cur, Index
<1>9. /\ c.op = Cur.op /\ c.by = Cur.by /\ c.rec = Cur.rec /\ c.rev = Cur.rev
      /\ c.ok = Cur.ok /\ c.value = Cur.value /\ c.begun = Cur.begun /\ c.plan = Tail(Cur.plan)
  BY <1>1, <1>4 DEF Jobs
<1>10. Tail(Cur.plan) # <<>>
  <2>1. PICK t \in Seq(Writes) : t = Tail(Cur.plan) BY <1>3
  <2>2. PICK n \in Nat : n = Len(Cur.plan) - 1 BY <1>2
  <2>3. Len(t) = n /\ n >= 1 BY <2>1, <2>2, <1>2, <1>3
  <2>4. t # <<>> BY ONLY <2>3, t \in Seq(Writes), n \in Nat
  <2> QED BY <2>1, <2>4
<1>11. jobs' # <<>> BY <1>7, <1>1
<1>12. Running' BY <1>8, <1>9, <1>11 DEF Running
<1>13. \A k \in 1..Len(Cur.plan) - 1 : k + 1 \in 1..Len(Cur.plan) BY <1>1
<1> QED BY <1>2, <1>3, <1>4, <1>7, <1>8, <1>9, <1>10, <1>12, <1>13 DEF Running

\* The facts about the plan hold of the writes left.
LEMMA GoesOnKeeps ==
  ASSUME StoreInv, Shapes, Running, Written, GoesOn, UNCHANGED <<consumed, left>>
  PROVE  Stuck' /\ Planned' /\ SameId' /\ Keeping' /\ Preparing' /\ Removing'
<1> DEFINE w == Cur.plan[1]
<1>1. /\ w.slot \in Slots /\ w.value \in Records /\ WriteShape(Cur, w) /\ JobShape(Cur)
      /\ 1 \in 1..Len(Cur.plan) /\ Cur.rec \in Records
  BY FirstWrite
<1>2. /\ Running' /\ Cur'.op = Cur.op /\ Cur'.by = Cur.by /\ Cur'.ok = Cur.ok
      /\ Cur'.value = Cur.value /\ Cur'.plan # <<>> /\ Len(Cur'.plan) = Len(Cur.plan) - 1
      /\ Len(Cur'.plan) \in Nat
      /\ \A k \in 1..Len(Cur'.plan) : k + 1 \in 1..Len(Cur.plan) /\ Cur'.plan[k] = Cur.plan[k + 1]
  BY GoneOn
<1>3. port' = port /\ store \in [Slots -> Records] BY PlaceForms DEF Written, StoreInv
<1>4. \A s \in Slots : store'[s] = IF s = w.slot THEN w.value ELSE store[s]
  BY <1>1, <1>3 DEF Written
<1>5. Stuck'
  <2> SUFFICES ASSUME store'["file"] = Corrupt PROVE Cur.op \notin RegOps BY <1>2 DEF Stuck
  <2>1. w.slot # "file" BY <1>1, <1>4, KindsOfForms DEF WriteShape, RegSlots, Slots
  <2>2. store["file"] = Corrupt BY <2>1, <1>4 DEF Slots
  <2> QED BY <2>2 DEF Stuck, StoreInv
<1>6. Planned'
  <2> SUFFICES ASSUME NEW k \in 1..Len(Cur'.plan) PROVE WriteShape(Cur, Cur.plan[k])'
    BY <1>2 DEF Planned
  <2>1. k + 1 \in 1..Len(Cur.plan) /\ Cur'.plan[k] = Cur.plan[k + 1] BY <1>2
  <2>2. WriteShape(Cur, Cur.plan[k + 1]) BY <2>1 DEF Planned, StoreInv
  <2> QED BY <2>1, <2>2, <1>2, <1>3 DEF WriteShape
<1>7. SameId'
  <2>1. PICK q \in Requests : OneReq(q) BY DEF StoreInv, SameId
  <2>2. \A s \in RegSlots : WellFormed(store'[s]) => store'[s].req = q BY <2>1, WrittenPlaces
  <2>3. ASSUME NEW k \in 1..Len(Cur'.plan), Cur'.plan[k].slot \in RegSlots,
               WellFormed(Cur'.plan[k].value)
        PROVE  Cur'.plan[k].value.req = q
    <3>1. k + 1 \in 1..Len(Cur.plan) /\ Cur'.plan[k] = Cur.plan[k + 1] BY <1>2
    <3> QED BY <3>1, <2>1, <2>3 DEF OneReq
  <2>4. Cur.ok /\ Cur.op \in {"load", "prepare"} => WellFormed(Cur.value) /\ Cur.value.req = q
    BY <2>1 DEF OneReq
  <2>5. OneReq(q)' BY <2>2, <2>3, <2>4, <1>2 DEF OneReq
  <2> QED BY <2>5 DEF SameId
<1>8. Keeping'
  <2> SUFFICES ASSUME Keeps(Cur)
               PROVE  /\ WellFormed(Routed')
                      /\ \A k \in 1..Len(Cur'.plan) : Cur'.plan[k].value = Absent =>
                           /\ Cur'.plan[k].slot # "core"
                           /\ Cur'.plan[k].slot = "enr" =>
                                store'["core"] # Absent \/ Covered(Cur'.plan, k, {"core"})
                           /\ Cur'.plan[k].slot = "file" =>
                                /\ port'
                                /\ \/ store'["core"] # Absent \/ store'["enr"] # Absent
                                   \/ Covered(Cur'.plan, k, {"core", "enr"})
    BY <1>2 DEF Keeping, KeepsPlan, Keeps
  <2>1. WellFormed(Routed') BY WrittenRouted
  <2> SUFFICES ASSUME NEW k \in 1..Len(Cur'.plan), Cur'.plan[k].value = Absent
               PROVE  /\ Cur'.plan[k].slot # "core"
                      /\ Cur'.plan[k].slot = "enr" =>
                           store'["core"] # Absent \/ Covered(Cur'.plan, k, {"core"})
                      /\ Cur'.plan[k].slot = "file" =>
                           /\ port'
                           /\ \/ store'["core"] # Absent \/ store'["enr"] # Absent
                              \/ Covered(Cur'.plan, k, {"core", "enr"})
    BY <2>1
  <2>2. k + 1 \in 1..Len(Cur.plan) /\ Cur'.plan[k] = Cur.plan[k + 1] /\ k \in Nat BY <1>2
  <2>3. /\ Cur.plan[k + 1].slot # "core"
        /\ Cur.plan[k + 1].slot = "enr" =>
             store["core"] # Absent \/ Covered(Cur.plan, k + 1, {"core"})
        /\ Cur.plan[k + 1].slot = "file" =>
             /\ port
             /\ \/ store["core"] # Absent \/ store["enr"] # Absent
                \/ Covered(Cur.plan, k + 1, {"core", "enr"})
    BY <2>2 DEF Keeping, KeepsPlan, StoreInv
  <2>4. ~(w.slot = "core" /\ w.value = Absent) BY <1>1 DEF Keeping, KeepsPlan, StoreInv
  <2>5. ASSUME w.slot = "enr", w.value = Absent PROVE store["core"] # Absent
    <3>1. ~Covered(Cur.plan, 1, {"core"})
      <4>1. Len(Cur.plan) \in Nat BY PlanForm DEF StoreInv
      <4> QED BY <4>1 DEF Covered
    <3> QED BY <3>1, <2>5, <1>1 DEF Keeping, KeepsPlan, StoreInv
  <2>6. store["core"] # Absent => store'["core"] # Absent BY <2>4, <1>4 DEF Slots
  <2>7. store["enr"] # Absent => store'["core"] # Absent \/ store'["enr"] # Absent
    BY <2>5, <2>6, <1>4 DEF Slots
  <2>8. ASSUME NEW S \in {{"core"}, {"core", "enr"}}, Covered(Cur.plan, k + 1, S)
        PROVE  Covered(Cur'.plan, k, S) \/ \E s \in S : store'[s] # Absent
    <3>1. PICK i \in 1..Len(Cur.plan) :
            i < k + 1 /\ Cur.plan[i].slot \in S /\ Cur.plan[i].value # Absent
      BY <2>8 DEF Covered
    <3>2. CASE i = 1
      <4>1. w.slot \in S /\ w.value # Absent BY <3>1, <3>2
      <4>2. store'[w.slot] = w.value BY <1>1, <1>4
      <4> QED BY <4>1, <4>2
    <3>3. CASE i # 1
      <4>1. PICK m \in Nat : m = Len(Cur.plan) BY PlanForm DEF StoreInv
      <4>2. i \in Nat /\ i <= m /\ i >= 1 BY <3>1, <4>1
      <4>3. /\ i - 1 \in 1..m - 1 /\ i - 1 < k /\ (i - 1) + 1 = i
        BY ONLY <4>2, <3>3, <3>1, <2>2, m \in Nat
      <4>4. i - 1 \in 1..Len(Cur'.plan) BY <4>3, <4>1, <1>2
      <4>5. Cur'.plan[i - 1] = Cur.plan[i] BY <4>4, <4>3, <1>2
      <4> QED BY <4>3, <4>4, <4>5, <3>1 DEF Covered
    <3> QED BY <3>2, <3>3
  <2> QED BY <2>2, <2>3, <2>6, <2>7, <2>8, <1>3
<1>9. Preparing'
  <2>1. ~(Cur.op = "prepare" /\ Cur.ok)
    <3> SUFFICES ASSUME Cur.op = "prepare", Cur.ok PROVE FALSE OBVIOUS
    <3>1. PICK p : p = Put(IF port THEN "enr" ELSE "file", Cur.rec) OBVIOUS
    <3>2. Cur.plan = <<p>> BY <3>1 DEF Preparing, StoreInv
    <3>3. Len(<<p>>) = 1 OBVIOUS
    <3> QED BY <3>2, <3>3 DEF GoesOn
  <2> QED BY <2>1, <1>2 DEF Preparing
<1>10. Removing'
  <2> SUFFICES ASSUME Cur.op = "remove", Cur.ok
               PROVE  /\ consumed \subseteq left
                      /\ \A k \in 1..Len(Cur'.plan) :
                           ~(Cur'.plan[k].slot \in RegSlots /\ Cur'.plan[k].value # Absent)
    BY <1>2 DEF Removing
  <2>1. consumed \subseteq left BY DEF Removing, StoreInv
  <2>2. ASSUME NEW k \in 1..Len(Cur'.plan), Cur'.plan[k].slot \in RegSlots,
               Cur'.plan[k].value # Absent
        PROVE  FALSE
    <3>1. k + 1 \in 1..Len(Cur.plan) /\ Cur'.plan[k] = Cur.plan[k + 1] BY <1>2
    <3>2. k + 1 = 1 BY <3>1, <2>2 DEF Removing, StoreInv
    <3>3. k \in 1..Len(Cur'.plan) => k >= 1 /\ k \in Nat BY <1>2
    <3> QED BY <3>2, <3>3
  <2> QED BY <2>1, <2>2
<1> QED BY <1>5, <1>6, <1>7, <1>8, <1>9, <1>10

\* A migration followed by one write.
LEMMA ConcatOne ==
  ASSUME NEW S, NEW a \in S, NEW b \in S, NEW c \in S
  PROVE  <<a, b>> \o <<c>> = <<a, b, c>>
<1>1. <<a, b>> \in Seq(S) /\ <<c>> \in Seq(S) /\ <<a, b, c>> \in Seq(S) OBVIOUS
<1>2. PICK s \in Seq(S) : s = <<a, b>> BY <1>1
<1>3. PICK t \in Seq(S) : t = <<c>> BY <1>1
<1>4. /\ s \o t \in Seq(S) /\ Len(s \o t) = Len(s) + Len(t)
      /\ \A i \in 1 .. Len(s) + Len(t) :
           (s \o t)[i] = IF i <= Len(s) THEN s[i] ELSE t[i - Len(s)]
  BY ConcatProperties
<1>5. Len(s) = 2 /\ Len(t) = 1 /\ s[1] = a /\ s[2] = b /\ t[1] = c BY <1>2, <1>3
<1>6. PICK u \in Seq(S) : u = s \o t BY <1>4
<1>7. Len(u) = 3 /\ u[1] = a /\ u[2] = b /\ u[3] = c BY <1>4, <1>5, <1>6
<1>8. u = <<a, b, c>> BY ONLY <1>7, <1>1, u \in Seq(S), SeqEqual
<1> QED BY <1>2, <1>3, <1>6, <1>8

\* A migration followed by three writes.
LEMMA ConcatThree ==
  ASSUME NEW S, NEW a \in S, NEW b \in S, NEW c \in S, NEW d \in S, NEW e \in S
  PROVE  <<a, b>> \o <<c, d, e>> = <<a, b, c, d, e>>
<1>1. <<a, b>> \in Seq(S) /\ <<c, d, e>> \in Seq(S) /\ <<a, b, c, d, e>> \in Seq(S) OBVIOUS
<1>2. PICK s \in Seq(S) : s = <<a, b>> BY <1>1
<1>3. PICK t \in Seq(S) : t = <<c, d, e>> BY <1>1
<1>4. /\ s \o t \in Seq(S) /\ Len(s \o t) = Len(s) + Len(t)
      /\ \A i \in 1 .. Len(s) + Len(t) :
           (s \o t)[i] = IF i <= Len(s) THEN s[i] ELSE t[i - Len(s)]
  BY ConcatProperties
<1>5. /\ Len(s) = 2 /\ Len(t) = 3 /\ s[1] = a /\ s[2] = b
      /\ t[1] = c /\ t[2] = d /\ t[3] = e
  BY <1>2, <1>3
<1>6. PICK u \in Seq(S) : u = s \o t BY <1>4
<1>7. Len(u) = 5 /\ u[1] = a /\ u[2] = b /\ u[3] = c /\ u[4] = d /\ u[5] = e
  BY <1>4, <1>5, <1>6
<1>8. u = <<a, b, c, d, e>> BY ONLY <1>7, <1>1, u \in Seq(S), SeqEqual
<1> QED BY <1>2, <1>3, <1>6, <1>8

\* A migration followed by five writes.
LEMMA ConcatFive ==
  ASSUME NEW S, NEW a \in S, NEW b \in S, NEW c \in S, NEW d \in S, NEW e \in S,
         NEW f \in S, NEW g \in S
  PROVE  <<a, b>> \o <<c, d, e, f, g>> = <<a, b, c, d, e, f, g>>
<1>1. /\ <<a, b>> \in Seq(S) /\ <<c, d, e, f, g>> \in Seq(S)
      /\ <<a, b, c, d, e, f, g>> \in Seq(S)
  OBVIOUS
<1>2. PICK s \in Seq(S) : s = <<a, b>> BY <1>1
<1>3. PICK t \in Seq(S) : t = <<c, d, e, f, g>> BY <1>1
<1>4. /\ s \o t \in Seq(S) /\ Len(s \o t) = Len(s) + Len(t)
      /\ \A i \in 1 .. Len(s) + Len(t) :
           (s \o t)[i] = IF i <= Len(s) THEN s[i] ELSE t[i - Len(s)]
  BY ConcatProperties
<1>5. /\ Len(s) = 2 /\ Len(t) = 5 /\ s[1] = a /\ s[2] = b
      /\ t[1] = c /\ t[2] = d /\ t[3] = e /\ t[4] = f /\ t[5] = g
  BY <1>2, <1>3
<1>6. PICK u \in Seq(S) : u = s \o t BY <1>4
<1>7. /\ Len(u) = 7 /\ u[1] = a /\ u[2] = b /\ u[3] = c /\ u[4] = d /\ u[5] = e
      /\ u[6] = f /\ u[7] = g
  BY <1>4, <1>5, <1>6
<1>8. u = <<a, b, c, d, e, f, g>> BY ONLY <1>7, <1>1, u \in Seq(S), SeqEqual
<1> QED BY <1>2, <1>3, <1>6, <1>8

\* One write an operation may plan when q is the request of the identity held.
Fits(j, w, q) ==
  /\ w \in Writes /\ WriteShape(j, w)
  /\ w.slot \in RegSlots /\ WellFormed(w.value) => w.value.req = q

\* A plan of such writes.
Fitting(j, p, q) == p \in Seq(Writes) /\ \A k \in 1..Len(p) : Fits(j, p[k], q)

\* The places agree on the registration.
HeldReq(q) == \A s \in RegSlots : WellFormed(store[s]) => store[s].req = q

\* An emptying write.
LEMMA ClearForm ==
  ASSUME NEW s \in Slots
  PROVE  Clear(s) \in Writes /\ Clear(s).slot = s /\ Clear(s).value = Absent
BY RecordForms DEF Clear, Writes

\* A filling write.
LEMMA PutForm ==
  ASSUME NEW s \in Slots, NEW r \in Records
  PROVE  Put(s, r) \in Writes /\ Put(s, r).slot = s /\ Put(s, r).value = r
BY DEF Put, Writes

\* Emptying a place of the registration fits.
LEMMA ClearFits ==
  ASSUME NEW j, NEW q, j.op \in RegOps, NEW s \in RegSlots, s = "file" \/ port
  PROVE  Fits(j, Clear(s), q)
BY ClearForm, KindsOfForms DEF Fits, WriteShape, RegSlots, SessSlots, Slots, WellFormed

\* Filling one with the registration fits.
LEMMA PutFits ==
  ASSUME NEW j, NEW q, j.op \in RegOps, NEW s \in RegSlots, s = "file" \/ port,
         NEW r \in Records, WellFormed(r), r.req = q
  PROVE  Fits(j, Put(s, r), q)
BY PutForm, KindsOfForms DEF Fits, WriteShape, RegSlots, SessSlots, Slots, WellFormed

\* A migration moves the file's registration into the core's place and then empties the
\* file.
LEMMA MigrationForm ==
  ASSUME Types, Places, Migration # <<>>
  PROVE  \E m \in Writes :
           /\ Migration = <<m, Clear("file")>>
           /\ m.slot \in {"core", "enr"} /\ m.value = store["file"]
           /\ m = Put(m.slot, store["file"])
           /\ WellFormed(store["file"]) /\ store["file"] # Absent
           /\ port /\ store["core"] = Absent /\ store["enr"] = Absent
           /\ Routed = store["file"]
<1>1. port /\ store["core"] = Absent /\ store["enr"] = Absent /\ WellFormed(store["file"])
  BY DEF Migration
<1>2. PICK s : s = IF store["file"].kind = "registered" THEN "core" ELSE "enr" OBVIOUS
<1>3. Migration = <<[slot |-> s, value |-> store["file"]], [slot |-> "file", value |-> Absent]>>
  BY <1>1, <1>2 DEF Migration
<1>4. store["file"] \in Records BY PlaceForms DEF Slots
<1>5. PICK m : m = [slot |-> s, value |-> store["file"]] OBVIOUS
<1>6. m \in Writes /\ m.slot = s /\ m.value = store["file"] /\ m = Put(s, store["file"])
  BY <1>2, <1>4, <1>5 DEF Writes, Slots, Put
<1>7. Migration = <<m, Clear("file")>> BY <1>3, <1>5 DEF Clear
<1>8. Routed = store["file"] /\ store["file"] # Absent
  BY <1>1, KindsOfForms DEF Routed, WellFormed
<1> QED BY <1>1, <1>2, <1>6, <1>7, <1>8

\* A migration keeps the registration.
LEMMA MigrationFits ==
  ASSUME Types, Places, Migration # <<>>, NEW j, j.op \in RegOps, NEW q, HeldReq(q)
  PROVE  Fitting(j, Migration, q) /\ KeepsPlan(Migration) /\ WellFormed(Routed)
<1>1. PICK m \in Writes :
           /\ Migration = <<m, Clear("file")>>
           /\ m.slot \in {"core", "enr"} /\ m.value = store["file"]
           /\ m = Put(m.slot, store["file"])
           /\ WellFormed(store["file"]) /\ store["file"] # Absent
           /\ port /\ store["core"] = Absent /\ store["enr"] = Absent
           /\ Routed = store["file"]
  BY MigrationForm
<1>2. store["file"] \in Records BY PlaceForms DEF Slots
<1>3. store["file"].req = q BY <1>1 DEF HeldReq, RegSlots
<1>4. Fits(j, Put(m.slot, store["file"]), q) BY <1>1, <1>2, <1>3, PutFits DEF RegSlots
<1>5. PICK c \in Writes : c = Clear("file") /\ c.slot = "file" /\ c.value = Absent
  BY ClearForm DEF Slots
<1>6. Fits(j, Clear("file"), q) BY ClearFits DEF RegSlots
<1>7. Fits(j, m, q) /\ Fits(j, c, q) BY <1>1, <1>4, <1>5, <1>6
<1>0. <<m, c>> \in Seq(Writes) BY ONLY m \in Writes, c \in Writes
<1>8. PICK p \in Seq(Writes) : p = <<m, c>> BY <1>0
<1>9. Len(p) = 2 /\ p[1] = m /\ p[2] = c BY <1>8
<1>10. Fitting(j, p, q) BY <1>7, <1>9 DEF Fitting
<1>11. Covered(p, 2, {"core", "enr"}) BY <1>1, <1>9 DEF Covered
<1>12. KeepsPlan(p)
  <2>1. p[1].value # Absent BY <1>1, <1>9
  <2>2. p[2].slot = "file" BY <1>5, <1>9
  <2> QED BY <2>1, <2>2, <1>1, <1>9, <1>11 DEF KeepsPlan
<1> QED BY <1>1, <1>5, <1>8, <1>10, <1>12

\* So does the plan that completes an enrollment (CredentialRegistry.complete).
LEMMA CompleteFits ==
  ASSUME Types, Places, NEW j \in Jobs, j.op = "complete", JobShape(j), CompleteAdmitted(j),
         NEW q, HeldReq(q)
  PROVE  Fitting(j, Migration \o CompletePlan(j), q) /\ KeepsPlan(Migration \o CompletePlan(j))
         /\ Migration \o CompletePlan(j) # <<>>
<1>1. j.rec \in Records /\ WellFormed(j.rec) /\ j.rec # Absent
  BY KindsOfForms DEF Jobs, JobShape, WellFormed
<1>2. WellFormed(Routed) /\ Routed.req = j.rec.req BY DEF CompleteAdmitted, WellFormed
<1>3. \E s \in RegSlots : Routed = store[s] BY RoutedIsHeld
<1>4. j.rec.req = q BY <1>2, <1>3 DEF HeldReq
<1>5. j.op \in RegOps BY DEF RegOps
<1>6. PICK c3 \in Writes : c3 = Clear("file") /\ c3.slot = "file" /\ c3.value = Absent
  BY ClearForm DEF Slots
<1>7. Fits(j, c3, q) BY <1>5, <1>6, ClearFits DEF RegSlots
<1>8. CASE ~port
  <2>1. PICK c \in Writes : c = Put("file", j.rec) /\ c.slot = "file" /\ c.value = j.rec
    BY <1>1, PutForm DEF Slots
  <2>2. Fits(j, c, q) BY <2>1, <1>1, <1>4, <1>5, PutFits DEF RegSlots
  <2>3. <<c>> \in Seq(Writes) BY ONLY c \in Writes
  <2>4. PICK p \in Seq(Writes) : p = <<c>> BY <2>3
  <2>5. Migration = <<>> /\ CompletePlan(j) = p BY <1>8, <2>1, <2>4 DEF Migration, CompletePlan
  <2>6. Migration \o CompletePlan(j) = p BY <2>5, ConcatEmptySeq
  <2>7. Len(p) = 1 /\ p[1] = c /\ p # <<>> BY <2>4
  <2>8. Fitting(j, p, q) BY <2>2, <2>7 DEF Fitting
  <2>9. KeepsPlan(p) BY <2>1, <2>7, <1>1 DEF KeepsPlan
  <2> QED BY <2>6, <2>7, <2>8, <2>9
<1>9. CASE port
  <2>1. PICK c1 \in Writes : c1 = Put("core", j.rec) /\ c1.slot = "core" /\ c1.value = j.rec
    BY <1>1, PutForm DEF Slots
  <2>2. PICK c2 \in Writes : c2 = Clear("enr") /\ c2.slot = "enr" /\ c2.value = Absent
    BY ClearForm DEF Slots
  <2>3. Fits(j, c1, q) /\ Fits(j, c2, q)
    BY <2>1, <2>2, <1>1, <1>4, <1>5, <1>9, PutFits, ClearFits DEF RegSlots
  <2>4. CompletePlan(j) = <<c1, c2, c3>> BY <2>1, <2>2, <1>6, <1>9 DEF CompletePlan
  <2>5. CASE Migration = <<>>
    <3>1. <<c1, c2, c3>> \in Seq(Writes)
      BY ONLY c1 \in Writes, c2 \in Writes, c3 \in Writes
    <3>2. PICK p \in Seq(Writes) : p = <<c1, c2, c3>> BY <3>1
    <3>3. Migration \o CompletePlan(j) = p BY <3>2, <2>4, <2>5, ConcatEmptySeq
    <3>4. Len(p) = 3 /\ p[1] = c1 /\ p[2] = c2 /\ p[3] = c3 /\ p # <<>> BY <3>2
    <3>5. Fitting(j, p, q) BY <3>4, <2>3, <1>7 DEF Fitting
    <3>6. \A k \in {2, 3} : Covered(p, k, {"core"}) /\ Covered(p, k, {"core", "enr"})
      BY <3>4, <2>1, <1>1 DEF Covered
    <3>7. KeepsPlan(p)
      BY <3>4, <3>6, <2>1, <2>2, <1>6, <1>1, <1>9 DEF KeepsPlan
    <3> QED BY <3>3, <3>4, <3>5, <3>7
  <2>6. CASE Migration # <<>>
    <3>1. PICK m \in Writes :
             /\ Migration = <<m, Clear("file")>>
             /\ m.slot \in {"core", "enr"} /\ m.value = store["file"]
             /\ m = Put(m.slot, store["file"])
             /\ WellFormed(store["file"]) /\ store["file"] # Absent
             /\ port /\ store["core"] = Absent /\ store["enr"] = Absent
             /\ Routed = store["file"]
      BY <2>6, MigrationForm
    <3>2. store["file"] \in Records /\ store["file"].req = q
      BY <3>1, PlaceForms DEF Slots, HeldReq, RegSlots
    <3>3. Fits(j, m, q) BY <3>1, <3>2, <1>5, PutFits DEF RegSlots
    <3>4. Migration \o CompletePlan(j) = <<m, c3, c1, c2, c3>>
      BY <3>1, <2>4, <1>6, ConcatThree
    <3>5. <<m, c3, c1, c2, c3>> \in Seq(Writes)
      BY ONLY m \in Writes, c1 \in Writes, c2 \in Writes, c3 \in Writes
    <3>6. PICK p \in Seq(Writes) : p = <<m, c3, c1, c2, c3>> BY <3>5
    <3>7. Len(p) = 5 /\ p[1] = m /\ p[2] = c3 /\ p[3] = c1 /\ p[4] = c2 /\ p[5] = c3 /\ p # <<>>
      BY <3>6
    <3>8. Fitting(j, p, q) BY <3>3, <3>7, <2>3, <1>7 DEF Fitting
    <3>9. /\ Covered(p, 2, {"core", "enr"}) /\ Covered(p, 5, {"core", "enr"})
          /\ Covered(p, 4, {"core"})
      BY <3>1, <3>7, <2>1, <1>1 DEF Covered
    <3>10. KeepsPlan(p)
      BY <3>1, <3>7, <3>9, <2>1, <2>2, <1>6, <1>1, <1>9 DEF KeepsPlan
    <3> QED BY <3>4, <3>6, <3>7, <3>8, <3>10
  <2> QED BY <2>5, <2>6
<1> QED BY <1>8, <1>9 DEF Types, StoreTypeOK

\* So does the plan that replaces a certificate (CredentialRegistry.replace).
LEMMA ReplaceFits ==
  ASSUME Types, Places, NEW j \in Jobs, j.op = "replace", JobShape(j), ReplaceAdmitted(j),
         NEW q, HeldReq(q)
  PROVE  Fitting(j, Migration \o ReplacePlan(j), q) /\ KeepsPlan(Migration \o ReplacePlan(j))
         /\ Migration \o ReplacePlan(j) # <<>>
<1>1. j.rec \in Records /\ WellFormed(j.rec) /\ j.rec # Absent
  BY KindsOfForms DEF Jobs, JobShape, WellFormed
<1>2. WellFormed(Routed) /\ Routed.req = j.rec.req BY DEF ReplaceAdmitted, WellFormed
<1>3. \E s \in RegSlots : Routed = store[s] BY RoutedIsHeld
<1>4. j.rec.req = q BY <1>2, <1>3 DEF HeldReq
<1>5. j.op \in RegOps BY DEF RegOps
<1>6. PICK s \in {"core", "file"} : s = IF port THEN "core" ELSE "file" OBVIOUS
<1>7. PICK c \in Writes : c = Put(s, j.rec) /\ c.slot = s /\ c.value = j.rec
  BY <1>1, PutForm DEF Slots
<1>8. Fits(j, c, q) BY <1>6, <1>7, <1>1, <1>4, <1>5, PutFits DEF RegSlots
<1>9. ReplacePlan(j) = <<c>> BY <1>6, <1>7 DEF ReplacePlan
<1>10. CASE Migration = <<>>
  <2>3. <<c>> \in Seq(Writes) BY ONLY c \in Writes
  <2>4. PICK p \in Seq(Writes) : p = <<c>> BY <2>3
  <2>6. Migration \o ReplacePlan(j) = p BY <2>4, <1>9, <1>10, ConcatEmptySeq
  <2>7. Len(p) = 1 /\ p[1] = c /\ p # <<>> BY <2>4
  <2>8. Fitting(j, p, q) BY <1>8, <2>7 DEF Fitting
  <2>9. KeepsPlan(p) BY <1>7, <2>7, <1>1 DEF KeepsPlan
  <2> QED BY <2>6, <2>7, <2>8, <2>9
<1>11. CASE Migration # <<>>
  <2>1. PICK m \in Writes :
           /\ Migration = <<m, Clear("file")>>
           /\ m.slot \in {"core", "enr"} /\ m.value = store["file"]
           /\ m = Put(m.slot, store["file"])
           /\ WellFormed(store["file"]) /\ store["file"] # Absent
           /\ port /\ store["core"] = Absent /\ store["enr"] = Absent
           /\ Routed = store["file"]
    BY <1>11, MigrationForm
  <2>2. store["file"] \in Records /\ store["file"].req = q
    BY <2>1, PlaceForms DEF Slots, HeldReq, RegSlots
  <2>3. Fits(j, m, q) BY <2>1, <2>2, <1>5, PutFits DEF RegSlots
  <2>4. PICK d \in Writes : d = Clear("file") /\ d.slot = "file" /\ d.value = Absent
    BY ClearForm DEF Slots
  <2>5. Fits(j, d, q) BY <1>5, <2>4, ClearFits DEF RegSlots
  <2>6. Migration \o ReplacePlan(j) = <<m, d, c>> BY <2>1, <2>4, <1>9, ConcatOne
  <2>7. <<m, d, c>> \in Seq(Writes) BY ONLY m \in Writes, d \in Writes, c \in Writes
  <2>8. PICK p \in Seq(Writes) : p = <<m, d, c>> BY <2>7
  <2>9. Len(p) = 3 /\ p[1] = m /\ p[2] = d /\ p[3] = c /\ p # <<>> BY <2>8
  <2>10. Fitting(j, p, q) BY <2>3, <2>5, <2>9, <1>8 DEF Fitting
  <2>11. Covered(p, 2, {"core", "enr"}) BY <2>1, <2>9 DEF Covered
  <2>12. KeepsPlan(p) BY <2>1, <2>4, <2>9, <2>11, <1>7, <1>1 DEF KeepsPlan
  <2> QED BY <2>6, <2>8, <2>9, <2>10, <2>12
<1> QED BY <1>10, <1>11

\* The plan that removes the registration fills only what a migration fills.
LEMMA RemoveFits ==
  ASSUME Types, Places, NEW j \in Jobs, j.op = "remove", RemoveAdmitted(j), NEW q, HeldReq(q)
  PROVE  /\ Fitting(j, Migration \o RemovePlan(j), q)
         /\ Migration \o RemovePlan(j) # <<>>
         /\ \A k \in 1..Len(Migration \o RemovePlan(j)) :
              /\ (Migration \o RemovePlan(j))[k].slot \in RegSlots
              /\ (Migration \o RemovePlan(j))[k].value # Absent
              => k = 1
<1> DEFINE Once(p) == \A k \in 1..Len(p) : p[k].slot \in RegSlots /\ p[k].value # Absent => k = 1
<1>1. j.op \in RegOps BY DEF RegOps
<1>2. PICK c1 \in Writes : c1 = Clear("core") /\ c1.slot = "core" /\ c1.value = Absent
  BY ClearForm DEF Slots
<1>3. PICK c2 \in Writes : c2 = Clear("enr") /\ c2.slot = "enr" /\ c2.value = Absent
  BY ClearForm DEF Slots
<1>4. PICK c3 \in Writes : c3 = Clear("sess") /\ c3.slot = "sess" /\ c3.value = Absent
  BY ClearForm DEF Slots
<1>5. PICK c4 \in Writes : c4 = Clear("file") /\ c4.slot = "file" /\ c4.value = Absent
  BY ClearForm DEF Slots
<1>6. PICK c5 \in Writes : c5 = Clear("sfile") /\ c5.slot = "sfile" /\ c5.value = Absent
  BY ClearForm DEF Slots
<1>7. Fits(j, c4, q) /\ Fits(j, c5, q)
  BY <1>5, <1>6, KindsOfForms DEF Fits, WriteShape, RegSlots, SessSlots, RegOps, WellFormed
<1>8. port => Fits(j, c1, q) /\ Fits(j, c2, q) /\ Fits(j, c3, q)
  BY <1>2, <1>3, <1>4, KindsOfForms DEF Fits, WriteShape, RegSlots, SessSlots, RegOps, WellFormed
<1>9. CASE ~port
  <2>1. <<c4, c5>> \in Seq(Writes) BY ONLY c4 \in Writes, c5 \in Writes
  <2>2. PICK p \in Seq(Writes) : p = <<c4, c5>> BY <2>1
  <2>3. Migration = <<>> /\ RemovePlan(j) = p
    BY <1>9, <1>5, <1>6, <2>2 DEF Migration, RemovePlan
  <2>4. Migration \o RemovePlan(j) = p BY <2>3, ConcatEmptySeq
  <2>5. Len(p) = 2 /\ p[1] = c4 /\ p[2] = c5 /\ p # <<>> BY <2>2
  <2>6. Fitting(j, p, q) BY <1>7, <2>5 DEF Fitting
  <2>7. Once(p) BY <2>5, <1>5, <1>6
  <2> QED BY <2>4, <2>5, <2>6, <2>7
<1>10. CASE port
  <2>1. RemovePlan(j) = <<c1, c2, c3, c4, c5>>
    BY <1>2, <1>3, <1>4, <1>5, <1>6, <1>10 DEF RemovePlan
  <2>2. CASE Migration = <<>>
    <3>1. <<c1, c2, c3, c4, c5>> \in Seq(Writes)
      BY ONLY c1 \in Writes, c2 \in Writes, c3 \in Writes, c4 \in Writes, c5 \in Writes
    <3>2. PICK p \in Seq(Writes) : p = <<c1, c2, c3, c4, c5>> BY <3>1
    <3>3. Migration \o RemovePlan(j) = p BY <3>2, <2>1, <2>2, ConcatEmptySeq
    <3>4. /\ Len(p) = 5 /\ p[1] = c1 /\ p[2] = c2 /\ p[3] = c3 /\ p[4] = c4 /\ p[5] = c5
          /\ p # <<>>
      BY <3>2
    <3>5. Fitting(j, p, q) BY <3>4, <1>7, <1>8, <1>10 DEF Fitting
    <3>6. Once(p) BY <3>4, <1>2, <1>3, <1>4, <1>5, <1>6
    <3> QED BY <3>3, <3>4, <3>5, <3>6
  <2>3. CASE Migration # <<>>
    <3>1. PICK m \in Writes :
             /\ Migration = <<m, Clear("file")>>
             /\ m.slot \in {"core", "enr"} /\ m.value = store["file"]
             /\ m = Put(m.slot, store["file"])
             /\ WellFormed(store["file"]) /\ store["file"] # Absent
             /\ port /\ store["core"] = Absent /\ store["enr"] = Absent
             /\ Routed = store["file"]
      BY <2>3, MigrationForm
    <3>2. store["file"] \in Records /\ store["file"].req = q
      BY <3>1, PlaceForms DEF Slots, HeldReq, RegSlots
    <3>3. Fits(j, m, q) BY <3>1, <3>2, <1>1, PutFits DEF RegSlots
    <3>4. Migration \o RemovePlan(j) = <<m, c4, c1, c2, c3, c4, c5>>
      BY <3>1, <2>1, <1>5, ConcatFive
    <3>5. <<m, c4, c1, c2, c3, c4, c5>> \in Seq(Writes)
      BY ONLY m \in Writes, c1 \in Writes, c2 \in Writes, c3 \in Writes, c4 \in Writes,
              c5 \in Writes
    <3>6. PICK p \in Seq(Writes) : p = <<m, c4, c1, c2, c3, c4, c5>> BY <3>5
    <3>7. /\ Len(p) = 7 /\ p[1] = m /\ p[2] = c4 /\ p[3] = c1 /\ p[4] = c2 /\ p[5] = c3
          /\ p[6] = c4 /\ p[7] = c5 /\ p # <<>>
      BY <3>6
    <3>8. Fitting(j, p, q) BY <3>3, <3>7, <1>7, <1>8, <1>10 DEF Fitting
    <3>9. Once(p) BY <3>7, <1>2, <1>3, <1>4, <1>5, <1>6
    <3> QED BY <3>4, <3>6, <3>7, <3>8, <3>9
  <2> QED BY <2>2, <2>3
<1> QED BY <1>9, <1>10

\* The plan that prepares an enrollment is one write where nothing was held.
LEMMA PrepareFits ==
  ASSUME Types, Places, NEW j \in Jobs, j.op = "prepare", JobShape(j), PrepareAdmitted(j)
  PROVE  /\ PreparePlan(j) = <<Put(IF port THEN "enr" ELSE "file", j.rec)>>
         /\ Fitting(j, PreparePlan(j), j.rec.req) /\ PreparePlan(j) # <<>>
         /\ \A s \in RegSlots : ~WellFormed(store[s])
         /\ WellFormed(j.rec) /\ j.rec.req \in Requests
<1>1. j.rec \in Records /\ WellFormed(j.rec) /\ j.rec.req \in Requests
  BY RecordForms DEF Jobs, JobShape, WellFormed
<1>2. PICK s \in {"enr", "file"} : s = IF port THEN "enr" ELSE "file" OBVIOUS
<1>3. PICK c \in Writes : c = Put(s, j.rec)
  BY <1>1, <1>2, PutForm DEF Slots
<1>4. Fits(j, c, j.rec.req) BY <1>1, <1>2, <1>3, PutFits DEF RegSlots, RegOps
<1>5. <<c>> \in Seq(Writes) BY ONLY c \in Writes
<1>6. PICK p \in Seq(Writes) : p = <<c>> BY <1>5
<1>7. Len(p) = 1 /\ p[1] = c /\ p # <<>> BY <1>6
<1>8. PreparePlan(j) = p BY <1>2, <1>3, <1>6 DEF PreparePlan
<1>9. Fitting(j, p, j.rec.req) BY <1>4, <1>7 DEF Fitting
<1>10. \A x \in RegSlots : ~WellFormed(store[x])
  BY RoutedIsHeld, KindsOfForms DEF PrepareAdmitted, WellFormed
<1> QED BY <1>1, <1>7, <1>8, <1>9, <1>10 DEF PreparePlan

\* The plan of each operation, by name.
LEMMA PlanOf ==
  ASSUME NEW j
  PROVE  /\ j.op = "saveSession" => Plan(j) = SaveSessionPlan(j)
         /\ j.op = "loadSession" => Plan(j) = LoadSessionPlan(j)
         /\ j.op = "removeSession" => Plan(j) = RemoveSessionPlan(j)
         /\ j.op \in RegOps /\ ~Admitted(j) => Plan(j) = Migration
         /\ j.op = "load" => Plan(j) = Migration /\ (Admitted(j) <=> WellFormed(Routed))
         /\ j.op = "prepare" /\ Admitted(j) => Plan(j) = PreparePlan(j) /\ PrepareAdmitted(j)
         /\ j.op = "complete" /\ Admitted(j) =>
              Plan(j) = Migration \o CompletePlan(j) /\ CompleteAdmitted(j)
         /\ j.op = "replace" /\ Admitted(j) =>
              Plan(j) = Migration \o ReplacePlan(j) /\ ReplaceAdmitted(j)
         /\ j.op = "remove" /\ Admitted(j) =>
              Plan(j) = Migration \o RemovePlan(j) /\ RemoveAdmitted(j)
BY DEF Plan, Admitted, RegOps

\* The plans of the session operations, and what each leaves in the places.
LEMMA SessionFits ==
  ASSUME Types, Places, NEW j \in Jobs, JobShape(j), NEW q,
         j.op \in {"saveSession", "loadSession", "removeSession"}
  PROVE  /\ Fitting(j, Plan(j), q)
         /\ \A k \in 1..Len(Plan(j)) : Plan(j)[k].slot \in SessSlots
         /\ j.op = "saveSession" =>
              /\ Plan(j) = IF port THEN <<Put("sess", j.rec), Clear("sfile")>>
                                   ELSE <<Put("sfile", j.rec)>>
              /\ \A k \in 1..Len(Plan(j)) : Plan(j)[k].value \in {Absent, j.rec}
         /\ j.op = "loadSession" /\ Plan(j) # <<>> =>
              /\ port /\ RoutedSession = store["sfile"] /\ store["sfile"].kind = "session"
              /\ Plan(j) = <<Put("sess", store["sfile"]), Clear("sfile")>>
              /\ \A k \in 1..Len(Plan(j)) : Plan(j)[k].value \in {Absent, store["sfile"]}
         /\ j.op = "loadSession" /\ Plan(j) = <<>> =>
              (RoutedSession.kind = "session" => store["sess"] \in {Absent, RoutedSession})
         /\ RoutedSession \in {store["sess"], store["sfile"]}
         /\ j.op # "loadSession" => Plan(j) # <<>>
<1>1. /\ store \in [Slots -> Records] /\ store["sfile"] \in Records /\ store["sess"] \in Records
      /\ port \in BOOLEAN
  BY DEF Types, StoreTypeOK, Slots
<1>2. PICK c \in Writes : c = Clear("sfile") /\ c.slot = "sfile" /\ c.value = Absent
  BY ClearForm DEF Slots
<1>3. PICK d \in Writes : d = Clear("sess") /\ d.slot = "sess" /\ d.value = Absent
  BY ClearForm DEF Slots
<1>4. Fits(j, c, q) BY <1>2, KindsOfForms DEF Fits, WriteShape, RegSlots, SessSlots
<1>5. /\ <<c>> \in Seq(Writes) /\ Len(<<c>>) = 1 /\ <<c>>[1] = c /\ <<c>> # <<>>
      /\ <<d, c>> \in Seq(Writes) /\ Len(<<d, c>>) = 2 /\ <<d, c>>[1] = d /\ <<d, c>>[2] = c
      /\ <<d, c>> # <<>>
  BY ONLY c \in Writes, d \in Writes
<1>6. RoutedSession \in {store["sess"], store["sfile"]} BY DEF RoutedSession
<1>7. CASE j.op = "saveSession"
  <2>1. j.rec \in Records /\ j.rec.kind = "session" BY <1>7 DEF Jobs, JobShape
  <2>2. PICK s \in SessSlots : s = IF port THEN "sess" ELSE "sfile" BY DEF SessSlots
  <2>3. PICK w \in Writes : w = Put(s, j.rec) /\ w.slot = s /\ w.value = j.rec
    BY <2>1, PutForm DEF Slots, SessSlots
  <2>4. Fits(j, w, q)
    BY <1>7, <2>1, <2>2, <2>3, KindsOfForms DEF Fits, WriteShape, RegSlots, SessSlots
  <2>5. /\ <<w>> \in Seq(Writes) /\ Len(<<w>>) = 1 /\ <<w>>[1] = w /\ <<w>> # <<>>
        /\ <<w, c>> \in Seq(Writes) /\ Len(<<w, c>>) = 2 /\ <<w, c>>[1] = w /\ <<w, c>>[2] = c
        /\ <<w, c>> # <<>>
    BY ONLY c \in Writes, w \in Writes
  <2>6. PICK p : p = IF port THEN <<w, c>> ELSE <<w>> OBVIOUS
  <2>7. Plan(j) = p BY PlanOf, <1>7, <1>2, <2>2, <2>3, <2>6 DEF SaveSessionPlan
  <2>8. \/ p = <<w, c>> \/ p = <<w>> BY <2>6
  <2>9. Fitting(j, p, q)
    <3>1. Fitting(j, <<w, c>>, q) BY <2>4, <2>5, <1>4 DEF Fitting
    <3>2. Fitting(j, <<w>>, q) BY <2>4, <2>5 DEF Fitting
    <3> QED BY <3>1, <3>2, <2>8
  <2>10. \A k \in 1..Len(p) : p[k].slot \in SessSlots /\ p[k].value \in {Absent, j.rec}
    BY <2>3, <2>5, <2>8, <1>2 DEF SessSlots
  <2>11. p # <<>> BY <2>5, <2>8
  <2> QED BY PlanOf, <2>7, <2>9, <2>10, <2>11, <1>6, <1>7 DEF SaveSessionPlan
<1>8. CASE j.op = "removeSession"
  <2>1. Fits(j, d, q) \/ ~port
    BY <1>3, <1>8, KindsOfForms DEF Fits, WriteShape, RegSlots, SessSlots
  <2>2. Plan(j) = IF port THEN <<d, c>> ELSE <<c>>
    BY PlanOf, <1>8, <1>2, <1>3 DEF RemoveSessionPlan
  <2>3. PICK p : p = IF port THEN <<d, c>> ELSE <<c>> OBVIOUS
  <2>4. Plan(j) = p /\ ((port /\ p = <<d, c>>) \/ p = <<c>>) BY <2>2, <2>3
  <2>5. Fitting(j, p, q)
    <3>1. port => Fitting(j, <<d, c>>, q) BY <2>1, <1>4, <1>5 DEF Fitting
    <3>2. Fitting(j, <<c>>, q) BY <1>4, <1>5 DEF Fitting
    <3> QED BY <3>1, <3>2, <2>4
  <2>6. \A k \in 1..Len(p) : p[k].slot \in SessSlots BY <2>4, <1>2, <1>3, <1>5 DEF SessSlots
  <2> QED BY <2>4, <2>5, <2>6, <1>5, <1>6, <1>8
<1>9. CASE j.op = "loadSession"
  <2>1. CASE port /\ store["sess"] = Absent /\ store["sfile"] # Absent
    <3>1. store["sfile"].kind = "session" /\ RoutedSession = store["sfile"]
      BY <1>1, <2>1, RecordForms DEF Places, SessSlots, RoutedSession
    <3>2. PICK w \in Writes : w = Put("sess", store["sfile"]) /\ w.slot = "sess" /\ w.value = store["sfile"]
      BY <1>1, PutForm DEF Slots
    <3>3. Fits(j, w, q)
      BY <1>9, <2>1, <3>1, <3>2, KindsOfForms DEF Fits, WriteShape, RegSlots, SessSlots
    <3>4. /\ <<w, c>> \in Seq(Writes) /\ Len(<<w, c>>) = 2 /\ <<w, c>>[1] = w /\ <<w, c>>[2] = c
          /\ <<w, c>> # <<>>
      BY ONLY c \in Writes, w \in Writes
    <3>5. PICK p : p = <<w, c>> OBVIOUS
    <3>6. Plan(j) = p BY PlanOf, <1>9, <1>2, <2>1, <3>2, <3>5 DEF LoadSessionPlan
    <3>7. Fitting(j, p, q) BY <3>3, <3>4, <3>5, <1>4 DEF Fitting
    <3>8. \A k \in 1..Len(p) : p[k].slot \in SessSlots /\ p[k].value \in {Absent, store["sfile"]}
      BY <3>2, <3>4, <3>5, <1>2 DEF SessSlots
    <3>9. p # <<>> /\ p = <<Put("sess", store["sfile"]), Clear("sfile")>>
      BY <3>2, <3>4, <3>5, <1>2
    <3> QED BY <3>1, <3>6, <3>7, <3>8, <3>9, <2>1, <1>6, <1>9
  <2>2. CASE ~(port /\ store["sess"] = Absent /\ store["sfile"] # Absent)
    <3>1. Plan(j) = <<>> BY PlanOf, <1>9, <2>2 DEF LoadSessionPlan
    <3>2. <<>> \in Seq(Writes) /\ Len(<<>>) = 0 OBVIOUS
    <3>3. Fitting(j, Plan(j), q) BY <3>1, <3>2 DEF Fitting
    <3>4. RoutedSession.kind = "session" => store["sess"] \in {Absent, RoutedSession}
      BY <2>2, KindsOfForms DEF RoutedSession, Places
    <3> QED BY <3>1, <3>2, <3>3, <3>4, <1>6, <1>9
  <2> QED BY <2>1, <2>2
<1> QED BY <1>7, <1>8, <1>9

\* The head of the chain fixes its writes.
Begun ==
  /\ Busy /\ ~Cur.begun
  /\ Plan(Cur) # <<>>
  /\ jobs' = [jobs EXCEPT ![1].begun = TRUE, ![1].plan = Plan(Cur),
                          ![1].ok = Admitted(Cur), ![1].value = Answer(Cur)]
  /\ UNCHANGED <<port, store>>

\* The head of a busy chain is an operation.
LEMMA HeadForm ==
  ASSUME Types, Busy
  PROVE  /\ jobs \in Seq(Jobs) /\ jobs # <<>> /\ Len(jobs) \in Nat /\ Len(jobs) >= 1
         /\ Cur \in Jobs /\ Head(jobs) = Cur /\ 1 \in Index
         /\ \A i \in Index : jobs[i] \in Jobs
         /\ Shapes => JobShape(Cur)
<1>1. jobs \in Seq(Jobs) /\ jobs # <<>> BY DEF Types, StoreTypeOK, Busy
<1>2. /\ Cur \in Jobs /\ Head(jobs) = Cur /\ Len(jobs) \in Nat /\ Len(jobs) >= 1
      /\ \A i \in Index : jobs[i] \in Jobs
  BY <1>1, TailQueue DEF Cur, Index
<1>3. 1 \in Index BY <1>2 DEF Index
<1> QED BY <1>1, <1>2, <1>3 DEF Shapes, Cur

\* Whatever an operation plans fits the identity that is held, or the one it starts.
LEMMA PlanFits ==
  ASSUME Types, Places, NEW j \in Jobs, JobShape(j), Plan(j) # <<>>, NEW q \in Requests, HeldReq(q)
  PROVE  \E r \in Requests :
           /\ Fitting(j, Plan(j), r) /\ HeldReq(r)
           /\ Admitted(j) /\ j.op = "prepare" => WellFormed(j.rec) /\ j.rec.req = r
           /\ Admitted(j) /\ j.op = "load" => WellFormed(Routed) /\ Routed.req = r
<1>1. j.op \in Ops BY DEF Jobs
<1>2. CASE j.op \in {"saveSession", "loadSession", "removeSession"}
  BY <1>2, SessionFits
<1>3. CASE j.op \in RegOps /\ ~Admitted(j) BY <1>3, PlanOf, MigrationFits
<1>4. CASE j.op = "load"
  <2>1. Fitting(j, Plan(j), q) BY <1>4, PlanOf, MigrationFits DEF RegOps
  <2>2. \E s \in RegSlots : Routed = store[s] BY RoutedIsHeld
  <2> QED BY <1>4, <2>1, <2>2, PlanOf DEF HeldReq
<1>5. CASE j.op = "prepare" /\ Admitted(j)
  <2>1. Plan(j) = PreparePlan(j) /\ PrepareAdmitted(j) BY <1>5, PlanOf
  <2>2. /\ Fitting(j, Plan(j), j.rec.req) /\ WellFormed(j.rec) /\ j.rec.req \in Requests
        /\ \A s \in RegSlots : ~WellFormed(store[s])
    BY <1>5, <2>1, PrepareFits
  <2> QED BY <1>5, <2>2 DEF HeldReq
<1>6. CASE j.op = "complete" /\ Admitted(j) BY <1>6, PlanOf, CompleteFits
<1>7. CASE j.op = "replace" /\ Admitted(j) BY <1>7, PlanOf, ReplaceFits
<1>8. CASE j.op = "remove" /\ Admitted(j) BY <1>8, PlanOf, RemoveFits
<1> QED BY <1>1, <1>2, <1>3, <1>4, <1>5, <1>6, <1>7, <1>8 DEF Ops, RegOps

\* An answer is a record.
LEMMA AnswerIsRecord ==
  ASSUME Types, NEW j \in Jobs
  PROVE  Answer(j) \in Records
<1>1. store \in [Slots -> Records] BY DEF Types, StoreTypeOK
<1>2. Routed \in Records BY <1>1 DEF Routed, Slots
<1>3. RoutedSession \in Records BY <1>1 DEF RoutedSession, Slots
<1>4. j.rec \in Records BY DEF Jobs
<1> QED BY <1>2, <1>3, <1>4 DEF Answer

\* An operation that begins is the same with its plan and answer computed.
LEMMA BegunJob ==
  ASSUME Types, Shapes, Places, SameId, ~Running, Begun
  PROVE  /\ jobs' \in Seq(Jobs) /\ Len(jobs') = Len(jobs) /\ Index' = Index
         /\ Running'
         /\ \A i \in Index : i # 1 => jobs'[i] = jobs[i]
         /\ Cur'.op = Cur.op /\ Cur'.by = Cur.by /\ Cur'.rec = Cur.rec /\ Cur'.rev = Cur.rev
         /\ Cur'.begun /\ Cur'.plan = Plan(Cur) /\ Cur'.value = Answer(Cur)
         /\ Cur'.ok <=> Admitted(Cur)
<1>1. /\ jobs \in Seq(Jobs) /\ jobs # <<>> /\ Len(jobs) \in Nat /\ Len(jobs) >= 1
      /\ Cur \in Jobs /\ 1 \in Index /\ JobShape(Cur)
  BY HeadForm DEF Begun
<1>2. PICK q \in Requests : HeldReq(q) BY DEF SameId, OneReq, HeldReq
<1>3. Plan(Cur) \in Seq(Writes) BY <1>1, <1>2, PlanFits DEF Begun, Fitting
<1>4. Answer(Cur) \in Records BY <1>1, AnswerIsRecord
<1>5. PICK b \in BOOLEAN : b = Admitted(Cur) BY DEF Admitted
<1>6. PICK p \in Seq(Writes) : p = Plan(Cur) BY <1>3
<1>7. PICK a \in Records : a = Answer(Cur) BY <1>4
<1>8. PICK c : c = [Cur EXCEPT !.begun = TRUE, !.plan = p, !.ok = b, !.value = a] OBVIOUS
<1>9. c \in Jobs BY <1>1, <1>8 DEF Jobs
<1>10. /\ c.op = Cur.op /\ c.by = Cur.by /\ c.rec = Cur.rec /\ c.rev = Cur.rev
       /\ c.begun = TRUE /\ c.plan = p /\ c.ok = b /\ c.value = a
  BY <1>1, <1>8 DEF Jobs
<1>11. jobs' = [jobs EXCEPT ![1] = c] BY <1>1, <1>5, <1>6, <1>7, <1>8 DEF Begun, Cur
<1>12. jobs' \in Seq(Jobs) /\ Len(jobs') = Len(jobs) /\ jobs'[1] = c
       /\ \A i \in Index : i # 1 => jobs'[i] = jobs[i]
  BY <1>1, <1>9, <1>11, ExceptSeq DEF Index
<1>13. Cur' = c /\ Index' = Index BY <1>12 DEF Cur, Index
<1>14. jobs' # <<>> BY <1>12, <1>1
<1> QED BY <1>5, <1>6, <1>7, <1>10, <1>12, <1>13, <1>14 DEF Running

\* The facts about the running operation hold once it has begun.
LEMMA BegunKeeps ==
  ASSUME Types, Shapes, Places, SameId, ~Running, Begun, SpentIsResumable, UNCHANGED <<consumed, left>>
  PROVE  /\ Places' /\ Stuck' /\ Planned' /\ SameId' /\ Keeping' /\ Preparing' /\ Removing'
         /\ Saving' /\ Loading' /\ Routed' = Routed
<1>0. /\ Cur \in Jobs /\ JobShape(Cur) /\ Cur.op \in Ops BY HeadForm DEF Begun, Jobs
<1>1. /\ Running' /\ Cur'.op = Cur.op /\ Cur'.by = Cur.by /\ Cur'.rec = Cur.rec
      /\ Cur'.plan = Plan(Cur) /\ Cur'.value = Answer(Cur) /\ (Cur'.ok <=> Admitted(Cur))
  BY BegunJob
<1>2. port' = port /\ store' = store BY DEF Begun
<1>3. Routed' = Routed BY <1>2 DEF Routed
<1>4. Plan(Cur) # <<>> BY DEF Begun
<1>5. PICK q0 \in Requests : HeldReq(q0) BY DEF SameId, OneReq, HeldReq
<1>6. PICK q \in Requests :
           /\ Fitting(Cur, Plan(Cur), q) /\ HeldReq(q)
           /\ Admitted(Cur) /\ Cur.op = "prepare" => WellFormed(Cur.rec) /\ Cur.rec.req = q
           /\ Admitted(Cur) /\ Cur.op = "load" => WellFormed(Routed) /\ Routed.req = q
  BY <1>0, <1>4, <1>5, PlanFits
<1>7. Places' BY <1>2 DEF Places
<1>8. Stuck'
  <2> SUFFICES ASSUME store["file"] = Corrupt, Cur.op \in RegOps PROVE FALSE
    BY <1>1, <1>2 DEF Stuck
  <2>1. Routed = Corrupt BY DEF Places, Routed
  <2>2. ~WellFormed(Routed) /\ Routed # Absent BY <2>1, KindsOfForms DEF WellFormed
  <2>3. ~Admitted(Cur)
    BY <2>2, PlanOf DEF PrepareAdmitted, CompleteAdmitted, ReplaceAdmitted, RemoveAdmitted,
       WellFormed, RegOps
  <2>4. Migration # <<>> BY <2>3, <1>4, PlanOf
  <2> QED BY <2>1, <2>2, <2>4, MigrationForm
<1>9. Planned'
  <2>1. \A k \in 1..Len(Plan(Cur)) : WriteShape(Cur, Plan(Cur)[k]) BY <1>6 DEF Fitting, Fits
  <2>2. ASSUME NEW w, WriteShape(Cur, w) PROVE WriteShape(Cur, w)'
    BY <2>2, <1>1, <1>2 DEF WriteShape
  <2> QED BY <2>1, <2>2, <1>1, <1>4 DEF Planned
<1>10. SameId'
  <2>1. \A k \in 1..Len(Plan(Cur)) :
          Plan(Cur)[k].slot \in RegSlots /\ WellFormed(Plan(Cur)[k].value) => Plan(Cur)[k].value.req = q
    BY <1>6 DEF Fitting, Fits
  <2>2. Cur.op \in {"load", "prepare"} => Answer(Cur) = IF Cur.op = "load" THEN Routed ELSE Cur.rec
    BY DEF Answer
  <2>3. OneReq(q)' BY <2>1, <2>2, <1>1, <1>2, <1>6 DEF OneReq, HeldReq
  <2> QED BY <2>3 DEF SameId
<1>11. Keeping'
  <2> SUFFICES ASSUME Cur.op \in RegOps, ~(Admitted(Cur) /\ Cur.op \in {"prepare", "remove"})
               PROVE  WellFormed(Routed) /\ KeepsPlan(Plan(Cur))
    <3>1. ASSUME NEW p, KeepsPlan(p) PROVE KeepsPlan(p)' BY <3>1, <1>2 DEF KeepsPlan
    <3> QED BY <3>1, <1>1, <1>3 DEF Keeping, Keeps
  <2>1. CASE ~Admitted(Cur) \/ Cur.op = "load"
    <3>1. Plan(Cur) = Migration BY <2>1, PlanOf
    <3> QED BY <3>1, <1>4, <1>5, MigrationFits
  <2>2. CASE Cur.op = "complete" /\ Admitted(Cur)
    <3>1. Plan(Cur) = Migration \o CompletePlan(Cur) /\ CompleteAdmitted(Cur) BY <2>2, PlanOf
    <3> QED BY <3>1, <2>2, <1>0, <1>5, CompleteFits DEF CompleteAdmitted, WellFormed
  <2>3. CASE Cur.op = "replace" /\ Admitted(Cur)
    <3>1. Plan(Cur) = Migration \o ReplacePlan(Cur) /\ ReplaceAdmitted(Cur) BY <2>3, PlanOf
    <3> QED BY <3>1, <2>3, <1>0, <1>5, ReplaceFits DEF ReplaceAdmitted, WellFormed
  <2> QED BY <2>1, <2>2, <2>3 DEF RegOps
<1>12. Preparing'
  <2> SUFFICES ASSUME Cur.op = "prepare", Admitted(Cur)
               PROVE  /\ Plan(Cur) = <<Put(IF port THEN "enr" ELSE "file", Cur.rec)>>
                      /\ Answer(Cur) = Cur.rec /\ Routed = Absent
    BY <1>1, <1>2, <1>3 DEF Preparing
  <2>1. Plan(Cur) = PreparePlan(Cur) /\ PrepareAdmitted(Cur) BY PlanOf
  <2> QED BY <2>1 DEF PreparePlan, PrepareAdmitted, Answer
<1>13. Removing'
  <2> SUFFICES ASSUME Cur.op = "remove", Admitted(Cur)
               PROVE  /\ consumed \subseteq left
                      /\ \A k \in 1..Len(Plan(Cur)) :
                           Plan(Cur)[k].slot \in RegSlots /\ Plan(Cur)[k].value # Absent => k = 1
                      /\ WellFormed(Routed)
    BY <1>1, <1>2, <1>3 DEF Removing
  <2>1. Plan(Cur) = Migration \o RemovePlan(Cur) /\ RemoveAdmitted(Cur) BY PlanOf
  <2>2. WellFormed(Routed) /\ Routed = Cur.rev BY <2>1 DEF RemoveAdmitted
  <2>3. Routed.req \in left BY <2>2, <1>0 DEF JobShape
  <2>4. consumed \subseteq left BY <2>3 DEF SpentIsResumable
  <2> QED BY <2>1, <2>2, <2>4, <1>0, <1>5, RemoveFits
<1>14. Saving'
  <2> SUFFICES ASSUME Cur.op = "saveSession"
               PROVE  Plan(Cur) = IF port THEN <<Put("sess", Cur.rec), Clear("sfile")>>
                                          ELSE <<Put("sfile", Cur.rec)>>
    BY <1>1, <1>2 DEF Saving
  <2> QED BY PlanOf DEF SaveSessionPlan
<1>15. Loading'
  <2> SUFFICES ASSUME Cur.op = "loadSession"
               PROVE  /\ port /\ Answer(Cur).kind = "session"
                      /\ Plan(Cur) = <<Put("sess", Answer(Cur)), Clear("sfile")>>
    BY <1>1, <1>2 DEF Loading
  <2>1. Answer(Cur) = RoutedSession BY DEF Answer
  <2> QED BY <2>1, <1>0, <1>4, SessionFits
<1> QED BY <1>3, <1>7, <1>8, <1>9, <1>10, <1>11, <1>12, <1>13, <1>14, <1>15

\* What a step of the chain leaves alone.
StoreFrame == UNCHANGED <<accountVars, enroll, device, restored, coordinator, fresh>>

\* The places keep what they hold, or one write of the running operation arrives.
StoreMoves == UNCHANGED <<port, store>> \/ (Running /\ Written)

-----------------------------------------------------------------------------
(* The steps of the store. *)

\* The frame of the store's steps, variable by variable.
LEMMA FrameParts ==
  ASSUME StoreFrame
  PROVE  UNCHANGED <<acct, tokens, account, restore, waiting, ready, enroll, device, restored,
                     issued, consumed, left, fresh>>
BY DEF StoreFrame, accountVars, coordinator

\* The invariant, part by part.
LEMMA IInvParts ==
  ASSUME IInv
  PROVE  /\ StoreInv /\ Types /\ Shapes /\ Order /\ NoOrphans /\ Places /\ Stuck /\ Planned
         /\ SameId /\ Keeping /\ Preparing /\ Removing /\ Saving /\ Loading
         /\ Replies /\ Workflow /\ Accounts /\ Restoring /\ SpentIsResumable
BY DEF IInv, StoreInv

\* An operation that writes a session is a login's, a restoration's or nobody's.
LEMMA SessionWriter ==
  ASSUME IInv, Running, Written, Cur.plan[1].slot = "sess", Cur.plan[1].value # Absent
  PROVE  /\ Cur.op \in {"saveSession", "loadSession"}
         /\ account.pc # "adopt"
         /\ \A i \in Index : jobs[i].op # "removeSession"
<1>1. WriteShape(Cur, Cur.plan[1]) /\ JobShape(Cur) BY IInvParts, FirstWrite
<1>2. Cur.op \in {"saveSession", "loadSession"} BY <1>1 DEF WriteShape, SessSlots
<1>3. 1 \in Index /\ Len(jobs) \in Nat BY IInvParts, PlanForm
<1>4. account.pc # "adopt"
  <2> SUFFICES ASSUME account.pc = "adopt" PROVE FALSE OBVIOUS
  <2>1. Cur.by # Nobody BY <1>3, IInvParts DEF NoOrphans, Cur
  <2>2. restore = "adopt" BY IInvParts DEF Accounts
  <2> QED BY <2>1, <2>2, <1>1, <1>2 DEF JobShape
<1>5. ASSUME NEW i \in Index, jobs[i].op = "removeSession" PROVE FALSE
  <2>1. CASE i = 1 BY <2>1, <1>2, <1>5 DEF Cur
  <2>2. CASE i # 1
    <3>1. 1 < i BY <2>2, <1>3 DEF Index
    <3> QED BY <3>1, <1>2, <1>3, <1>5, IInvParts DEF Order, Cur
  <2> QED BY <2>1, <2>2
<1> QED BY <1>2, <1>4, <1>5

\* How the core's session can change under a step of the store.
LEMMA MovedSession ==
  ASSUME IInv, StoreMoves
  PROVE  \/ store'["sess"] = store["sess"]
         \/ store'["sess"] = Absent
         \/ account.pc # "adopt" /\ \A i \in Index : jobs[i].op # "removeSession"
<1>1. CASE UNCHANGED <<port, store>> BY <1>1
<1>2. CASE Running /\ Written
  <2>1. store'["sess"] = IF "sess" = Cur.plan[1].slot THEN Cur.plan[1].value ELSE store["sess"]
    BY <1>2, IInvParts, WrittenPlaces DEF SessSlots
  <2> QED BY <1>2, <2>1, SessionWriter
<1> QED BY <1>1, <1>2 DEF StoreMoves

\* An operation keeps its shape under a step of the store that keeps the sessions it is
\* about.
LEMMA ShapeKept ==
  ASSUME NEW x, JobShape(x), StoreFrame,
         x.op = "removeSession" => (store'["sess"].kind = "session" => ~Accepts(store["sess"].token)')
  PROVE  JobShape(x)'
BY FrameParts DEF JobShape, Accepts

\* Every queued operation does.
LEMMA MovedShapes ==
  ASSUME IInv, StoreMoves, StoreFrame, NEW i \in Index, NEW x, x = jobs[i]
  PROVE  JobShape(x)'
<1>1. JobShape(x) BY IInvParts DEF Shapes
<1>2. ASSUME x.op = "removeSession", store'["sess"].kind = "session"
      PROVE  ~Accepts(store["sess"].token)'
  <2>1. store'["sess"] = store["sess"] \/ store'["sess"] = Absent BY <1>2, MovedSession
  <2>2. store'["sess"] = store["sess"] BY <2>1, <1>2, KindsOfForms
  <2>3. ~Accepts(store["sess"].token) BY <1>1, <1>2, <2>2 DEF JobShape
  <2> QED BY <2>2, <2>3, FrameParts DEF Accepts
<1> QED BY <1>1, <1>2, ShapeKept

\* Between the load of a pending record and its submission nothing removes it.
LEMMA MovedWorkflow ==
  ASSUME IInv, StoreMoves, StoreFrame
  PROVE  Workflow'
<1>1. UNCHANGED <<enroll, device>> BY FrameParts
<1> SUFFICES ASSUME enroll.pc = "submit" PROVE WellFormed(Routed') /\ Routed'.req = enroll.req
  BY <1>1, IInvParts DEF Workflow
<1>2. WellFormed(Routed) /\ Routed.req = enroll.req BY IInvParts DEF Workflow
<1>3. CASE UNCHANGED <<port, store>>
  <2>1. Routed' = Routed BY <1>3 DEF Routed
  <2> QED BY <2>1, <1>2
<1>4. CASE Running /\ Written
  <2>1. 1 \in Index BY <1>4, IInvParts, PlanForm
  <2>2. Cur.by # Nobody BY <2>1, IInvParts DEF NoOrphans, Cur
  <2>3. JobShape(Cur) /\ Cur.op \in Ops BY <1>4, IInvParts, FirstWrite
  <2>4. Awaited(enroll.pc) = "none" BY DEF Awaited
  <2>5. Cur.op \notin {"prepare", "complete", "remove"} BY <2>2, <2>3, <2>4 DEF JobShape
  <2>6. WellFormed(Routed')
    <3>1. CASE Cur.op \in RegOps BY <3>1, <1>4, <2>5, IInvParts, WrittenRouted DEF Keeps
    <3>2. CASE Cur.op \notin RegOps
      <4>1. Cur.plan[1].slot \in SessSlots
        BY <3>2, <1>4, IInvParts, FirstWrite DEF WriteShape, Slots, SessSlots, RegSlots
      <4> QED BY <4>1, <1>2, <1>4, IInvParts, WrittenRouted
    <3> QED BY <3>1, <3>2
  <2>7. PICK q \in Requests : OneReq(q) BY IInvParts DEF SameId
  <2>8. q = enroll.req BY <2>7, <1>2, RoutedIsHeld
  <2> QED BY <2>6, <2>7, <2>8, <1>4, IInvParts, WrittenPlaces
<1> QED BY <1>3, <1>4 DEF StoreMoves

\* The places after a step of the store.
LEMMA MovedStore ==
  ASSUME IInv, StoreMoves, StoreFrame
  PROVE  /\ port' \in BOOLEAN /\ store' \in [Slots -> Records] /\ Places' /\ SpentIsResumable'
         /\ \A q : OneReq(q) => HeldReq(q)'
         /\ ResurrectionStep
<1>1. CASE UNCHANGED <<port, store>>
  <2>1. Routed' = Routed BY <1>1 DEF Routed
  <2>2. port' \in BOOLEAN /\ store' \in [Slots -> Records] BY <1>1, IInvParts DEF Types, StoreTypeOK
  <2>3. Places' BY <1>1, IInvParts DEF Places
  <2>4. SpentIsResumable' BY <2>1, FrameParts, IInvParts DEF SpentIsResumable
  <2>5. \A q : OneReq(q) => HeldReq(q)' BY <1>1 DEF OneReq, HeldReq
  <2>6. ResurrectionStep BY <1>1, <2>1, RoutedIsHeld, IInvParts DEF ResurrectionStep
  <2> QED BY <2>2, <2>3, <2>4, <2>5, <2>6
<1>2. CASE Running /\ Written
  <2>1. port' \in BOOLEAN BY <1>2, IInvParts DEF Types, StoreTypeOK, Written
  <2>2. SpentIsResumable' BY <1>2, IInvParts, WrittenSpent, FrameParts
  <2>3. ResurrectionStep BY <1>2, IInvParts, WrittenResurrects
  <2>4. store' \in [Slots -> Records] /\ Places' /\ \A q : OneReq(q) => HeldReq(q)'
    BY <1>2, IInvParts, WrittenPlaces DEF HeldReq
  <2> QED BY <2>1, <2>2, <2>3, <2>4
<1> QED BY <1>1, <1>2 DEF StoreMoves

\* The account's facts after a step of the store.
LEMMA MovedAccounts ==
  ASSUME IInv, StoreMoves, StoreFrame
  PROVE  /\ Accounts'
         /\ restore' = "load" /\ HasSession' => \A s \in SessSlots : store'[s] \in {Absent, Session(acct)}
         /\ LoginStep
<1>1. UNCHANGED <<acct, tokens, account, restore, waiting, ready>> BY FrameParts
<1>2. Accounts' BY <1>1, MovedSession, IInvParts DEF Accounts
<1>3. ASSUME restore = "load", HasSession PROVE \A s \in SessSlots : store'[s] \in {Absent, Session(acct)}
  <2>1. CASE UNCHANGED <<port, store>> BY <2>1, <1>3, IInvParts DEF Restoring
  <2>2. CASE Running /\ Written
    <3>1. \A s \in SessSlots : store'[s] = IF s = Cur.plan[1].slot THEN Cur.plan[1].value ELSE store[s]
      BY <2>2, IInvParts, WrittenPlaces
    <3>2. 1 \in 1..Len(Cur.plan) BY <2>2, IInvParts, FirstWrite
    <3>3. /\ \A s \in SessSlots : store[s] \in {Absent, Session(acct)}
          /\ Cur.plan[1].slot \in SessSlots => Cur.plan[1].value \in {Absent, Session(acct)}
      BY <3>2, <2>2, <1>3, IInvParts DEF Restoring
    <3> QED BY <3>1, <3>3
  <2> QED BY <2>1, <2>2 DEF StoreMoves
<1>4. LoginStep
  <2> SUFFICES ASSUME store["sess"].kind = "session", store'["sess"] = Absent,
                      Accepts(store["sess"].token)
               PROVE  Busy /\ Head(jobs).op = "remove"
    BY <1>1 DEF LoginStep
  <2>1. store' # store BY KindsOfForms
  <2>2. Running /\ Written BY <2>1 DEF StoreMoves
  <2>3. store'["sess"] = IF "sess" = Cur.plan[1].slot THEN Cur.plan[1].value ELSE store["sess"]
    BY <2>2, IInvParts, WrittenPlaces DEF SessSlots
  <2>4. Cur.plan[1].slot = "sess" /\ Cur.plan[1].value = Absent BY <2>3, KindsOfForms
  <2>5. WriteShape(Cur, Cur.plan[1]) /\ JobShape(Cur) BY <2>2, IInvParts, FirstWrite
  <2>6. Cur.op \in {"remove", "removeSession"} BY <2>4, <2>5 DEF WriteShape
  <2>7. Cur.op # "removeSession" BY <2>5 DEF JobShape
  <2>8. Busy /\ Head(jobs) = Cur BY <2>2, IInvParts, PlanForm DEF Busy, Running
  <2> QED BY <2>6, <2>7, <2>8
<1>5. HasSession' <=> HasSession BY <1>1 DEF HasSession
<1> QED BY <1>1, <1>2, <1>3, <1>4, <1>5

\* The running operation ends, with an answer for whoever waits for it.
Ended(ok, value) ==
  /\ Settled /\ Busy
  /\ jobs' = Tail(jobs)
  /\ reply' = IF Cur.by = Nobody THEN NoReply ELSE [to |-> Cur.by, ok |-> ok, value |-> value]
  /\ StoreMoves /\ StoreFrame /\ faults' \in 0..MaxFaults

\* What the answer must say.
Told(ok, value) ==
  ok =>
    /\ Cur.by = "enrollment" /\ Cur.op \in {"load", "prepare"} =>
         /\ WellFormed(value) /\ WellFormed(Routed') /\ Routed'.req = value.req
         /\ Cur.op = "prepare" => value.kind = "pending"
    /\ Cur.by = "login" => \A s \in SessSlots : store'[s] \in {Absent, Cur.rec}
    /\ Cur.by = "restore" /\ Cur.op = "loadSession" /\ value.kind = "session" /\ account.pc # "persist" =>
         store'["sess"] \in {Absent, value}
    /\ Cur.op = "loadSession" /\ restore = "load" /\ HasSession => value \in {Absent, Session(acct)}

\* The chain after its head has ended.
LEMMA EndedQueue ==
  ASSUME IInv, NEW ok, NEW value, Ended(ok, value)
  PROVE  /\ jobs' \in Seq(Jobs) /\ Index' = 1..Len(jobs) - 1
         /\ \A i \in Index' : i + 1 \in Index /\ 1 < i + 1 /\ jobs'[i] = jobs[i + 1]
         /\ \A i, k \in Index' : i < k => i + 1 < k + 1
         /\ 1 \in Index /\ Cur \in Jobs /\ JobShape(Cur)
         /\ ~Running'
<1>1. /\ jobs \in Seq(Jobs) /\ jobs # <<>> /\ 1 \in Index /\ Cur \in Jobs /\ JobShape(Cur)
      /\ Len(jobs) \in Nat /\ Len(jobs) >= 1
  BY IInvParts, HeadForm DEF Ended
<1>2. /\ jobs' \in Seq(Jobs) /\ Len(jobs') = Len(jobs) - 1
      /\ \A i \in 1..Len(jobs) - 1 : jobs'[i] = jobs[i + 1]
  BY <1>1, TailQueue DEF Ended
<1>3. Index' = 1..Len(jobs) - 1 BY <1>2 DEF Index
<1>4. \A i \in 1..Len(jobs) - 1 : i + 1 \in Index /\ 1 < i + 1 BY <1>1 DEF Index
<1>5. \A i, k \in 1..Len(jobs) - 1 : i < k => i + 1 < k + 1 BY <1>1
<1>6. ~Running'
  <2> SUFFICES ASSUME jobs' # <<>>, jobs'[1].begun PROVE FALSE BY DEF Running, Cur
  <2>1. Len(jobs') >= 1 /\ Len(jobs') \in Nat BY <1>2, TailQueue
  <2>2. 1 \in 1..Len(jobs) - 1 BY <2>1, <1>1, <1>2
  <2>3. jobs[2].begun /\ 2 \in Index BY <2>2, <1>2, <1>4
  <2> QED BY <2>3, IInvParts DEF Order
<1> QED BY <1>1, <1>2, <1>3, <1>4, <1>5, <1>6

\* The types when the head ends.
LEMMA EndedTypes ==
  ASSUME IInv, NEW ok \in BOOLEAN, NEW value \in Records, Ended(ok, value)
  PROVE  Types'
<1>1. jobs' \in Seq(Jobs) /\ Cur \in Jobs BY EndedQueue
<1>2. port' \in BOOLEAN /\ store' \in [Slots -> Records] BY MovedStore DEF Ended
<1>3. reply' \in [to : Clients \cup {Nobody}, ok : BOOLEAN, value : Records]
  BY <1>1, RecordForms DEF Ended, Jobs, NoReply
<1>4. UNCHANGED <<acct, tokens, account, restore, waiting, ready, enroll, device, restored,
                     issued, consumed, left, fresh>> BY FrameParts DEF Ended
<1> QED BY <1>1, <1>2, <1>3, <1>4, IInvParts DEF Types, StoreTypeOK, Ended

\* The order of the chain when the head ends.
LEMMA EndedOrder ==
  ASSUME IInv, NEW ok, NEW value, Ended(ok, value)
  PROVE  Order' /\ NoOrphans' /\ Shapes'
<1>1. /\ \A i \in Index' : i + 1 \in Index /\ 1 < i + 1 /\ jobs'[i] = jobs[i + 1]
      /\ \A i, k \in Index' : i < k => i + 1 < k + 1
      /\ 1 \in Index
  BY EndedQueue
<1>2. ASSUME NEW i \in Index' PROVE ~jobs'[i].begun
  BY <1>1, IInvParts DEF Order
<1>3. ASSUME NEW i \in Index', NEW k \in Index', i < k
      PROVE  /\ jobs'[k].by = Nobody => jobs'[i].by = Nobody
             /\ jobs'[i].by = jobs'[k].by => jobs'[i].by \in {Nobody, "device"}
             /\ jobs'[k].op = "removeSession" => jobs'[i].op \notin {"saveSession", "loadSession"}
  BY <1>1, <1>3, IInvParts DEF Order
<1>4. ASSUME reply'.to # Nobody, NEW i \in Index'
      PROVE  jobs'[i].by # Nobody /\ (jobs'[i].by = reply'.to => reply'.to = "device")
  <2>1. Cur.by # Nobody /\ reply'.to = Cur.by BY <1>4 DEF Ended, NoReply
  <2>2. i + 1 \in Index /\ 1 < i + 1 /\ jobs'[i] = jobs[i + 1] BY <1>1
  <2>3. /\ jobs[i + 1].by = Nobody => jobs[1].by = Nobody
        /\ jobs[1].by = jobs[i + 1].by => jobs[1].by \in {Nobody, "device"}
    BY <2>2, <1>1, IInvParts DEF Order
  <2> QED BY <2>1, <2>2, <2>3 DEF Cur
<1>5. Order' BY <1>2, <1>3, <1>4 DEF Order
<1>6. NoOrphans'
  <2>1. UNCHANGED <<acct, account, ready, enroll>> BY FrameParts DEF Ended
  <2> QED BY <2>1, <1>1, IInvParts DEF NoOrphans
<1>7. Shapes'
  <2> SUFFICES ASSUME NEW i \in Index' PROVE JobShape(jobs[i])' BY DEF Shapes
  <2>1. i + 1 \in Index /\ jobs'[i] = jobs[i + 1] BY <1>1
  <2>2. PICK x : x = jobs[i + 1] OBVIOUS
  <2>3. JobShape(x)' BY <2>1, <2>2, MovedShapes DEF Ended
  <2> QED BY <2>1, <2>2, <2>3 DEF JobShape
<1> QED BY <1>5, <1>6, <1>7

\* An operation that ends with a true answer keeps the invariant.
LEMMA EndedKeeps ==
  ASSUME IInv, NEW ok \in BOOLEAN, NEW value \in Records, Ended(ok, value), Told(ok, value)
  PROVE  IInv' /\ ResurrectionStep /\ LoginStep
<1>1. Types' BY EndedTypes
<1>2. Order' /\ NoOrphans' /\ Shapes' BY EndedOrder
<1>3. ~Running' /\ 1 \in Index /\ Cur \in Jobs /\ JobShape(Cur) BY EndedQueue
<1>4. /\ Places' /\ SpentIsResumable' /\ ResurrectionStep
      /\ \A q : OneReq(q) => HeldReq(q)'
  BY MovedStore DEF Ended
<1>5. SameId'
  <2>1. PICK q \in Requests : OneReq(q) BY IInvParts DEF SameId
  <2>2. HeldReq(q)' BY <2>1, <1>4
  <2>3. OneReq(q)' BY <2>2, <1>3 DEF OneReq, HeldReq
  <2> QED BY <2>3 DEF SameId
<1>6. /\ Stuck' /\ Planned' /\ Keeping' /\ Preparing' /\ Removing' /\ Saving' /\ Loading'
  BY <1>3 DEF Stuck, Planned, Keeping, Preparing, Removing, Saving, Loading
<1>7. Workflow' BY MovedWorkflow DEF Ended
<1>8. /\ Accounts' /\ LoginStep
      /\ restore' = "load" /\ HasSession' => \A s \in SessSlots : store'[s] \in {Absent, Session(acct)}
  BY MovedAccounts DEF Ended
<1>9. UNCHANGED <<acct, tokens, account, restore, enroll>> BY FrameParts DEF Ended
<1>10. reply'.to # Nobody => reply'.to = Cur.by /\ reply'.ok = ok /\ reply'.value = value
  BY DEF Ended, NoReply
<1>11. Restoring'
  <2>1. HasSession' <=> HasSession BY <1>9 DEF HasSession
  <2>2. ASSUME restore = "load", HasSession, reply'.to = "restore", reply'.ok
        PROVE  reply'.value \in {Absent, Session(acct)}
    <3>1. Cur.by = "restore" /\ ok /\ reply'.value = value BY <1>10, <2>2 DEF Nobody
    <3>2. Cur.op = "loadSession" BY <3>1, <2>2, <1>3 DEF JobShape
    <3> QED BY <3>1, <3>2, <2>2 DEF Told
  <2> QED BY <2>1, <2>2, <1>3, <1>8, <1>9 DEF Restoring
<1>12. Replies'
  <2>1. ASSUME reply'.to = "enrollment"
        PROVE  /\ Awaited(enroll.pc) # "none"
               /\ reply'.ok /\ Awaited(enroll.pc) \in {"load", "prepare"} =>
                    /\ WellFormed(reply'.value) /\ WellFormed(Routed')
                    /\ Routed'.req = reply'.value.req
                    /\ Awaited(enroll.pc) = "prepare" => reply'.value.kind = "pending"
    <3>1. Cur.by = "enrollment" /\ reply'.ok = ok /\ reply'.value = value BY <1>10, <2>1 DEF Nobody
    <3>2. Cur.op = Awaited(enroll.pc) BY <3>1, <1>3 DEF JobShape
    <3>3. Cur.op \in Ops BY <1>3 DEF Jobs
    <3>4. Cur.op # "none" BY <3>3 DEF Ops
    <3> QED BY <3>1, <3>2, <3>4 DEF Told
  <2>2. ASSUME reply'.to = "login"
        PROVE  /\ account.pc = "persist"
               /\ reply'.ok => \A s \in SessSlots : store'[s] \in {Absent, Session(account.tok)}
    <3>1. Cur.by = "login" /\ reply'.ok = ok BY <1>10, <2>2 DEF Nobody
    <3>2. account.pc = "persist" /\ Cur.rec = Session(account.tok) BY <3>1, <1>3 DEF JobShape
    <3> QED BY <3>1, <3>2 DEF Told
  <2>3. ASSUME reply'.to = "restore"
        PROVE  /\ restore \in {"load", "drop"}
               /\ restore = "load" /\ reply'.ok /\ reply'.value.kind = "session"
                    /\ account.pc # "persist" => store'["sess"] \in {Absent, reply'.value}
    <3>1. Cur.by = "restore" /\ reply'.ok = ok /\ reply'.value = value BY <1>10, <2>3 DEF Nobody
    <3>2. restore \in {"load", "drop"} /\ (restore = "load" => Cur.op = "loadSession")
      BY <3>1, <1>3 DEF JobShape
    <3> QED BY <3>1, <3>2 DEF Told
  <2> QED BY <2>1, <2>2, <2>3, <1>9 DEF Replies
<1> QED BY <1>1, <1>2, <1>4, <1>5, <1>6, <1>7, <1>8, <1>11, <1>12 DEF IInv

\* The head goes on: the chain is the same chain of operations.
Continued ==
  /\ Settled /\ UNCHANGED reply
  /\ jobs' \in Seq(Jobs) /\ Index' = Index /\ Running'
  /\ \A i \in Index : /\ jobs'[i].op = jobs[i].op /\ jobs'[i].by = jobs[i].by
                      /\ jobs'[i].rec = jobs[i].rec /\ jobs'[i].rev = jobs[i].rev
                      /\ jobs'[i].begun => i = 1
  /\ StoreMoves /\ StoreFrame /\ faults' \in 0..MaxFaults

\* An operation that goes on keeps what is not about its plan.
LEMMA ContinuedKeeps ==
  ASSUME IInv, Continued
  PROVE  /\ Types' /\ Shapes' /\ Order' /\ NoOrphans' /\ Places' /\ SpentIsResumable'
         /\ Replies' /\ Workflow' /\ Accounts' /\ ResurrectionStep /\ LoginStep
<1>1. UNCHANGED <<acct, tokens, account, restore, waiting, ready, enroll, device, restored,
                     issued, consumed, left, fresh>> BY FrameParts DEF Continued
<1>2. port' \in BOOLEAN /\ store' \in [Slots -> Records] /\ Places' /\ SpentIsResumable' /\ ResurrectionStep
  BY MovedStore DEF Continued
<1>3. Types' BY <1>1, <1>2, IInvParts DEF Types, StoreTypeOK, Continued
<1>4. Shapes'
  <2> SUFFICES ASSUME NEW i \in Index PROVE JobShape(jobs[i])' BY DEF Shapes, Continued
  <2>1. PICK x : x = jobs[i] OBVIOUS
  <2>2. JobShape(x)' BY <2>1, MovedShapes DEF Continued
  <2>3. PICK y : y = jobs'[i] OBVIOUS
  <2>4. y.op = x.op /\ y.by = x.by /\ y.rec = x.rec /\ y.rev = x.rev
    BY <2>1, <2>3 DEF Continued
  <2>5. JobShape(y)' BY <2>2, <2>4 DEF JobShape
  <2> QED BY <2>3, <2>5 DEF JobShape
<1>5. Order'
  <2>1. reply' = NoReply /\ Settled' BY DEF Continued, Settled
  <2>2. \A i \in Index : jobs'[i].begun => i = 1 /\ Settled' BY <2>1 DEF Continued
  <2>3. reply'.to = Nobody BY <2>1 DEF NoReply
  <2>4. ASSUME NEW i \in Index, NEW k \in Index, i < k
        PROVE  /\ jobs'[k].by = Nobody => jobs'[i].by = Nobody
               /\ jobs'[i].by = jobs'[k].by => jobs'[i].by \in {Nobody, "device"}
               /\ jobs'[k].op = "removeSession" => jobs'[i].op \notin {"saveSession", "loadSession"}
    BY <2>4, IInvParts DEF Order, Continued
  <2>5. Index' = Index BY DEF Continued
  <2> QED BY <2>2, <2>3, <2>4, <2>5 DEF Order
<1>6. NoOrphans' BY <1>1, IInvParts DEF NoOrphans, Continued
<1>7. Replies'
  <2>1. reply'.to = Nobody BY DEF Continued, Settled, NoReply
  <2> QED BY <2>1 DEF Replies, Nobody
<1>8. Workflow' BY MovedWorkflow DEF Continued
<1>9. Accounts' /\ LoginStep BY MovedAccounts DEF Continued
<1> QED BY <1>2, <1>3, <1>4, <1>5, <1>6, <1>7, <1>8, <1>9

\* The unchanging rest of a step of the chain.
ChainFrame == StoreFrame /\ faults' \in 0..MaxFaults

\* The head reads the places and begins, or ends at once (Begin).
LEMMA BeginKeeps ==
  ASSUME IInv, Begin, ChainFrame
  PROVE  IInv' /\ ResurrectionStep /\ LoginStep
<1>1. /\ jobs \in Seq(Jobs) /\ jobs # <<>> /\ Len(jobs) \in Nat /\ Len(jobs) >= 1
      /\ Cur \in Jobs /\ Head(jobs) = Cur /\ 1 \in Index /\ JobShape(Cur)
  BY IInvParts, HeadForm DEF Begin
<1>2. /\ Settled /\ Busy /\ ~Cur.begun /\ UNCHANGED <<port, store>>
      /\ IF Plan(Cur) = <<>> THEN Finish(Cur, Admitted(Cur), Answer(Cur))
         ELSE /\ jobs' = [jobs EXCEPT ![1].begun = TRUE, ![1].plan = Plan(Cur),
                                      ![1].ok = Admitted(Cur), ![1].value = Answer(Cur)]
              /\ UNCHANGED reply
  BY <1>1 DEF Begin
<1>3. ~Running BY <1>2 DEF Running
<1>4. StoreMoves BY <1>2 DEF StoreMoves
<1>5. CASE Plan(Cur) = <<>>
  <2>1. PICK ok \in BOOLEAN : ok = Admitted(Cur) BY DEF Admitted
  <2>2. PICK value \in Records : value = Answer(Cur) BY <1>1, IInvParts, AnswerIsRecord
  <2>3. Ended(ok, value) BY <1>2, <1>4, <1>5, <2>1, <2>2 DEF Finish, Ended, ChainFrame
  <2>4. Routed' = Routed BY <1>2 DEF Routed
  <2>5. Cur.op \notin {"prepare", "saveSession"} \/ ~ok
    <3>1. CASE Cur.op = "saveSession" BY <3>1, <1>1, <1>5, SessionFits, IInvParts
    <3>2. CASE Cur.op = "prepare" /\ ok
      <4>1. Plan(Cur) = PreparePlan(Cur) /\ PrepareAdmitted(Cur) BY <3>2, <2>1, PlanOf
      <4> QED BY <4>1, <3>2, <1>1, <1>5, PrepareFits, IInvParts
    <3> QED BY <3>1, <3>2
  <2>6. ASSUME ok, Cur.op = "load" PROVE WellFormed(value) /\ value = Routed
    BY <2>6, <2>1, <2>2, PlanOf DEF Answer
  <2>7. ASSUME Cur.op = "loadSession"
        PROVE  /\ value.kind = "session" => store'["sess"] \in {Absent, value}
               /\ restore = "load" /\ HasSession => value \in {Absent, Session(acct)}
    <3>1. value = RoutedSession BY <2>2, <2>7 DEF Answer
    <3>2. /\ RoutedSession.kind = "session" => store["sess"] \in {Absent, RoutedSession}
          /\ RoutedSession \in {store["sess"], store["sfile"]}
      BY <2>7, <1>1, <1>5, SessionFits, IInvParts
    <3>3. restore = "load" /\ HasSession =>
            store["sess"] \in {Absent, Session(acct)} /\ store["sfile"] \in {Absent, Session(acct)}
      BY IInvParts DEF Restoring, SessSlots
    <3> QED BY <3>1, <3>2, <3>3, <1>2
  <2>8. Cur.by = "login" => Cur.op = "saveSession" BY <1>1 DEF JobShape
  <2>9. Told(ok, value) BY <2>4, <2>5, <2>6, <2>7, <2>8 DEF Told
  <2> QED BY <2>3, <2>9, EndedKeeps
<1>6. CASE Plan(Cur) # <<>>
  <2>1. Begun BY <1>2, <1>6 DEF Begun
  <2>2. /\ jobs' \in Seq(Jobs) /\ Index' = Index
        /\ Running'
        /\ \A i \in Index : i # 1 => jobs'[i] = jobs[i]
        /\ Cur'.op = Cur.op /\ Cur'.by = Cur.by /\ Cur'.rec = Cur.rec /\ Cur'.rev = Cur.rev
        /\ Cur'.plan = Plan(Cur) /\ Cur'.value = Answer(Cur)
    BY <2>1, <1>3, IInvParts, BegunJob
  <2>3. Continued
    <3>1. \A i \in Index : i # 1 => ~jobs[i].begun BY IInvParts DEF Order
    <3>2. \A i \in Index : /\ jobs'[i].op = jobs[i].op /\ jobs'[i].by = jobs[i].by
                           /\ jobs'[i].rec = jobs[i].rec /\ jobs'[i].rev = jobs[i].rev
                           /\ jobs'[i].begun => i = 1
      BY <2>2, <3>1 DEF Cur
    <3> QED BY <2>2, <3>2, <1>2, <1>4, <1>6 DEF Continued, ChainFrame
  <2>4. /\ Types' /\ Shapes' /\ Order' /\ NoOrphans' /\ Places' /\ SpentIsResumable'
        /\ Replies' /\ Workflow' /\ Accounts' /\ ResurrectionStep /\ LoginStep
    BY <2>3, ContinuedKeeps
  <2>5. /\ Places' /\ Stuck' /\ Planned' /\ SameId' /\ Keeping' /\ Preparing' /\ Removing'
        /\ Saving' /\ Loading'
    BY <2>1, <1>3, IInvParts, BegunKeeps, FrameParts DEF ChainFrame
  <2>6. Restoring'
    <3>1. UNCHANGED <<acct, tokens, restore>> BY FrameParts DEF ChainFrame
    <3>2. HasSession' <=> HasSession BY <3>1 DEF HasSession
    <3>3. reply'.to # "restore" BY <2>3 DEF Continued, Settled, NoReply, Nobody
    <3> SUFFICES ASSUME restore = "load", HasSession
                 PROVE  /\ \A s \in SessSlots : store[s] \in {Absent, Session(acct)}
                        /\ \A k \in 1..Len(Plan(Cur)) : Plan(Cur)[k].slot \in SessSlots =>
                             Plan(Cur)[k].value \in {Absent, Session(acct)}
                        /\ Cur.op = "loadSession" => Answer(Cur) \in {Absent, Session(acct)}
      BY <3>1, <3>2, <3>3, <2>2, <1>2 DEF Restoring
    <3>4. \A s \in SessSlots : store[s] \in {Absent, Session(acct)} BY IInvParts DEF Restoring
    <3>5. Cur.op = "loadSession" =>
            /\ Answer(Cur) = store["sfile"]
            /\ \A k \in 1..Len(Plan(Cur)) : Plan(Cur)[k].value \in {Absent, store["sfile"]}
      BY <1>1, <1>6, IInvParts, SessionFits DEF Answer
    <3>6. Cur.op # "saveSession"
      <4> SUFFICES ASSUME Cur.op = "saveSession" PROVE FALSE OBVIOUS
      <4>1. Cur.by \in {"login", Nobody} BY <1>1 DEF JobShape
      <4>2. acct # NoToken BY DEF HasSession
      <4>3. Cur.by # Nobody BY <4>2, <1>1, IInvParts DEF NoOrphans, Cur
      <4>4. account.pc = "persist" BY <4>1, <4>3, <1>1 DEF JobShape
      <4> QED BY <4>2, <4>4, IInvParts DEF Accounts
    <3>7. \A k \in 1..Len(Plan(Cur)) :
            Plan(Cur)[k].slot \in SessSlots /\ Plan(Cur)[k].value # Absent => Cur.op = "loadSession"
      <4>1. \A k \in 1..Len(Cur'.plan) : WriteShape(Cur, Cur.plan[k])'
        BY <2>2, <2>5 DEF Planned
      <4> QED BY <4>1, <2>2, <3>6 DEF WriteShape
    <3> QED BY <3>4, <3>5, <3>7 DEF SessSlots
  <2> QED BY <2>4, <2>5, <2>6 DEF IInv
<1> QED BY <1>5, <1>6

\* One write of the running operation arrives, and it is not the last.
LEMMA GoesOnContinues ==
  ASSUME IInv, Settled, UNCHANGED reply, Running, Written, GoesOn, ChainFrame
  PROVE  IInv' /\ ResurrectionStep /\ LoginStep
<1>1. /\ jobs' \in Seq(Jobs) /\ Index' = Index /\ Running'
      /\ \A i \in Index : i # 1 => jobs'[i] = jobs[i]
      /\ Cur'.op = Cur.op /\ Cur'.by = Cur.by /\ Cur'.rec = Cur.rec /\ Cur'.rev = Cur.rev
      /\ Cur'.value = Cur.value
      /\ Cur'.plan = Tail(Cur.plan)
      /\ \A k \in 1..Len(Cur'.plan) : k + 1 \in 1..Len(Cur.plan) /\ Cur'.plan[k] = Cur.plan[k + 1]
  BY IInvParts, GoneOn
<1>2. Continued
  <2>1. \A i \in Index : i # 1 => ~jobs[i].begun BY IInvParts DEF Order
  <2>2. \A i \in Index : /\ jobs'[i].op = jobs[i].op /\ jobs'[i].by = jobs[i].by
                         /\ jobs'[i].rec = jobs[i].rec /\ jobs'[i].rev = jobs[i].rev
                         /\ jobs'[i].begun => i = 1
    BY <1>1, <2>1 DEF Cur
  <2>3. StoreMoves BY DEF StoreMoves
  <2> QED BY <1>1, <2>2, <2>3 DEF Continued, ChainFrame
<1>3. /\ Types' /\ Shapes' /\ Order' /\ NoOrphans' /\ Places' /\ SpentIsResumable'
      /\ Replies' /\ Workflow' /\ Accounts' /\ ResurrectionStep /\ LoginStep
  BY <1>2, ContinuedKeeps
<1>4. UNCHANGED <<acct, tokens, account, restore, consumed, left>> BY FrameParts DEF ChainFrame
<1>5. Stuck' /\ Planned' /\ SameId' /\ Keeping' /\ Preparing' /\ Removing'
  BY <1>4, IInvParts, GoesOnKeeps
<1>6. \A s \in SessSlots : store'[s] = IF s = Cur.plan[1].slot THEN Cur.plan[1].value ELSE store[s]
  BY IInvParts, WrittenPlaces
<1>7. \A a, b : Tail(<<a, b>>) = <<b>> /\ Len(<<a>>) = 1 /\ <<a, b>>[1] = a OBVIOUS
<1>8. port' = port BY DEF Written
<1>9. Saving'
  <2> SUFFICES ASSUME Cur.op = "saveSession"
               PROVE  port /\ Tail(Cur.plan) = <<Clear("sfile")>> /\ store'["sess"] = Cur.rec
    BY <1>1, <1>8 DEF Saving, Clear
  <2>1. port /\ Cur.plan = <<Put("sess", Cur.rec), Clear("sfile")>>
    BY <1>7, IInvParts DEF Saving, GoesOn
  <2>2. Cur.plan[1] = Put("sess", Cur.rec) /\ Tail(Cur.plan) = <<Clear("sfile")>> BY <2>1, <1>7
  <2>3. store'["sess"] = Cur.rec BY <2>2, <1>6 DEF SessSlots, Put
  <2> QED BY <2>1, <2>2, <2>3
<1>10. Loading'
  <2> SUFFICES ASSUME Cur.op = "loadSession"
               PROVE  /\ port /\ Cur.value.kind = "session"
                      /\ Tail(Cur.plan) = <<Clear("sfile")>> /\ store'["sess"] = Cur.value
    BY <1>1, <1>8 DEF Loading, Clear
  <2>1. port /\ Cur.value.kind = "session" /\ Cur.plan = <<Put("sess", Cur.value), Clear("sfile")>>
    BY <1>7, IInvParts DEF Loading, GoesOn
  <2>2. Cur.plan[1] = Put("sess", Cur.value) /\ Tail(Cur.plan) = <<Clear("sfile")>> BY <2>1, <1>7
  <2>3. store'["sess"] = Cur.value BY <2>2, <1>6 DEF SessSlots, Put
  <2> QED BY <2>1, <2>2, <2>3
<1>11. Restoring'
  <2>1. HasSession' <=> HasSession BY <1>4 DEF HasSession
  <2>2. reply'.to # "restore" BY <1>2 DEF Continued, Settled, NoReply, Nobody
  <2>3. restore' = "load" /\ HasSession' => \A s \in SessSlots : store'[s] \in {Absent, Session(acct)}
    BY <1>2, MovedAccounts DEF Continued
  <2>4. ASSUME restore = "load", HasSession
        PROVE  /\ \A k \in 1..Len(Cur'.plan) : Cur'.plan[k].slot \in SessSlots =>
                    Cur'.plan[k].value \in {Absent, Session(acct)}
               /\ Cur.op = "loadSession" => Cur.value \in {Absent, Session(acct)}
    BY <2>4, <1>1, IInvParts DEF Restoring
  <2> QED BY <2>1, <2>2, <2>3, <2>4, <1>1, <1>4 DEF Restoring
<1> QED BY <1>3, <1>5, <1>9, <1>10, <1>11 DEF IInv

\* The last write of the running operation arrives.
LEMMA LastWriteTells ==
  ASSUME IInv, Running, Written, Len(Cur.plan) = 1
  PROVE  Told(Cur.ok, Cur.value)
<1>1. JobShape(Cur) /\ 1 \in 1..Len(Cur.plan) BY IInvParts, FirstWrite
<1>2. \A s \in SessSlots : store'[s] = IF s = Cur.plan[1].slot THEN Cur.plan[1].value ELSE store[s]
  BY IInvParts, WrittenPlaces
<1>3. \A a, b : Len(<<a, b>>) = 2 /\ <<a>>[1] = a OBVIOUS
<1> SUFFICES ASSUME Cur.ok PROVE Told(TRUE, Cur.value) BY DEF Told
<1>4. PICK q \in Requests : OneReq(q) BY IInvParts DEF SameId
<1>5. WellFormed(Routed') => Routed'.req = q BY <1>4, IInvParts, WrittenPlaces
<1>6. Cur.op \in {"load", "prepare"} => WellFormed(Cur.value) /\ Cur.value.req = q
  BY <1>4 DEF OneReq
<1>7. ASSUME Cur.op = "load" PROVE WellFormed(Routed')
  BY <1>7, IInvParts, WrittenRouted DEF Keeps, RegOps
<1>8. ASSUME Cur.op = "prepare" PROVE Routed' = Cur.rec /\ Cur.value = Cur.rec /\ Cur.rec.kind = "pending"
  BY <1>8, <1>1, IInvParts, WrittenRouted DEF Preparing, JobShape
<1>9. ASSUME Cur.by = "login" PROVE \A s \in SessSlots : store'[s] \in {Absent, Cur.rec}
  <2>1. Cur.op = "saveSession" BY <1>9, <1>1 DEF JobShape
  <2>2. CASE ~port /\ Cur.plan = <<Put("sfile", Cur.rec)>>
    <3>1. Cur.plan[1] = Put("sfile", Cur.rec) BY <2>2
    <3>2. store["sess"] = Absent BY <2>2, IInvParts DEF Places
    <3> QED BY <3>1, <3>2, <1>2 DEF Put, SessSlots
  <2>3. CASE port /\ Cur.plan = <<Clear("sfile")>> /\ store["sess"] = Cur.rec
    <3>1. Cur.plan[1] = Clear("sfile") BY <2>3
    <3> QED BY <3>1, <2>3, <1>2 DEF Clear, SessSlots
  <2> QED BY <2>1, <2>2, <2>3, <1>3, IInvParts DEF Saving
<1>10. ASSUME Cur.op = "loadSession", Cur.by = "restore", account.pc # "persist"
       PROVE  store'["sess"] \in {Absent, Cur.value}
  <2>1. Cur.plan = <<Clear("sfile")>> /\ store["sess"] \in {Absent, Cur.value}
    BY <1>10, <1>3, IInvParts DEF Loading, Nobody
  <2>2. Cur.plan[1] = Clear("sfile") BY <2>1
  <2> QED BY <2>1, <2>2, <1>2 DEF Clear, SessSlots
<1>11. Cur.op = "loadSession" /\ restore = "load" /\ HasSession => Cur.value \in {Absent, Session(acct)}
  BY IInvParts DEF Restoring
<1>12. Cur.by = "enrollment" /\ Cur.op \in {"load", "prepare"} =>
         /\ WellFormed(Cur.value) /\ WellFormed(Routed') /\ Routed'.req = Cur.value.req
         /\ Cur.op = "prepare" => Cur.value.kind = "pending"
  BY <1>5, <1>6, <1>7, <1>8
<1> QED BY <1>9, <1>10, <1>11, <1>12 DEF Told

\* One write of the running operation (Write).
LEMMA WriteKeeps ==
  ASSUME IInv, Write, ChainFrame
  PROVE  IInv' /\ ResurrectionStep /\ LoginStep
<1>1. /\ Settled /\ Busy /\ jobs # <<>> /\ Cur \in Jobs /\ Head(jobs) = Cur
  BY IInvParts, HeadForm DEF Write
<1>2. Running BY <1>1 DEF Write, Running
<1>3. Head(Cur.plan) = Cur.plan[1] BY <1>2, IInvParts, PlanForm
<1>4. CASE Lapsed(Cur)
  <2>1. Finish(Cur, FALSE, Absent) /\ UNCHANGED <<store, port>> BY <1>1, <1>4 DEF Write
  <2>2. Ended(FALSE, Absent) BY <2>1, <1>1 DEF Finish, Ended, ChainFrame, StoreMoves
  <2>3. Told(FALSE, Absent) BY DEF Told
  <2> QED BY <2>2, <2>3, EndedKeeps, RecordForms
<1>5. CASE ~Lapsed(Cur)
  <2>1. Written BY <1>1, <1>3, <1>5 DEF Write, Written
  <2>2. CASE Len(Cur.plan) = 1
    <3>1. Finish(Cur, Cur.ok, Cur.value) BY <1>1, <1>5, <2>2 DEF Write
    <3>2. PICK ok \in BOOLEAN, value \in Records : ok = Cur.ok /\ value = Cur.value
      BY <1>1 DEF Jobs
    <3>3. Ended(ok, value) BY <3>1, <3>2, <2>1, <1>1, <1>2 DEF Finish, Ended, ChainFrame, StoreMoves
    <3>4. Told(ok, value) BY <3>2, <2>1, <2>2, <1>2, LastWriteTells
    <3> QED BY <3>3, <3>4, EndedKeeps
  <2>3. CASE Len(Cur.plan) # 1
    <3>1. GoesOn /\ UNCHANGED reply BY <1>1, <1>5, <2>3 DEF Write, GoesOn
    <3> QED BY <3>1, <2>1, <1>1, <1>2, GoesOnContinues
  <2> QED BY <2>2, <2>3
<1> QED BY <1>4, <1>5

\* The running operation fails (Fail).
LEMMA FailKeeps ==
  ASSUME IInv, Fail, ChainFrame
  PROVE  IInv' /\ ResurrectionStep /\ LoginStep
<1>1. /\ Settled /\ Busy /\ jobs # <<>> /\ Cur \in Jobs /\ Head(jobs) = Cur
  BY IInvParts, HeadForm DEF Fail
<1>2. Finish(Cur, FALSE, Corrupt) BY <1>1 DEF Fail
<1>3. StoreMoves
  <2>1. CASE UNCHANGED store BY <2>1 DEF Fail, StoreMoves
  <2>2. CASE /\ Cur.begun
             /\ store' = [store EXCEPT ![Head(Cur.plan).slot] = Head(Cur.plan).value]
    <3>1. Running BY <2>2, <1>1 DEF Running
    <3>2. Head(Cur.plan) = Cur.plan[1] BY <3>1, IInvParts, PlanForm
    <3> QED BY <3>1, <3>2, <2>2 DEF Written, Fail, StoreMoves
  <2> QED BY <2>1, <2>2, <1>1 DEF Fail
<1>4. Ended(FALSE, Corrupt) BY <1>1, <1>2, <1>3 DEF Finish, Ended, ChainFrame
<1>5. Told(FALSE, Corrupt) BY DEF Told
<1> QED BY <1>4, <1>5, EndedKeeps, RecordForms

\* The store's own steps (StoreStep).
LEMMA StoreStepKeeps ==
  ASSUME IInv, StoreStep
  PROVE  IInv' /\ ResurrectionStep /\ LoginStep
<1>1. ChainFrame BY IInvParts DEF StoreStep, ChainFrame, StoreFrame, Types
<1>2. CASE ScopeLapsed /\ Settled /\ Finish(Head(jobs), FALSE, Absent) /\ UNCHANGED <<port, store>>
  <2>1. Busy BY <1>2 DEF ScopeLapsed
  <2>2. Head(jobs) = Cur BY <2>1, IInvParts, HeadForm
  <2>3. Ended(FALSE, Absent) BY <2>1, <2>2, <1>1, <1>2 DEF Finish, Ended, ChainFrame, StoreMoves
  <2>4. Told(FALSE, Absent) BY DEF Told
  <2> QED BY <2>3, <2>4, EndedKeeps, RecordForms
<1>3. CASE Begin BY <1>1, <1>3, BeginKeeps
<1>4. CASE Write BY <1>1, <1>4, WriteKeeps
<1> QED BY <1>2, <1>3, <1>4 DEF StoreStep

\* A store operation fails (StoreFails).
LEMMA StoreFailsKeeps ==
  ASSUME Constants, IInv, StoreFails
  PROVE  IInv' /\ ResurrectionStep /\ LoginStep
<1>1. faults' \in 0..MaxFaults BY IInvParts DEF StoreFails, Fault, Types, Constants
<1>2. ChainFrame BY <1>1 DEF StoreFails, ChainFrame, StoreFrame
<1> QED BY <1>2, FailKeeps DEF StoreFails
(***************************************************************************)
(* What happens beside the store: one more operation is queued, at most.   *)
(***************************************************************************)

\* The operations in the chain.
Queued == {jobs[i] : i \in Index}

\* None of them is this client's.
Unqueued(client) == \A i \in Index : jobs[i].by # client

\* What the other operations of the chain allow to be queued behind them.
Admissible(j) ==
  /\ ~j.begun /\ j.by # Nobody
  /\ j.by = "device" \/ Unqueued(j.by)
  /\ j.op = "removeSession" => \A i \in Index : jobs[i].op \notin {"saveSession", "loadSession"}
  /\ JobShape(j)'

\* A step of a client of the store: it takes its answer, queues at most one operation and
\* writes at most the core's session.
Aside ==
  /\ UNCHANGED port /\ SessionMoves /\ reply' = NoReply
  /\ \A x \in Queued : JobShape(x)'
  /\ \/ UNCHANGED jobs
     \/ \E j \in Jobs : Admissible(j) /\ jobs' = Append(jobs, j)

\* Who holds a session or waits for the coordinator is owed every operation still queued.
Holding ==
  \/ acct # NoToken \/ account.pc # "idle" \/ ready # {}
  \/ enroll.pc \in {"submit", "query", "leaving", "complete", "removing"}

\* A client's step leaves the running operation alone.
LEMMA AsideOutside ==
  ASSUME IInv, Aside
  PROVE  /\ Outside /\ SameRun
         /\ Running => Cur' = Cur
         /\ jobs' \in Seq(Jobs)
         /\ Len(jobs) \in Nat /\ Len(jobs') \in Nat /\ Len(jobs) <= Len(jobs')
         /\ \A i \in Index : jobs'[i] = jobs[i]
         /\ \A i \in Index' : i \in Index \/ i = Len(jobs')
         /\ \A i \in Index' : i \notin Index =>
              /\ \E j \in Jobs : jobs'[i] = j /\ Admissible(j)
              /\ \A k \in Index : k < i
<1>1. jobs \in Seq(Jobs) BY IInvParts DEF Types, StoreTypeOK
<1>2. Outside BY DEF Aside, Outside, Admissible
<1>3. /\ jobs' \in Seq(Jobs) /\ (Running => Cur' = Cur)
      /\ Len(jobs) \in Nat /\ Len(jobs') \in Nat /\ Len(jobs) <= Len(jobs')
      /\ \A i \in 1..Len(jobs) : jobs'[i] = jobs[i]
  BY <1>1, <1>2, OutsideRuns
<1>4. SameRun BY <1>1, <1>2, OutsideIsSameRun DEF Aside
<1>5. CASE UNCHANGED jobs BY <1>2, <1>3, <1>4, <1>5 DEF Index
<1>6. CASE \E j \in Jobs : Admissible(j) /\ jobs' = Append(jobs, j)
  <2>1. PICK j \in Jobs : Admissible(j) /\ jobs' = Append(jobs, j) BY <1>6
  <2>2. Len(jobs') = Len(jobs) + 1 /\ jobs'[Len(jobs) + 1] = j BY <1>1, <2>1, AppendQueue
  <2>3. \A i \in 1..Len(jobs') : i \in 1..Len(jobs) \/ i = Len(jobs) + 1 BY <1>3, <2>2
  <2>4. \A k \in 1..Len(jobs) : k < Len(jobs) + 1 BY <1>3
  <2> QED BY <1>2, <1>3, <1>4, <2>1, <2>2, <2>3, <2>4 DEF Index
<1> QED BY <1>5, <1>6 DEF Aside

\* It keeps the order of the chain and consumes the answer.
LEMMA AsideOrder ==
  ASSUME IInv, Aside
  PROVE  Order' /\ Shapes' /\ Replies' /\ (reply.to # Nobody => ~Running)
<1>1. /\ Len(jobs) \in Nat /\ Len(jobs') \in Nat
      /\ \A i \in Index : jobs'[i] = jobs[i]
      /\ \A i \in Index' : i \in Index \/ i = Len(jobs')
      /\ \A i \in Index' : i \notin Index =>
           /\ \E j \in Jobs : jobs'[i] = j /\ Admissible(j)
           /\ \A k \in Index : k < i
  BY AsideOutside
<1>2. reply'.to = Nobody /\ Settled' BY DEF Aside, NoReply, Settled
<1>3. Replies' BY <1>2 DEF Replies, Nobody
<1>4. Shapes'
  <2> SUFFICES ASSUME NEW i \in Index' PROVE JobShape(jobs[i])' BY DEF Shapes
  <2>1. PICK x : x = jobs'[i] OBVIOUS
  <2>2. JobShape(x)'
    <3>1. CASE i \in Index
      <4>1. x \in Queued BY <3>1, <2>1, <1>1 DEF Queued
      <4> QED BY <4>1 DEF Aside
    <3>2. CASE i \notin Index
      <4>1. Admissible(x) BY <3>2, <2>1, <1>1
      <4> QED BY <4>1 DEF Admissible
    <3> QED BY <3>1, <3>2
  <2> QED BY <2>1, <2>2 DEF JobShape
<1>5. ASSUME NEW i \in Index' PROVE jobs'[i].begun => i = 1 /\ Settled'
  BY <1>1, <1>2, IInvParts DEF Order, Admissible
<1>6. ASSUME NEW i \in Index', NEW k \in Index', i < k
      PROVE  /\ jobs'[k].by = Nobody => jobs'[i].by = Nobody
             /\ jobs'[i].by = jobs'[k].by => jobs'[i].by \in {Nobody, "device"}
             /\ jobs'[k].op = "removeSession" => jobs'[i].op \notin {"saveSession", "loadSession"}
  <2>1. i \in Nat /\ k \in Nat BY <1>1 DEF Index
  <2>2. i \in Index
    <3> SUFFICES ASSUME i \notin Index PROVE FALSE OBVIOUS
    <3>1. i = Len(jobs') /\ (k \in Index => k < i) /\ (k \in Index \/ k = Len(jobs')) BY <1>1
    <3> QED BY <3>1, <2>1, <1>6
  <2>3. CASE k \in Index BY <2>2, <2>3, <1>1, <1>6, IInvParts DEF Order
  <2>4. CASE k \notin Index BY <2>2, <2>4, <1>1 DEF Admissible, Unqueued
  <2> QED BY <2>3, <2>4
<1>7. Order' BY <1>2, <1>5, <1>6 DEF Order
<1>8. ASSUME reply.to # Nobody PROVE ~Running
  <2>1. ~Settled BY <1>8 DEF Settled, NoReply
  <2>2. Running => 1 \in Index BY IInvParts, PlanForm
  <2> QED BY <2>1, <2>2, IInvParts DEF Order, Running, Cur
<1> QED BY <1>3, <1>4, <1>7, <1>8

\* What a step beside the store preserves, whoever takes it.
LEMMA AsideKeeps ==
  ASSUME IInv, Aside, Holding' => Holding \/ reply.to # Nobody
  PROVE  /\ Shapes' /\ Order' /\ NoOrphans' /\ Replies' /\ StoreTypeOK'
         /\ Places' /\ Stuck' /\ Planned' /\ SameId' /\ Keeping' /\ Preparing' /\ Saving'
         /\ Routed' = Routed /\ ResurrectionStep
         /\ Running' <=> Running
         /\ Running => Cur' = Cur
         /\ reply.to # Nobody => ~Running
<1>1. /\ SameRun /\ jobs' \in Seq(Jobs) /\ (Running => Cur' = Cur) BY AsideOutside
<1>2. Order' /\ Shapes' /\ Replies' /\ (reply.to # Nobody => ~Running) BY AsideOrder
<1>3. /\ Places' /\ Stuck' /\ Planned' /\ SameId' /\ Keeping' /\ Preparing' /\ Saving'
      /\ Routed' = Routed /\ store' \in [Slots -> Records] /\ store'["file"] = store["file"]
  BY <1>1, SameRunKeeps, IInvParts DEF Types, StoreTypeOK
<1>4. ResurrectionStep
  BY <1>1, <1>3, RoutedIsHeld, IInvParts DEF ResurrectionStep
<1>5. NoOrphans'
  <2> SUFFICES ASSUME Holding', NEW i \in Index' PROVE jobs'[i].by # Nobody
    BY DEF NoOrphans, Holding
  <2>1. \A k \in Index : jobs[k].by # Nobody BY IInvParts DEF NoOrphans, Holding, Order
  <2> QED BY <2>1, AsideOutside DEF Admissible
<1>6. StoreTypeOK'
  <2>1. NoReply \in [to : Clients \cup {Nobody}, ok : BOOLEAN, value : Records]
    BY RecordForms DEF NoReply
  <2> QED BY <2>1, <1>1, <1>3, IInvParts DEF StoreTypeOK, Types, Aside
<1> QED BY <1>1, <1>2, <1>3, <1>4, <1>5, <1>6 DEF SameRun

\* A settled chain has no answer on its way.
LEMMA SettledReply ==
  ASSUME Settled
  PROVE  reply = NoReply /\ reply.to = Nobody
BY DEF Settled, NoReply
(***************************************************************************)
(* The enrollment workflow.                                                *)
(***************************************************************************)

\* The types of what the enrollment and the coordinator keep.
EnrollTypes ==
  /\ enroll \in [pc : {"idle", "inspect", "submitPending", "recover", "leave", "prepare",
                       "joined", "submit", "query", "complete", "leaving", "removing"},
                 req : Requests \cup {0}, rec : Records]
  /\ issued \in [Requests -> Certs \cup {0}]
  /\ consumed \subseteq Requests /\ left \subseteq Requests
  /\ fresh \in [ops : Nat, req : Nat, cert : Nat, tok : Nat, legacy : SUBSET Nat]

\* The frame of the enrollment's steps, variable by variable.
LEMMA EnrollFrameParts ==
  ASSUME EnrollFrame
  PROVE  UNCHANGED <<port, store, acct, tokens, account, restore, waiting, ready, device, restored, faults>>
BY DEF EnrollFrame, accountVars

\* The enrollment's types are part of the invariant.
LEMMA TypesParts ==
  ASSUME IInv
  PROVE  EnrollTypes /\ NoEnroll \in [pc : {"idle"}, req : {0}, rec : Records]
<1>1. EnrollTypes BY IInvParts DEF Types, EnrollTypes
<1>2. NoEnroll \in [pc : {"idle"}, req : {0}, rec : Records] BY RecordForms DEF NoEnroll
<1> QED BY <1>1, <1>2

\* The counters stay counters.
LEMMA FreshGrows ==
  ASSUME NEW f \in [ops : Nat, req : Nat, cert : Nat, tok : Nat, legacy : SUBSET Nat]
  PROVE  /\ [f EXCEPT !.ops = f.ops + 1] \in [ops : Nat, req : Nat, cert : Nat, tok : Nat, legacy : SUBSET Nat]
         /\ [f EXCEPT !.req = f.req + 1] \in [ops : Nat, req : Nat, cert : Nat, tok : Nat, legacy : SUBSET Nat]
         /\ [f EXCEPT !.cert = f.cert + 1] \in [ops : Nat, req : Nat, cert : Nat, tok : Nat, legacy : SUBSET Nat]
         /\ [f EXCEPT !.tok = f.tok + 1] \in [ops : Nat, req : Nat, cert : Nat, tok : Nat, legacy : SUBSET Nat]
         /\ [f EXCEPT !.ops = f.ops + 1, !.req = f.req + 1] \in
              [ops : Nat, req : Nat, cert : Nat, tok : Nat, legacy : SUBSET Nat]
         /\ [f EXCEPT !.ops = f.ops + 1, !.req = f.req + 1, !.cert = f.cert + 1] \in
              [ops : Nat, req : Nat, cert : Nat, tok : Nat, legacy : SUBSET Nat]
<1>1. f.ops + 1 \in Nat /\ f.req + 1 \in Nat /\ f.cert + 1 \in Nat /\ f.tok + 1 \in Nat OBVIOUS
<1>2. PICK a \in Nat, b \in Nat, c \in Nat, d \in Nat :
        a = f.ops + 1 /\ b = f.req + 1 /\ c = f.cert + 1 /\ d = f.tok + 1
  BY <1>1
<1> QED BY <1>2

\* An enrollment that waits for nothing, or has its answer, has nothing queued.
LEMMA EnrollUnqueued ==
  ASSUME IInv, Awaited(enroll.pc) = "none" \/ reply.to = "enrollment"
  PROVE  Unqueued("enrollment")
<1> SUFFICES ASSUME NEW i \in Index, jobs[i].by = "enrollment" PROVE FALSE BY DEF Unqueued
<1>1. CASE reply.to = "enrollment" BY <1>1, IInvParts DEF Order, Nobody
<1>2. CASE Awaited(enroll.pc) = "none"
  <2>1. jobs[i].op = "none" BY <1>2, IInvParts DEF Shapes, JobShape
  <2>2. jobs \in Seq(Jobs) BY IInvParts DEF Types, StoreTypeOK
  <2>3. jobs[i] \in Jobs BY <2>2 DEF Index
  <2> QED BY <2>1, <2>3 DEF Jobs, Ops
<1> QED BY <1>1, <1>2

\* An enrollment's step keeps the shape of what is queued.
LEMMA EnrollShapes ==
  ASSUME IInv, EnrollFrame, left \subseteq left', Unqueued("enrollment") \/ UNCHANGED enroll
  PROVE  \A x \in Queued : JobShape(x)'
<1> SUFFICES ASSUME NEW x \in Queued PROVE JobShape(x)' OBVIOUS
<1>1. PICK i \in Index : x = jobs[i] BY DEF Queued
<1>2. JobShape(x) BY <1>1, IInvParts DEF Shapes
<1>3. x.by = "enrollment" => UNCHANGED enroll BY <1>1 DEF Unqueued
<1> QED BY <1>2, <1>3, EnrollFrameParts DEF JobShape, Accepts

\* What an enrollment's step must show to keep the invariant.
LEMMA EnrollmentKeeps ==
  ASSUME IInv, Aside, EnrollFrame, EnrollTypes', Workflow',
         Holding' => Holding \/ reply.to # Nobody,
         left \subseteq left',
         consumed' = consumed \/ ~(Running /\ Cur.op = "remove"),
         \A r \in consumed' \ left' : WellFormed(Routed) /\ Routed.req = r
  PROVE  IInv' /\ ResurrectionStep /\ LoginStep
<1>1. /\ Shapes' /\ Order' /\ NoOrphans' /\ Replies' /\ StoreTypeOK'
      /\ Places' /\ Stuck' /\ Planned' /\ SameId' /\ Keeping' /\ Preparing' /\ Saving'
      /\ Routed' = Routed /\ ResurrectionStep
      /\ (Running' <=> Running) /\ (Running => Cur' = Cur)
  BY AsideKeeps
<1>2. UNCHANGED <<port, store, acct, tokens, account, restore, waiting, ready, device, restored, faults>>
  BY EnrollFrameParts
<1>3. Types' BY <1>1, <1>2, IInvParts DEF Types, EnrollTypes
<1>4. Removing' BY <1>1, IInvParts DEF Removing
<1>5. Loading' /\ Accounts' BY <1>1, <1>2, IInvParts DEF Loading, Accounts
<1>6. Restoring'
  <2>1. HasSession' <=> HasSession BY <1>2 DEF HasSession
  <2>2. reply'.to # "restore" BY DEF Aside, NoReply, Nobody
  <2> QED BY <2>1, <2>2, <1>1, <1>2, IInvParts DEF Restoring
<1>7. SpentIsResumable' BY <1>1 DEF SpentIsResumable
<1>8. LoginStep BY <1>2, KindsOfForms DEF LoginStep
<1> QED BY <1>1, <1>3, <1>4, <1>5, <1>6, <1>7, <1>8 DEF IInv

\* An operation of the workflow is queued where none of its own is.
LEMMA EnrollQueues ==
  ASSUME IInv, EnrollFrame, left \subseteq left', Unqueued("enrollment"), reply' = NoReply,
         NEW op \in {"load", "prepare", "complete", "remove"}, NEW rec \in Records, NEW rev \in Records,
         op = Awaited(enroll.pc)',
         op = "prepare" => rec.kind = "pending",
         op = "complete" => rec.kind = "registered",
         op = "remove" => rev.kind = "registered" /\ rev.req \in left',
         Enqueue(Job(op, "enrollment", rec, rev))
  PROVE  Aside
<1>1. PICK j \in Jobs : /\ j = Job(op, "enrollment", rec, rev)
                        /\ j.op = op /\ j.by = "enrollment" /\ j.rec = rec /\ j.rev = rev /\ ~j.begun
  <2>1. op \in Ops /\ "enrollment" \in Clients \cup {Nobody} BY DEF Ops, Clients
  <2> QED BY ONLY <2>1, JobForm, rec \in Records, rev \in Records
<1>2. JobShape(j)' BY <1>1 DEF JobShape, Nobody
<1>3. Admissible(j) BY <1>1, <1>2 DEF Admissible, Nobody
<1> QED BY <1>1, <1>3, EnrollShapes, EnrollFrameParts DEF Aside, SessionMoves, Enqueue

\* A step that spends no token keeps every spent one resumable.
LEMMA SpentFrame ==
  ASSUME IInv, UNCHANGED consumed, left \subseteq left'
  PROVE  \A r \in consumed' \ left' : WellFormed(Routed) /\ Routed.req = r
BY IInvParts DEF SpentIsResumable

\* An enrollment by token is asked for (Register).
LEMMA RegisterKeeps ==
  ASSUME IInv, Register
  PROVE  IInv' /\ ResurrectionStep /\ LoginStep
<1>1. /\ Settled /\ enroll.pc = "idle" /\ EnrollFrame /\ UNCHANGED <<reply, issued, consumed, left>>
      /\ fresh.req \in Requests
      /\ enroll' = [pc |-> "prepare", req |-> fresh.req, rec |-> Pending(fresh.req)]
  BY DEF Register, Quiet, Idle, coordinator
<1>2. Unqueued("enrollment") BY <1>1, EnrollUnqueued DEF Awaited
<1>3. Pending(fresh.req) \in Records /\ Pending(fresh.req).kind = "pending" /\ Absent \in Records
  BY <1>1, RecordForms, KindsOfForms
<1>4. Aside
  <2>1. Awaited(enroll.pc)' = "prepare" BY <1>1 DEF Awaited
  <2> QED BY <1>1, <1>2, <1>3, <2>1, EnrollQueues, SettledReply DEF Register
<1>5. EnrollTypes'
  <2>1. fresh' \in [ops : Nat, req : Nat, cert : Nat, tok : Nat, legacy : SUBSET Nat]
    BY TypesParts, FreshGrows DEF EnrollTypes, Register
  <2> QED BY <1>1, <1>3, <2>1, TypesParts DEF EnrollTypes
<1>6. Workflow' BY <1>1, IInvParts, EnrollFrameParts DEF Workflow
<1>7. Holding' => Holding BY <1>1, EnrollFrameParts DEF Holding
<1> QED BY <1>1, <1>4, <1>5, <1>6, <1>7, EnrollmentKeeps, SpentFrame

\* A join by invitation (Join).
LEMMA JoinKeeps ==
  ASSUME IInv, Join
  PROVE  IInv' /\ ResurrectionStep /\ LoginStep
<1>1. /\ Settled /\ enroll.pc = "idle" /\ EnrollFrame /\ UNCHANGED <<reply, consumed, left>>
      /\ fresh.req \in Requests /\ fresh.cert \in Certs
  BY DEF Join, Quiet, Idle
<1>2. Unqueued("enrollment") BY <1>1, EnrollUnqueued DEF Awaited
<1>3. Pending(fresh.req) \in Records /\ Pending(fresh.req).kind = "pending" /\ Absent \in Records
  BY <1>1, RecordForms, KindsOfForms
<1>4. fresh' \in [ops : Nat, req : Nat, cert : Nat, tok : Nat, legacy : SUBSET Nat]
  BY TypesParts, FreshGrows DEF EnrollTypes, Join
<1>5. issued' \in [Requests -> Certs \cup {0}] BY <1>1, TypesParts DEF EnrollTypes, Join
<1>6. CASE /\ enroll' = [pc |-> "joined", req |-> fresh.req, rec |-> Pending(fresh.req)]
           /\ Enqueue(Job("prepare", "enrollment", Pending(fresh.req), Absent))
  <2>1. Awaited(enroll.pc)' = "prepare" BY <1>6 DEF Awaited
  <2>2. Aside BY <1>1, <1>2, <1>3, <1>6, <2>1, EnrollQueues, SettledReply
  <2>3. EnrollTypes' BY <1>1, <1>3, <1>4, <1>5, <1>6, TypesParts DEF EnrollTypes
  <2>4. Workflow' BY <1>6, IInvParts, <1>1, EnrollFrameParts DEF Workflow
  <2>5. Holding' => Holding BY <1>1, <1>6, EnrollFrameParts DEF Holding
  <2> QED BY <1>1, <2>2, <2>3, <2>4, <2>5, EnrollmentKeeps, SpentFrame
<1>7. CASE UNCHANGED <<enroll, jobs>>
  <2>1. Aside BY <1>1, <1>7, EnrollShapes, SettledReply, EnrollFrameParts DEF Aside, SessionMoves
  <2>2. EnrollTypes' BY <1>1, <1>4, <1>5, <1>7, TypesParts DEF EnrollTypes
  <2>3. Workflow' BY <1>7, <1>1, IInvParts, EnrollFrameParts DEF Workflow, Routed
  <2>4. Holding' => Holding BY <1>1, <1>7, EnrollFrameParts DEF Holding
  <2> QED BY <1>1, <2>1, <2>2, <2>3, <2>4, EnrollmentKeeps, SpentFrame
<1> QED BY <1>6, <1>7 DEF Join

\* An operation of the enrollment loads the registration (Load).
LEMMA LoadKeeps ==
  ASSUME IInv, NEW purpose \in {"inspect", "submitPending", "recover", "leave"}, Load(purpose)
  PROVE  IInv' /\ ResurrectionStep /\ LoginStep
<1>1. /\ Settled /\ enroll.pc = "idle" /\ EnrollFrame /\ UNCHANGED <<reply, issued, consumed, left>>
      /\ enroll' = [pc |-> purpose, req |-> 0, rec |-> Absent]
  BY DEF Load, Quiet, Idle, coordinator
<1>2. Unqueued("enrollment") BY <1>1, EnrollUnqueued DEF Awaited
<1>3. Absent \in Records BY RecordForms
<1>4. Aside
  <2>1. Awaited(enroll.pc)' = "load" BY <1>1 DEF Awaited
  <2> QED BY <1>1, <1>2, <1>3, <2>1, EnrollQueues, SettledReply DEF Load
<1>5. EnrollTypes'
  <2>1. fresh' \in [ops : Nat, req : Nat, cert : Nat, tok : Nat, legacy : SUBSET Nat]
    BY TypesParts, FreshGrows DEF EnrollTypes, Load
  <2> QED BY <1>1, <1>3, <2>1, TypesParts DEF EnrollTypes
<1>6. Workflow' BY <1>1, IInvParts, EnrollFrameParts DEF Workflow
<1>7. Holding' => Holding BY <1>1, EnrollFrameParts DEF Holding
<1> QED BY <1>1, <1>4, <1>5, <1>6, <1>7, EnrollmentKeeps, SpentFrame

\* The enrollment gets the store's answer (EnrollResume).
LEMMA EnrollResumeKeeps ==
  ASSUME IInv, EnrollResume
  PROVE  IInv' /\ ResurrectionStep /\ LoginStep
<1>1. /\ reply.to = "enrollment" /\ reply' = NoReply /\ EnrollFrame
      /\ UNCHANGED <<jobs, issued, consumed, left, fresh>>
  BY DEF EnrollResume, coordinator
<1>2. Unqueued("enrollment") BY <1>1, EnrollUnqueued
<1>3. Aside BY <1>1, <1>2, EnrollShapes, EnrollFrameParts DEF Aside, SessionMoves
<1>4. PICK next : next = CASE enroll.pc = "prepare" -> "submit"
                   [] enroll.pc = "joined" -> "query"
                   [] enroll.pc = "submitPending" /\ reply.value.kind = "pending" -> "submit"
                   [] enroll.pc = "recover" /\ reply.value.kind = "pending" -> "query"
                   [] enroll.pc = "leave" /\ reply.value.kind = "registered" -> "leaving"
                   [] OTHER -> "idle"
  OBVIOUS
<1>5. enroll' = IF reply.ok /\ next # "idle"
                THEN [pc |-> next, req |-> reply.value.req, rec |-> reply.value] ELSE NoEnroll
  BY <1>4 DEF EnrollResume
<1>6. /\ next \in {"submit", "query", "leaving", "idle"}
      /\ next # "idle" => Awaited(enroll.pc) \in {"load", "prepare"}
      /\ next = "leaving" => reply.value.kind = "registered"
  BY <1>4 DEF Awaited
<1>7. ASSUME reply.ok, next # "idle"
      PROVE  /\ WellFormed(Routed) /\ Routed.req = reply.value.req
             /\ reply.value \in Records /\ reply.value.req \in Requests
  <2>1. WellFormed(Routed) /\ WellFormed(reply.value) /\ Routed.req = reply.value.req
    BY <1>1, <1>6, <1>7, IInvParts DEF Replies
  <2>2. reply.value \in Records BY IInvParts DEF Types, StoreTypeOK
  <2> QED BY <2>1, <2>2, RecordForms DEF WellFormed
<1>8. EnrollTypes'
  <2>1. CASE reply.ok /\ next # "idle"
    BY <2>1, <1>1, <1>5, <1>6, <1>7, TypesParts DEF EnrollTypes
  <2>2. CASE ~(reply.ok /\ next # "idle")
    BY <2>2, <1>1, <1>5, TypesParts DEF EnrollTypes
  <2> QED BY <2>1, <2>2
<1>9. Workflow'
  <2>0. Routed' = Routed BY <1>1, EnrollFrameParts DEF Routed
  <2>1. CASE reply.ok /\ next # "idle"
    BY <2>0, <2>1, <1>1, <1>5, <1>6, <1>7, IInvParts, EnrollFrameParts DEF Workflow
  <2>2. CASE ~(reply.ok /\ next # "idle")
    BY <2>2, <1>1, <1>5, IInvParts, EnrollFrameParts DEF Workflow, NoEnroll
  <2> QED BY <2>1, <2>2
<1>10. Holding' => Holding \/ reply.to # Nobody BY <1>1 DEF Nobody
<1> QED BY <1>1, <1>3, <1>8, <1>9, <1>10, EnrollmentKeeps, SpentFrame

\* The coordinator answers the submission (Submit).
LEMMA SubmitKeeps ==
  ASSUME IInv, Submit
  PROVE  IInv' /\ ResurrectionStep /\ LoginStep
<1>1. /\ Settled /\ enroll.pc = "submit" /\ EnrollFrame /\ UNCHANGED <<jobs, reply, left>>
      /\ consumed' = consumed \cup {enroll.req}
      /\ enroll' = NoEnroll \/ enroll' = [enroll EXCEPT !.pc = "query"]
  BY DEF Submit, Quiet
<1>2. /\ enroll.req \in Requests /\ WellFormed(Routed) /\ Routed.req = enroll.req
  BY <1>1, IInvParts DEF Workflow
<1>3. Awaited(enroll.pc) = "none" BY <1>1 DEF Awaited
<1>4. Aside BY <1>1, <1>3, EnrollUnqueued, EnrollShapes, SettledReply, EnrollFrameParts DEF Aside, SessionMoves
<1>5. EnrollTypes'
  <2>1. issued' \in [Requests -> Certs \cup {0}] BY <1>2, TypesParts DEF EnrollTypes, Submit
  <2>2. fresh' \in [ops : Nat, req : Nat, cert : Nat, tok : Nat, legacy : SUBSET Nat]
    BY TypesParts, FreshGrows DEF EnrollTypes, Submit
  <2>3. enroll' \in [pc : {"idle", "inspect", "submitPending", "recover", "leave", "prepare",
                       "joined", "submit", "query", "complete", "leaving", "removing"},
                 req : Requests \cup {0}, rec : Records]
    BY <1>1, TypesParts DEF EnrollTypes
  <2> QED BY <1>1, <1>2, <2>1, <2>2, <2>3, TypesParts DEF EnrollTypes
<1>6. enroll'.pc \in {"idle", "query"} /\ (enroll'.pc = "query" => enroll'.req = enroll.req)
  BY <1>1, TypesParts DEF EnrollTypes, NoEnroll
<1>7. Workflow' BY <1>6, <1>2, <1>1, IInvParts, EnrollFrameParts DEF Workflow
<1>8. Holding' => Holding BY <1>1 DEF Holding
<1>9. ~(Running /\ Cur.op = "remove")
  <2> SUFFICES ASSUME Running, Cur.op = "remove" PROVE FALSE OBVIOUS
  <2>1. 1 \in Index BY IInvParts, PlanForm
  <2>2. Cur.by # Nobody BY <2>1, <1>1, IInvParts DEF NoOrphans, Cur
  <2>3. JobShape(Cur) BY <2>1, IInvParts DEF Shapes, Cur
  <2>4. Cur.by = "enrollment" BY <2>2, <2>3 DEF JobShape
  <2> QED BY <2>4, <2>1, <1>3, EnrollUnqueued DEF Unqueued, Cur
<1>10. \A r \in consumed' \ left' : WellFormed(Routed) /\ Routed.req = r
  BY <1>1, <1>2, IInvParts DEF SpentIsResumable
<1> QED BY <1>1, <1>4, <1>5, <1>7, <1>8, <1>9, <1>10, EnrollmentKeeps

\* The coordinator answers the query, and the enrollment completes (QueryAndComplete).
LEMMA QueryAndCompleteKeeps ==
  ASSUME IInv, QueryAndComplete
  PROVE  IInv' /\ ResurrectionStep /\ LoginStep
<1>1. /\ Settled /\ enroll.pc = "query" /\ EnrollFrame
      /\ UNCHANGED <<reply, issued, consumed, left, fresh>>
      /\ issued[enroll.req] # 0
      /\ enroll' = [enroll EXCEPT !.pc = "complete"]
  BY DEF QueryAndComplete, Quiet, coordinator
<1>2. enroll.req \in Requests BY <1>1, IInvParts DEF Workflow
<1>3. issued[enroll.req] \in Certs BY <1>1, <1>2, TypesParts DEF EnrollTypes
<1>4. PICK rec \in Records : /\ rec = Credential(enroll.req, issued[enroll.req])
                             /\ rec.kind = "registered"
  BY <1>2, <1>3, RecordForms, KindsOfForms
<1>5. PICK rev \in Records : rev = enroll.rec BY TypesParts DEF EnrollTypes
<1>6. EnrollTypes' BY <1>1, TypesParts DEF EnrollTypes
<1>7. enroll'.pc = "complete" BY <1>1, TypesParts DEF EnrollTypes
<1>8. Aside
  <2>1. Awaited(enroll.pc)' = "complete" BY <1>7 DEF Awaited
  <2>2. Unqueued("enrollment") BY <1>1, EnrollUnqueued DEF Awaited
  <2>3. Enqueue(Job("complete", "enrollment", rec, rev)) BY <1>4, <1>5 DEF QueryAndComplete
  <2> QED BY <1>1, <1>4, <2>1, <2>2, <2>3, EnrollQueues, SettledReply
<1>9. Workflow' BY <1>7, <1>1, IInvParts, EnrollFrameParts DEF Workflow
<1>10. Holding' => Holding BY <1>1 DEF Holding
<1> QED BY <1>1, <1>6, <1>8, <1>9, <1>10, EnrollmentKeeps, SpentFrame

\* The coordinator answers the removal of the device (Leave).
LEMMA LeaveKeeps ==
  ASSUME IInv, Leave
  PROVE  IInv' /\ ResurrectionStep /\ LoginStep
<1>1. /\ Settled /\ enroll.pc = "leaving" /\ EnrollFrame
      /\ UNCHANGED <<reply, consumed, fresh>>
      /\ left' = left \cup {enroll.req}
      /\ issued' = [issued EXCEPT ![enroll.req] = 0]
  BY DEF Leave, Quiet
<1>2. /\ enroll.req \in Requests /\ enroll.rec.kind = "registered" /\ enroll.rec.req = enroll.req
  BY <1>1, IInvParts DEF Workflow
<1>3. Unqueued("enrollment") BY <1>1, EnrollUnqueued DEF Awaited
<1>4. issued' \in [Requests -> Certs \cup {0}] BY <1>1, TypesParts DEF EnrollTypes
<1>5. Holding' => Holding BY <1>1 DEF Holding
<1>6. PICK rev \in Records : rev = enroll.rec BY TypesParts DEF EnrollTypes
<1>7. CASE enroll' = [enroll EXCEPT !.pc = "removing"] /\ Enqueue(Job("remove", "enrollment", Absent, enroll.rec))
  <2>1. enroll'.pc = "removing" BY <1>7, TypesParts DEF EnrollTypes
  <2>2. EnrollTypes' BY <1>1, <1>2, <1>4, <1>7, TypesParts DEF EnrollTypes
  <2>3. Aside
    <3>1. Awaited(enroll.pc)' = "remove" BY <2>1 DEF Awaited
    <3>2. Enqueue(Job("remove", "enrollment", Absent, rev)) BY <1>6, <1>7
    <3>3. rev.kind = "registered" /\ rev.req \in left' /\ Absent \in Records BY <1>1, <1>2, <1>6, RecordForms
    <3> QED BY <1>1, <1>3, <3>1, <3>2, <3>3, EnrollQueues, SettledReply
  <2>4. Workflow' BY <2>1, <1>1, IInvParts, EnrollFrameParts DEF Workflow
  <2> QED BY <1>1, <1>5, <2>2, <2>3, <2>4, EnrollmentKeeps, SpentFrame
<1>8. CASE enroll' = NoEnroll /\ UNCHANGED jobs
  <2>1. Aside BY <1>1, <1>3, <1>8, EnrollShapes, SettledReply, EnrollFrameParts DEF Aside, SessionMoves
  <2>2. EnrollTypes' BY <1>1, <1>2, <1>4, <1>8, TypesParts DEF EnrollTypes
  <2>3. Workflow' BY <1>8, <1>1, IInvParts, EnrollFrameParts DEF Workflow, NoEnroll
  <2> QED BY <1>1, <1>5, <2>1, <2>2, <2>3, EnrollmentKeeps, SpentFrame
<1> QED BY <1>7, <1>8 DEF Leave

\* The operation in progress is cancelled (EnrollCancel).
LEMMA EnrollCancelKeeps ==
  ASSUME IInv, EnrollCancel
  PROVE  IInv' /\ ResurrectionStep /\ LoginStep
<1>1. /\ Settled /\ enroll.pc \in {"submit", "query", "leaving"} /\ enroll' = NoEnroll /\ EnrollFrame
      /\ UNCHANGED <<jobs, reply, issued, consumed, left, fresh>>
  BY DEF EnrollCancel, Quiet, coordinator
<1>2. Awaited(enroll.pc) = "none" BY <1>1 DEF Awaited
<1>3. Aside BY <1>1, <1>2, EnrollUnqueued, EnrollShapes, SettledReply, EnrollFrameParts DEF Aside, SessionMoves
<1>4. EnrollTypes' BY <1>1, TypesParts DEF EnrollTypes
<1>5. Workflow' BY <1>1, IInvParts, EnrollFrameParts DEF Workflow, NoEnroll
<1>6. Holding' => Holding BY <1>1 DEF Holding
<1> QED BY <1>1, <1>3, <1>4, <1>5, <1>6, EnrollmentKeeps, SpentFrame
(***************************************************************************)
(* The maintenance of the enrolled device.                                 *)
(***************************************************************************)

\* The types of the maintenance.
DeviceTypes ==
  device \in [pc : {"idle", "load", "certificate", "scope", "scoped", "renewed", "replace",
                    "readback", "restore"},
              rec : Records, want : Records, tok : Tokens \cup {NoToken},
              scoped : BOOLEAN, again : BOOLEAN]

\* What the maintenance may do to the rest: end a session that is no longer accepted.
DeviceSide ==
  /\ DeviceFrame
  /\ acct' \in {acct, NoToken} /\ (acct' # acct => ~Accepts(acct))
  /\ ready' \subseteq ready
  /\ restored' \in BOOLEAN
  /\ issued' \in [Requests -> Certs \cup {0}]
  /\ fresh' \in [ops : Nat, req : Nat, cert : Nat, tok : Nat, legacy : SUBSET Nat]
  /\ reply' = NoReply

\* It queues at most a load.
DeviceLoads == UNCHANGED jobs \/ Enqueue(Job("load", "device", Absent, Absent))

\* The frame of the maintenance, variable by variable.
LEMMA DeviceFrameParts ==
  ASSUME DeviceFrame
  PROVE  UNCHANGED <<port, store, restore, waiting, tokens, account, enroll, consumed, left, faults>>
BY DEF DeviceFrame

\* A maintenance that rests, or starts to load.
LEMMA NoDeviceType ==
  /\ NoDevice \in [pc : {"idle"}, rec : Records, want : Records, tok : Tokens \cup {NoToken},
                   scoped : BOOLEAN, again : BOOLEAN]
  /\ [NoDevice EXCEPT !.pc = "load"] \in [pc : {"load"}, rec : Records, want : Records,
                   tok : Tokens \cup {NoToken}, scoped : BOOLEAN, again : BOOLEAN]
BY RecordForms DEF NoDevice

\* A step of the maintenance keeps the shape of what is queued.
LEMMA DeviceShapes ==
  ASSUME IInv, DeviceSide
  PROVE  \A x \in Queued : JobShape(x)'
<1> SUFFICES ASSUME NEW x \in Queued PROVE JobShape(x)' OBVIOUS
<1>1. PICK i \in Index : x = jobs[i] BY DEF Queued
<1>2. JobShape(x) BY <1>1, IInvParts DEF Shapes
<1>3. UNCHANGED <<store, restore, tokens, account, enroll, left>> BY DeviceFrameParts DEF DeviceSide
<1>4. (acct = NoToken => acct' = NoToken) /\ (ready = {} => ready' = {}) BY DEF DeviceSide
<1> QED BY <1>2, <1>3, <1>4 DEF JobShape, Accepts

\* It queues a load or the replacement of a certificate, or nothing.
LEMMA DeviceAside ==
  ASSUME IInv, DeviceSide,
         \/ DeviceLoads
         \/ \E rec \in Records, rev \in Records :
              rec.kind = "registered" /\ Enqueue(Job("replace", "device", rec, rev))
  PROVE  Aside
<1>1. UNCHANGED <<port, store>> BY DeviceFrameParts DEF DeviceSide
<1>2. ASSUME NEW op \in {"load", "replace"}, NEW rec \in Records, NEW rev \in Records,
             op = "replace" => rec.kind = "registered", Enqueue(Job(op, "device", rec, rev))
      PROVE  Aside
  <2>1. op \in Ops /\ "device" \in Clients \cup {Nobody} BY <1>2 DEF Ops, Clients
  <2>2. PICK j \in Jobs : /\ j = Job(op, "device", rec, rev)
                          /\ j.op = op /\ j.by = "device" /\ j.rec = rec /\ j.rev = rev /\ ~j.begun
    BY ONLY <2>1, JobForm, rec \in Records, rev \in Records
  <2>3. JobShape(j)' BY <2>2, <1>2 DEF JobShape, Nobody
  <2>4. Admissible(j) BY <2>2, <2>3, <1>2 DEF Admissible, Nobody
  <2> QED BY <2>2, <2>4, <1>1, <1>2, DeviceShapes DEF Aside, SessionMoves, Enqueue, DeviceSide
<1>3. Absent \in Records BY RecordForms
<1>4. CASE UNCHANGED jobs BY <1>1, <1>4, DeviceShapes DEF Aside, SessionMoves, DeviceSide
<1>5. CASE Enqueue(Job("load", "device", Absent, Absent)) BY <1>2, <1>3, <1>5
<1>6. CASE \E rec \in Records, rev \in Records :
             rec.kind = "registered" /\ Enqueue(Job("replace", "device", rec, rev))
  BY <1>2, <1>6
<1> QED BY <1>4, <1>5, <1>6 DEF DeviceLoads

\* What a step of the maintenance must show to keep the invariant.
LEMMA DeviceKeeps ==
  ASSUME IInv, Aside, DeviceSide, DeviceTypes',
         device'.pc \in {"certificate", "scope", "scoped", "renewed"} => device'.rec.kind = "registered",
         device'.pc = "renewed" => device'.want.kind = "registered"
  PROVE  IInv' /\ ResurrectionStep /\ LoginStep
<1>1. UNCHANGED <<port, store, restore, waiting, tokens, account, enroll, consumed, left, faults>>
  BY DeviceFrameParts DEF DeviceSide
<1>2. acct' \in {acct, NoToken} /\ (acct' # acct => ~Accepts(acct)) /\ ready' \subseteq ready
  BY DEF DeviceSide
<1>3. Holding' => Holding BY <1>1, <1>2 DEF Holding
<1>4. /\ Shapes' /\ Order' /\ NoOrphans' /\ Replies' /\ StoreTypeOK'
      /\ Places' /\ Stuck' /\ Planned' /\ SameId' /\ Keeping' /\ Preparing' /\ Saving'
      /\ Routed' = Routed /\ ResurrectionStep
      /\ (Running' <=> Running) /\ (Running => Cur' = Cur)
  BY <1>3, AsideKeeps
<1>5. Types' BY <1>1, <1>2, <1>4, IInvParts DEF Types, DeviceTypes, DeviceSide
<1>6. Removing' /\ Loading' /\ SpentIsResumable' BY <1>1, <1>4, IInvParts DEF Removing, Loading, SpentIsResumable
<1>7. Workflow' BY <1>1, <1>4, IInvParts DEF Workflow
<1>8. Accounts' BY <1>1, <1>2, IInvParts DEF Accounts
<1>9. Restoring'
  <2>1. HasSession' => HasSession /\ acct' = acct BY <1>1, <1>2 DEF HasSession
  <2>2. reply'.to # "restore" BY DEF Aside, NoReply, Nobody
  <2> QED BY <2>1, <2>2, <1>1, <1>4, IInvParts DEF Restoring
<1>10. LoginStep BY <1>1, <1>2, KindsOfForms DEF LoginStep
<1> QED BY <1>4, <1>5, <1>6, <1>7, <1>8, <1>9, <1>10 DEF IInv

\* A maintenance that ends rests, or loads again when it was asked again.
LEMMA DeviceEnds ==
  ASSUME DeviceEnd
  PROVE  DeviceLoads /\ DeviceTypes' /\ device'.pc \in {"idle", "load"}
<1>1. CASE device.again
  <2>1. device' = [NoDevice EXCEPT !.pc = "load"] /\ DeviceLoads BY <1>1 DEF DeviceEnd, DeviceLoads
  <2> QED BY <2>1, NoDeviceType DEF DeviceTypes
<1>2. CASE ~device.again
  <2>1. device' = NoDevice /\ DeviceLoads BY <1>2 DEF DeviceEnd, DeviceLoads
  <2> QED BY <2>1, NoDeviceType DEF DeviceTypes
<1> QED BY <1>1, <1>2

\* A maintenance that ends keeps the invariant.
LEMMA DeviceEndKeeps ==
  ASSUME IInv, DeviceSide, DeviceEnd
  PROVE  IInv' /\ ResurrectionStep /\ LoginStep
<1>1. DeviceLoads /\ DeviceTypes' /\ device'.pc \in {"idle", "load"} BY DeviceEnds
<1>2. Aside BY <1>1, DeviceAside
<1> QED BY <1>1, <1>2, DeviceKeeps

\* So does one that goes on.
LEMMA DeviceMoves ==
  ASSUME IInv, DeviceSide, DeviceLoads, DeviceTypes',
         device'.pc \in {"certificate", "scope", "scoped", "renewed"} => device'.rec.kind = "registered",
         device'.pc = "renewed" => device'.want.kind = "registered"
  PROVE  IInv' /\ ResurrectionStep /\ LoginStep
BY DeviceAside, DeviceKeeps

\* The frame of a step that touches neither the session nor what the coordinator issued.
LEMMA DeviceStill ==
  ASSUME IInv, DeviceFrame, UNCHANGED <<acct, ready, restored, issued, fresh>>, reply' = NoReply
  PROVE  DeviceSide
BY IInvParts DEF DeviceSide, Types

\* The maintenance's facts are part of the invariant.
LEMMA DeviceType ==
  ASSUME IInv
  PROVE  /\ DeviceTypes
         /\ device.pc \in {"certificate", "scope", "scoped", "renewed"} => device.rec.kind = "registered"
         /\ device.pc = "renewed" => device.want.kind = "registered"
BY IInvParts DEF Types, DeviceTypes, Workflow

\* A sweep or an account operation starts the maintenance (StartDevice).
LEMMA StartDeviceKeeps ==
  ASSUME IInv, NEW op \in DeviceOps, StartDevice(op)
  PROVE  IInv' /\ ResurrectionStep /\ LoginStep
<1>1. Settled /\ DeviceFrame /\ UNCHANGED <<reply, acct, restored, issued, fresh>> /\ ready' = ready \ {op}
  BY DEF StartDevice
<1>2. DeviceSide BY <1>1, SettledReply, IInvParts DEF DeviceSide, Types
<1>3. CASE Idle(device)
  <2>1. device' = [NoDevice EXCEPT !.pc = "load"] /\ DeviceLoads
    BY <1>3 DEF StartDevice, DeviceLoads
  <2>2. DeviceTypes' /\ device'.pc = "load" BY <2>1, NoDeviceType DEF DeviceTypes
  <2> QED BY <1>2, <2>1, <2>2, DeviceMoves
<1>4. CASE ~Idle(device)
  <2>1. PICK b \in BOOLEAN : b = (device.again \/ op = "after") OBVIOUS
  <2>2. device' = [device EXCEPT !.again = b] /\ DeviceLoads BY <1>4, <2>1 DEF StartDevice, DeviceLoads
  <2>3. /\ DeviceTypes' /\ device'.pc = device.pc /\ device'.rec = device.rec /\ device'.want = device.want
    BY <2>2, DeviceType DEF DeviceTypes
  <2> QED BY <1>2, <2>2, <2>3, DeviceMoves, DeviceType
<1> QED BY <1>3, <1>4

\* The maintenance gets the store's answer (DeviceResume).
LEMMA DeviceResumeKeeps ==
  ASSUME IInv, DeviceResume
  PROVE  IInv' /\ ResurrectionStep /\ LoginStep
<1>1. DeviceSide BY DeviceStill DEF DeviceResume
<1>2. reply.value \in Records /\ acct \in Tokens \cup {NoToken} BY IInvParts DEF Types, StoreTypeOK
<1>3. CASE reply.ok /\ device.pc = "load" /\ reply.value.kind = "registered"
  <2>1. PICK t \in Tokens \cup {NoToken} : t = IF HasSession THEN acct ELSE NoToken BY <1>2
  <2>2. device' = [device EXCEPT !.pc = "certificate", !.rec = reply.value, !.tok = t] /\ UNCHANGED jobs
    BY <1>3, <2>1 DEF DeviceResume
  <2>3. DeviceTypes' /\ device'.pc = "certificate" /\ device'.rec = reply.value
    BY <2>2, <1>2, DeviceType DEF DeviceTypes
  <2> QED BY <1>1, <1>3, <2>2, <2>3, DeviceMoves DEF DeviceLoads
<1>4. CASE reply.ok /\ device.pc = "replace"
  <2>1. device' = [device EXCEPT !.pc = "readback"] /\ DeviceLoads
    BY <1>4 DEF DeviceResume, DeviceLoads
  <2>2. DeviceTypes' /\ device'.pc = "readback" BY <2>1, DeviceType DEF DeviceTypes
  <2> QED BY <1>1, <2>1, <2>2, DeviceMoves
<1>5. CASE reply.ok /\ device.pc = "readback" /\ reply.value = device.want /\ ~restored
  <2>1. device' = [device EXCEPT !.pc = "restore"] /\ UNCHANGED jobs BY <1>5 DEF DeviceResume
  <2>2. DeviceTypes' /\ device'.pc = "restore" BY <2>1, DeviceType DEF DeviceTypes
  <2> QED BY <1>1, <2>1, <2>2, DeviceMoves DEF DeviceLoads
<1>6. CASE /\ ~(reply.ok /\ device.pc = "load" /\ reply.value.kind = "registered")
           /\ ~(reply.ok /\ device.pc = "replace")
           /\ ~(reply.ok /\ device.pc = "readback" /\ reply.value = device.want /\ ~restored)
  <2>1. DeviceEnd BY <1>6 DEF DeviceResume
  <2> QED BY <1>1, <2>1, DeviceEndKeeps
<1> QED BY <1>3, <1>4, <1>5, <1>6

\* The coordinator answers for the certificate (Certificate).
LEMMA CertificateKeeps ==
  ASSUME IInv, Certificate
  PROVE  IInv' /\ ResurrectionStep /\ LoginStep
<1>1. /\ Settled /\ device.pc \in {"certificate", "scoped"}
      /\ UNCHANGED <<reply, acct, ready, restored>> /\ DeviceFrame
  BY DEF Certificate, Quiet
<1>2. reply' = NoReply BY <1>1, SettledReply
<1>3. device.rec \in Records /\ device.rec.req \in Requests /\ device.rec.kind = "registered"
  BY <1>1, DeviceType, RecordForms DEF DeviceTypes
<1>4. CASE DeviceEnd /\ UNCHANGED <<issued, fresh>> BY <1>1, <1>2, <1>4, DeviceStill, DeviceEndKeeps
<1>5. CASE device' = [device EXCEPT !.pc = "restore"] /\ UNCHANGED <<jobs, issued, fresh>>
  <2>1. DeviceTypes' /\ device'.pc = "restore" BY <1>5, DeviceType DEF DeviceTypes
  <2> QED BY <2>1, <1>1, <1>2, <1>5, DeviceStill, DeviceMoves DEF DeviceLoads
<1>6. CASE /\ fresh.cert \in Certs
           /\ fresh' = [fresh EXCEPT !.cert = @ + 1]
           /\ issued' = [issued EXCEPT ![device.rec.req] = fresh.cert]
           /\ device' = [device EXCEPT !.pc = "renewed", !.want = Credential(device.rec.req, fresh.cert)]
           /\ UNCHANGED jobs
  <2>1. PICK w \in Records : w = Credential(device.rec.req, fresh.cert) /\ w.kind = "registered"
    BY <1>3, <1>6, RecordForms, KindsOfForms
  <2>2. device' = [device EXCEPT !.pc = "renewed", !.want = w] BY <2>1, <1>6
  <2>3. DeviceTypes' /\ device'.pc = "renewed" /\ device'.want = w /\ device'.rec = device.rec
    BY <2>2, DeviceType DEF DeviceTypes
  <2>4. issued' \in [Requests -> Certs \cup {0}] BY <1>3, <1>6, TypesParts DEF EnrollTypes
  <2>5. fresh' \in [ops : Nat, req : Nat, cert : Nat, tok : Nat, legacy : SUBSET Nat]
    BY <1>6, TypesParts, FreshGrows DEF EnrollTypes
  <2>6. DeviceSide BY <1>1, <1>2, <2>4, <2>5, IInvParts DEF DeviceSide, Types
  <2> QED BY <1>3, <1>6, <2>1, <2>3, <2>6, DeviceMoves DEF DeviceLoads
<1>7. CASE device' = [device EXCEPT !.pc = "scope", !.scoped = TRUE] /\ UNCHANGED <<jobs, issued, fresh>>
  <2>1. DeviceTypes' /\ device'.pc = "scope" /\ device'.rec = device.rec BY <1>7, DeviceType DEF DeviceTypes
  <2> QED BY <2>1, <1>1, <1>2, <1>3, <1>7, DeviceStill, DeviceMoves DEF DeviceLoads
<1> QED BY <1>4, <1>5, <1>6, <1>7 DEF Certificate

\* A renewed certificate is stored (Renewed).
LEMMA RenewedKeeps ==
  ASSUME IInv, Renewed
  PROVE  IInv' /\ ResurrectionStep /\ LoginStep
<1>1. DeviceSide BY DeviceStill, SettledReply DEF Renewed, Quiet
<1>2. device.want \in Records /\ device.rec \in Records /\ device.want.kind = "registered"
  BY DeviceType DEF DeviceTypes, Renewed
<1>3. Aside
  <2>1. Enqueue(Job("replace", "device", device.want, device.rec)) BY DEF Renewed
  <2> QED BY <1>1, <1>2, <2>1, DeviceAside
<1>4. DeviceTypes' /\ device'.pc = "replace" BY DeviceType DEF DeviceTypes, Renewed
<1> QED BY <1>1, <1>3, <1>4, DeviceKeeps

\* The account answers for the recovery's scope (RecoveryScope).
LEMMA RecoveryScopeKeeps ==
  ASSUME IInv, RecoveryScope
  PROVE  IInv' /\ ResurrectionStep /\ LoginStep
<1>1. /\ device.pc = "scope" /\ DeviceFrame /\ UNCHANGED <<ready, restored, issued, fresh>> /\ reply' = NoReply
  BY SettledReply DEF RecoveryScope, Quiet
<1>2. CASE device' = [device EXCEPT !.pc = "scoped"] /\ UNCHANGED <<acct, jobs>>
  <2>1. DeviceTypes' /\ device'.pc = "scoped" /\ device'.rec = device.rec BY <1>2, DeviceType DEF DeviceTypes
  <2> QED BY <2>1, <1>1, <1>2, DeviceStill, DeviceMoves, DeviceType DEF DeviceLoads
<1>3. CASE ~Accepts(device.tok) /\ acct' = (IF acct = device.tok THEN NoToken ELSE acct) /\ DeviceEnd
  <2>1. DeviceSide BY <1>1, <1>3, IInvParts DEF DeviceSide, Types
  <2> QED BY <2>1, <1>3, DeviceEndKeeps
<1>4. CASE DeviceEnd /\ UNCHANGED acct BY <1>1, <1>4, DeviceStill, DeviceEndKeeps
<1> QED BY <1>2, <1>3, <1>4 DEF RecoveryScope

\* The helper is given the identity (DeviceRestore).
LEMMA DeviceRestoreKeeps ==
  ASSUME IInv, DeviceRestore
  PROVE  IInv' /\ ResurrectionStep /\ LoginStep
<1>1. DeviceSide BY SettledReply, IInvParts DEF DeviceRestore, Quiet, DeviceSide, Types
<1> QED BY <1>1, DeviceEndKeeps DEF DeviceRestore
(***************************************************************************)
(* The account and the restoration of its session.                         *)
(***************************************************************************)

\* The types of what the account keeps.
AccountTypes ==
  /\ acct \in Tokens \cup {NoToken}
  /\ tokens \in [Tokens -> {"unused", "valid", "revoked", "expired"}]
  /\ account \in [pc : {"idle", "adopt", "login", "persist", "logout", "read"},
                  tok : Tokens \cup {NoToken}]
  /\ restore \in {"idle", "load", "adopt", "drop"}
  /\ waiting \subseteq AccountOps \cup DeviceOps
  /\ ready \subseteq AccountOps \cup DeviceOps
  /\ fresh \in [ops : Nat, req : Nat, cert : Nat, tok : Nat, legacy : SUBSET Nat]

\* What the account's steps leave alone.
AccountFrame == UNCHANGED <<port, enroll, device, restored, issued, consumed, left, faults>>

\* The account's types are part of the invariant.
LEMMA AccountType ==
  ASSUME IInv
  PROVE  AccountTypes /\ NoAccount \in [pc : {"idle"}, tok : {NoToken}] /\ NoAccount.pc = "idle"
BY IInvParts DEF Types, AccountTypes, NoAccount

\* What a step of the account must show to keep the invariant.
LEMMA AccountKeeps ==
  ASSUME IInv, Aside, AccountFrame, AccountTypes', Accounts', Restoring',
         Holding' => Holding \/ reply.to # Nobody,
         Running /\ Cur.op = "loadSession" =>
           /\ account.pc = "persist" => account'.pc = "persist"
           /\ account'.pc = "persist" \/ store'["sess"] \in {store["sess"], Absent},
         acct # NoToken /\ acct' = NoToken /\ Accepts(acct) => account'.pc = "logout",
         store'["sess"] # store["sess"] => account.pc = "logout" \/ store'["sess"] # Absent
  PROVE  IInv' /\ ResurrectionStep /\ LoginStep
<1>1. /\ Shapes' /\ Order' /\ NoOrphans' /\ Replies' /\ StoreTypeOK'
      /\ Places' /\ Stuck' /\ Planned' /\ SameId' /\ Keeping' /\ Preparing' /\ Saving'
      /\ Routed' = Routed /\ ResurrectionStep
      /\ (Running' <=> Running) /\ (Running => Cur' = Cur)
  BY AsideKeeps
<1>2. UNCHANGED <<port, enroll, device, restored, issued, consumed, left, faults>> BY DEF AccountFrame
<1>3. Types' BY <1>1, <1>2, IInvParts DEF Types, AccountTypes
<1>4. Removing' /\ SpentIsResumable' BY <1>1, <1>2, IInvParts DEF Removing, SpentIsResumable
<1>5. Loading' BY <1>1, <1>2, IInvParts DEF Loading
<1>6. Workflow' BY <1>1, <1>2, IInvParts DEF Workflow
<1>7. LoginStep BY KindsOfForms DEF LoginStep
<1> QED BY <1>1, <1>3, <1>4, <1>5, <1>6, <1>7 DEF IInv

\* What is queued is an operation of the chain.
LEMMA QueuedJobs ==
  ASSUME IInv, NEW x \in Queued
  PROVE  x \in Jobs /\ JobShape(x) /\ \E i \in Index : x = jobs[i]
<1>1. PICK i \in Index : x = jobs[i] BY DEF Queued
<1>2. jobs \in Seq(Jobs) BY IInvParts DEF Types, StoreTypeOK
<1> QED BY <1>1, <1>2, IInvParts DEF Shapes, Index

\* Who is answered is owed no other operation, and nobody's are queued.
LEMMA AnsweredQueue ==
  ASSUME IInv, NEW c \in {"login", "restore"}, reply.to = c
  PROVE  \A x \in Queued : x.by # Nobody /\ x.by # c
<1> SUFFICES ASSUME NEW x \in Queued PROVE x.by # Nobody /\ x.by # c OBVIOUS
<1>1. PICK i \in Index : x = jobs[i] BY DEF Queued
<1> QED BY <1>1, IInvParts DEF Order, Nobody

\* An operation is asked for and waits for the restoration (Request).
LEMMA RequestKeeps ==
  ASSUME IInv, NEW op \in AccountOps \cup {"sweep"}, Request(op)
  PROVE  IInv' /\ ResurrectionStep /\ LoginStep
<1>1. /\ Settled /\ ready = {} /\ AccountFrame /\ UNCHANGED <<store, reply, acct, tokens, account>>
      /\ fresh' = [fresh EXCEPT !.ops = @ + 1]
  BY DEF Request, Quiet, AccountFrame, coordinator
<1>2. reply' = NoReply BY <1>1, SettledReply
<1>3. fresh' \in [ops : Nat, req : Nat, cert : Nat, tok : Nat, legacy : SUBSET Nat]
  BY <1>1, TypesParts, FreshGrows DEF EnrollTypes
<1>4. HasSession' <=> HasSession BY <1>1 DEF HasSession
<1>5. reply'.to # "restore" BY <1>2 DEF NoReply, Nobody
<1>6. op \in AccountOps \cup DeviceOps BY DEF DeviceOps
<1>7. CASE HasSession
  <2>1. ready' = {op} /\ UNCHANGED <<waiting, restore, jobs>> BY <1>7 DEF Request
  <2>2. acct # NoToken BY <1>7 DEF HasSession
  <2>3. \A x \in Queued : JobShape(x)'
    <3> SUFFICES ASSUME NEW x \in Queued PROVE JobShape(x)' OBVIOUS
    <3>1. JobShape(x) BY QueuedJobs
    <3> QED BY <3>1, <2>1, <2>2, <1>1 DEF JobShape, AccountFrame
  <2>4. Aside BY <2>1, <2>3, <1>1, <1>2 DEF Aside, SessionMoves, AccountFrame
  <2>5. AccountTypes' BY <2>1, <1>1, <1>3, <1>6, AccountType DEF AccountTypes
  <2>6. Accounts' BY <2>1, <1>1, IInvParts DEF Accounts
  <2>7. (Running' <=> Running) /\ (Running => Cur' = Cur) BY <2>1 DEF Running, Cur
  <2>8. Restoring' BY <2>1, <2>7, <1>1, <1>4, <1>5, IInvParts DEF Restoring
  <2>9. Holding' => Holding BY <2>2 DEF Holding
  <2> QED BY <2>4, <2>5, <2>6, <2>8, <2>9, <1>1, AccountKeeps
<1>8. CASE ~HasSession
  <2>1. waiting' = waiting \cup {op} /\ UNCHANGED ready BY <1>8 DEF Request
  <2>2. restore' \in {restore, "load"} /\ (restore' # restore => restore = "idle")
    BY <1>8 DEF Request
  <2>3. \A x \in Queued : JobShape(x)'
    <3> SUFFICES ASSUME NEW x \in Queued PROVE JobShape(x)' OBVIOUS
    <3>1. JobShape(x) BY QueuedJobs
    <3>2. x.by = "restore" => restore' = restore BY <3>1, <2>2 DEF JobShape
    <3> QED BY <3>1, <3>2, <2>1, <1>1 DEF JobShape, AccountFrame, Accepts
  <2>4. Aside
    <3>1. CASE restore = "idle"
      <4>1. restore' = "load" /\ Enqueue(Job("loadSession", "restore", Absent, Absent))
        BY <3>1, <1>8 DEF Request
      <4>2. "loadSession" \in Ops /\ "restore" \in Clients \cup {Nobody} /\ Absent \in Records
        BY RecordForms DEF Ops, Clients
      <4>3. PICK j \in Jobs : /\ j = Job("loadSession", "restore", Absent, Absent)
                              /\ j.op = "loadSession" /\ j.by = "restore" /\ ~j.begun
        BY ONLY <4>2, JobForm
      <4>4. JobShape(j)' BY <4>1, <4>3 DEF JobShape, Nobody
      <4>5. Unqueued("restore")
        <5> SUFFICES ASSUME NEW i \in Index, jobs[i].by = "restore" PROVE FALSE BY DEF Unqueued
        <5> QED BY <3>1, IInvParts DEF Shapes, JobShape
      <4>6. Admissible(j) BY <4>3, <4>4, <4>5 DEF Admissible, Nobody
      <4> QED BY <4>1, <4>3, <4>6, <2>3, <1>1, <1>2 DEF Aside, SessionMoves, AccountFrame, Enqueue
    <3>2. CASE restore # "idle"
      <4>1. UNCHANGED jobs BY <3>2, <1>8 DEF Request
      <4> QED BY <4>1, <2>3, <1>1, <1>2 DEF Aside, SessionMoves, AccountFrame
    <3> QED BY <3>1, <3>2
  <2>5. AccountTypes' BY <2>1, <2>2, <1>1, <1>3, <1>6, AccountType DEF AccountTypes
  <2>6. Accounts' BY <2>2, <1>1, IInvParts DEF Accounts
  <2>7. Restoring' BY <1>4, <1>8 DEF Restoring
  <2>8. Holding' => Holding BY <2>1, <1>1 DEF Holding, AccountFrame
  <2> QED BY <2>4, <2>5, <2>6, <2>7, <2>8, <1>1, AccountKeeps
<1> QED BY <1>7, <1>8

\* Everything queued keeps its shape when the restoration it does not belong to settles.
LEMMA SettlingShapes ==
  ASSUME IInv, AccountFrame, UNCHANGED <<store, tokens>>,
         \A x \in Queued : x.by # "restore" /\ x.op # "removeSession",
         \/ UNCHANGED account
         \/ account.pc # "persist"
         \/ \A x \in Queued : x.by # "login"
  PROVE  \A x \in Queued : JobShape(x)'
<1> SUFFICES ASSUME NEW x \in Queued PROVE JobShape(x)' OBVIOUS
<1>1. JobShape(x) BY QueuedJobs
<1>2. x.by = "login" => UNCHANGED account BY <1>1 DEF JobShape
<1> QED BY <1>1, <1>2 DEF JobShape, AccountFrame

\* The restoration gets the stored session (RestoreLoaded).
LEMMA RestoreLoadedKeeps ==
  ASSUME IInv, RestoreLoaded
  PROVE  IInv' /\ ResurrectionStep /\ LoginStep
<1>1. /\ reply.to = "restore" /\ restore = "load" /\ reply' = NoReply
      /\ AccountFrame /\ UNCHANGED <<store, jobs, acct, tokens, fresh>>
  BY DEF RestoreLoaded, AccountFrame, coordinator
<1>2. \A x \in Queued : x.by # "restore" /\ x.op # "removeSession"
  <2> SUFFICES ASSUME NEW x \in Queued PROVE x.by # "restore" /\ x.op # "removeSession" OBVIOUS
  <2>1. x.by # Nobody /\ x.by # "restore" BY <1>1, AnsweredQueue
  <2> QED BY <2>1, QueuedJobs DEF JobShape
<1>3. account.pc # "adopt" BY <1>1, IInvParts DEF Accounts
<1>4. Holding' => Holding \/ reply.to # Nobody BY <1>1 DEF Nobody
<1>5. reply.value \in Records BY IInvParts DEF Types, StoreTypeOK
<1>6. CASE ~reply.ok \/ reply.value.kind # "session" \/ ~Idle(account)
  <2>1. (Release \/ Refuse) /\ UNCHANGED account BY <1>6 DEF RestoreLoaded
  <2>2. restore' = "idle" /\ waiting' = {} /\ ready' \in {ready, waiting} BY <2>1 DEF Release, Refuse
  <2>3. Aside BY <2>1, <1>1, <1>2, SettlingShapes DEF Aside, SessionMoves, AccountFrame
  <2>4. AccountTypes' BY <2>1, <2>2, <1>1, AccountType DEF AccountTypes
  <2>5. Accounts' BY <2>1, <1>1, <1>3, IInvParts DEF Accounts
  <2>6. Restoring' BY <2>2 DEF Restoring
  <2> QED BY <2>1, <2>3, <2>4, <2>5, <2>6, <1>1, <1>4, AccountKeeps
<1>7. CASE ~(~reply.ok \/ reply.value.kind # "session" \/ ~Idle(account))
  <2>1. /\ restore' = "adopt" /\ account' = [pc |-> "adopt", tok |-> reply.value.token]
        /\ UNCHANGED <<waiting, ready>> /\ account.pc = "idle"
    BY <1>7 DEF RestoreLoaded, Idle
  <2>2. reply.value.token \in Tokens /\ reply.value = Session(reply.value.token)
    BY <1>5, <1>7, RecordForms
  <2>3. Aside BY <2>1, <1>1, <1>2, SettlingShapes DEF Aside, SessionMoves, AccountFrame
  <2>4. AccountTypes' BY <2>1, <2>2, <1>1, AccountType DEF AccountTypes
  <2>5. account'.pc = "adopt" /\ account'.tok = reply.value.token BY <2>1
  <2>6. store["sess"] \in {Absent, Session(reply.value.token)}
    BY <2>1, <2>2, <1>1, <1>7, IInvParts DEF Replies
  <2>7. acct \in {NoToken, reply.value.token} \/ tokens[acct] = "expired"
    <3>1. CASE ~HasSession BY <3>1 DEF HasSession
    <3>2. CASE HasSession
      <4>1. reply.value \in {Absent, Session(acct)} BY <3>2, <1>1, <1>7, IInvParts DEF Restoring
      <4> QED BY <4>1, <1>7, KindsOfForms
    <3> QED BY <3>1, <3>2
  <2>8. Accounts' BY <2>1, <2>2, <2>5, <2>6, <2>7, <1>1 DEF Accounts
  <2>9. Restoring' BY <2>1 DEF Restoring
  <2> QED BY <2>1, <2>3, <2>4, <2>8, <2>9, <1>1, <1>4, AccountKeeps
<1> QED BY <1>6, <1>7

\* The coordinator answers for the stored session (AdoptReply).
LEMMA AdoptReplyKeeps ==
  ASSUME Constants, IInv, AdoptReply
  PROVE  IInv' /\ ResurrectionStep /\ LoginStep
<1>1. /\ Settled /\ ready = {} /\ account.pc = "adopt" /\ account' = NoAccount
      /\ AccountFrame /\ UNCHANGED <<store, reply, tokens, fresh>>
  BY DEF AdoptReply, Quiet, AccountFrame, coordinator
<1>2. reply' = NoReply BY <1>1, SettledReply
<1>3. /\ restore = "adopt" /\ account.tok \in Tokens
      /\ store["sess"] \in {Absent, Session(account.tok)}
      /\ acct \in {NoToken, account.tok} \/ tokens[acct] = "expired"
  BY <1>1, IInvParts DEF Accounts
<1>4. \A x \in Queued : /\ x.by # "restore" /\ x.by # Nobody
                        /\ x.op \notin {"removeSession", "saveSession", "loadSession"}
  <2> SUFFICES ASSUME NEW x \in Queued
               PROVE  /\ x.by # "restore" /\ x.by # Nobody
                      /\ x.op \notin {"removeSession", "saveSession", "loadSession"}
    OBVIOUS
  <2>1. JobShape(x) BY QueuedJobs
  <2>2. x.by # Nobody BY <1>1, IInvParts DEF NoOrphans, Queued
  <2> QED BY <2>1, <2>2, <1>1, <1>3 DEF JobShape
<1>5. \A x \in Queued : JobShape(x)' BY <1>1, <1>4, SettlingShapes
<1>6. account'.pc = "idle" BY <1>1, AccountType
<1>7. Accounts' BY <1>6 DEF Accounts
<1>8. Holding' => Holding BY <1>1 DEF Holding
<1>9. CASE Accepts(account.tok) /\ acct' = account.tok /\ Release /\ UNCHANGED jobs
  <2>1. Aside BY <1>1, <1>2, <1>5, <1>9 DEF Aside, SessionMoves, AccountFrame
  <2>2. AccountTypes' BY <1>1, <1>3, <1>9, AccountType DEF AccountTypes, Release
  <2>3. Restoring' BY <1>9 DEF Restoring, Release
  <2>4. acct' # NoToken \/ acct = NoToken
    <3>1. CASE acct' = NoToken BY <3>1, <1>3, <1>9 DEF Constants, NoToken
    <3> QED BY <3>1
  <2> QED BY <2>1, <2>2, <2>3, <2>4, <1>1, <1>3, <1>7, <1>8, <1>9, AccountKeeps DEF Accepts
<1>10. CASE /\ ~Accepts(account.tok) /\ acct' = NoToken /\ restore' = "drop"
            /\ Enqueue(Job("removeSession", "restore", Absent, Absent)) /\ UNCHANGED <<waiting, ready>>
  <2>1. Aside
    <3>1. "removeSession" \in Ops /\ "restore" \in Clients \cup {Nobody} /\ Absent \in Records
      BY RecordForms DEF Ops, Clients
    <3>2. PICK j \in Jobs : /\ j = Job("removeSession", "restore", Absent, Absent)
                            /\ j.op = "removeSession" /\ j.by = "restore" /\ ~j.begun
      BY ONLY <3>1, JobForm
    <3>3. store["sess"].kind = "session" => ~Accepts(store["sess"].token)
      BY <1>3, <1>10, KindsOfForms
    <3>4. JobShape(j)' BY <3>2, <3>3, <1>1, <1>6, <1>10 DEF JobShape, Nobody, Accepts
    <3>5. Unqueued("restore") /\ \A i \in Index : jobs[i].op \notin {"saveSession", "loadSession"}
      BY <1>4 DEF Unqueued, Queued
    <3>6. Admissible(j) BY <3>2, <3>4, <3>5 DEF Admissible, Nobody
    <3> QED BY <3>2, <3>6, <1>1, <1>2, <1>5, <1>10 DEF Aside, SessionMoves, AccountFrame, Enqueue
  <2>2. AccountTypes' BY <1>1, <1>10, AccountType DEF AccountTypes
  <2>3. Restoring' BY <1>10 DEF Restoring
  <2>4. acct # NoToken => ~Accepts(acct) BY <1>3, <1>10 DEF Accepts
  <2> QED BY <2>1, <2>2, <2>3, <2>4, <1>1, <1>7, <1>8, AccountKeeps
<1>11. CASE Refuse /\ UNCHANGED <<acct, jobs>>
  <2>1. Aside BY <1>1, <1>2, <1>5, <1>11 DEF Aside, SessionMoves, AccountFrame
  <2>2. AccountTypes' BY <1>1, <1>11, AccountType DEF AccountTypes, Refuse
  <2>3. Restoring' BY <1>11 DEF Restoring, Refuse
  <2> QED BY <2>1, <2>2, <2>3, <1>1, <1>7, <1>8, <1>11, AccountKeeps
<1> QED BY <1>9, <1>10, <1>11 DEF AdoptReply

\* A refused session is gone from the store (RestoreDropped).
LEMMA RestoreDroppedKeeps ==
  ASSUME IInv, RestoreDropped
  PROVE  IInv' /\ ResurrectionStep /\ LoginStep
<1>1. /\ reply.to = "restore" /\ restore = "drop" /\ reply' = NoReply /\ Release
      /\ AccountFrame /\ UNCHANGED <<store, jobs, acct, tokens, account, fresh>>
  BY DEF RestoreDropped, AccountFrame, coordinator
<1>2. \A x \in Queued : x.by # "restore" /\ x.op # "removeSession"
  <2> SUFFICES ASSUME NEW x \in Queued PROVE x.by # "restore" /\ x.op # "removeSession" OBVIOUS
  <2>1. x.by # Nobody /\ x.by # "restore" BY <1>1, AnsweredQueue
  <2> QED BY <2>1, QueuedJobs DEF JobShape
<1>3. account.pc # "adopt" BY <1>1, IInvParts DEF Accounts
<1>4. Holding' => Holding \/ reply.to # Nobody BY <1>1 DEF Nobody
<1>5. Aside BY <1>1, <1>2, SettlingShapes DEF Aside, SessionMoves, AccountFrame
<1>6. AccountTypes' BY <1>1, AccountType DEF AccountTypes, Release
<1>7. Accounts' BY <1>1, <1>3, IInvParts DEF Accounts
<1>8. Restoring' BY <1>1 DEF Restoring, Release
<1> QED BY <1>1, <1>4, <1>5, <1>6, <1>7, <1>8, AccountKeeps

\* An operation starts once the restoration has settled (StartAccount).
LEMMA StartAccountKeeps ==
  ASSUME IInv, NEW op \in AccountOps, StartAccount(op)
  PROVE  IInv' /\ ResurrectionStep /\ LoginStep
<1>1. /\ Settled /\ ready # {} /\ ready' = ready \ {op}
      /\ AccountFrame /\ UNCHANGED <<store, jobs, reply, tokens, restore, waiting, fresh>>
  BY DEF StartAccount, AccountFrame, coordinator, storeVars
<1>2. reply' = NoReply BY <1>1, SettledReply
<1>3. \/ UNCHANGED <<account, acct>>
      \/ /\ account.pc = "idle"
         /\ IF op = "login" THEN ~HasSession ELSE HasSession
         /\ account' = [pc |-> op, tok |-> IF op = "login" THEN NoToken ELSE acct]
         /\ acct' = IF op = "read" THEN acct ELSE NoToken
  BY DEF StartAccount, Idle
<1>4. \A x \in Queued : JobShape(x)'
  <2> SUFFICES ASSUME NEW x \in Queued PROVE JobShape(x)' OBVIOUS
  <2>1. JobShape(x) BY QueuedJobs
  <2>2. x.op # "removeSession" BY <2>1, <1>1 DEF JobShape
  <2>3. x.by = "login" => UNCHANGED account BY <2>1, <1>3 DEF JobShape
  <2> QED BY <2>1, <2>2, <2>3, <1>1 DEF JobShape, AccountFrame
<1>5. Aside BY <1>1, <1>2, <1>4 DEF Aside, SessionMoves, AccountFrame
<1>6. Holding' => Holding BY <1>1 DEF Holding
<1>7. acct' \in {acct, NoToken} BY <1>3
<1>8. Restoring'
  <2>1. HasSession' => HasSession /\ acct' = acct BY <1>1, <1>7 DEF HasSession
  <2>2. reply'.to # "restore" BY <1>2 DEF NoReply, Nobody
  <2>3. (Running' <=> Running) /\ (Running => Cur' = Cur) BY <1>1 DEF Running, Cur
  <2> QED BY <2>1, <2>2, <2>3, <1>1, IInvParts DEF Restoring
<1>9. CASE UNCHANGED <<account, acct>>
  <2>1. AccountTypes' BY <1>1, <1>9, AccountType DEF AccountTypes
  <2>2. Accounts' BY <1>1, <1>9, IInvParts DEF Accounts
  <2> QED BY <2>1, <2>2, <1>1, <1>5, <1>6, <1>8, <1>9, AccountKeeps
<1>10. CASE /\ account.pc = "idle"
            /\ IF op = "login" THEN ~HasSession ELSE HasSession
            /\ account' = [pc |-> op, tok |-> IF op = "login" THEN NoToken ELSE acct]
            /\ acct' = IF op = "read" THEN acct ELSE NoToken
  <2>1. acct \in Tokens \cup {NoToken} BY AccountType DEF AccountTypes
  <2>2. account'.pc = op /\ account'.tok = IF op = "login" THEN NoToken ELSE acct BY <1>10
  <2>3. HasSession => acct \in Tokens BY <2>1 DEF HasSession
  <2>4. op \in {"login", "logout", "read"} BY DEF AccountOps
  <2>5. account' \in [pc : {"idle", "adopt", "login", "persist", "logout", "read"},
                      tok : Tokens \cup {NoToken}]
    BY <2>1, <2>4, <1>10
  <2>6. AccountTypes' BY <2>5, <1>1, <1>7, AccountType DEF AccountTypes
  <2>7. Accounts' BY <2>2, <2>3, <2>4, <1>10 DEF Accounts
  <2>8. acct # NoToken /\ acct' = NoToken /\ Accepts(acct) => account'.pc = "logout"
    BY <2>2, <2>4, <1>10 DEF HasSession, Accepts
  <2> QED BY <2>6, <2>7, <2>8, <1>1, <1>5, <1>6, <1>8, <1>10, AccountKeeps
<1> QED BY <1>3, <1>9, <1>10

\* The login's session is stored (LoginPersisted).
LEMMA LoginPersistedKeeps ==
  ASSUME IInv, LoginPersisted
  PROVE  IInv' /\ ResurrectionStep /\ LoginStep
<1>1. /\ reply.to = "login" /\ reply' = NoReply /\ account' = NoAccount
      /\ AccountFrame /\ UNCHANGED <<store, jobs, tokens, restore, waiting, fresh>>
      /\ IF reply.ok THEN acct' = account.tok /\ ready' = {"after"} ELSE UNCHANGED <<acct, ready>>
  BY DEF LoginPersisted, AccountFrame, coordinator
<1>2. account.pc = "persist" /\ acct = NoToken /\ account.tok \in Tokens
  BY <1>1, IInvParts DEF Replies, Accounts
<1>3. \A x \in Queued : JobShape(x)'
  <2> SUFFICES ASSUME NEW x \in Queued PROVE JobShape(x)' OBVIOUS
  <2>1. JobShape(x) BY QueuedJobs
  <2>2. x.by # "login" BY <1>1, AnsweredQueue
  <2>3. x.op # "removeSession" BY <2>1, <1>2 DEF JobShape
  <2> QED BY <2>1, <2>2, <2>3, <1>1 DEF JobShape, AccountFrame
<1>4. Aside BY <1>1, <1>3 DEF Aside, SessionMoves, AccountFrame
<1>5. AccountTypes' BY <1>1, <1>2, AccountType DEF AccountTypes, DeviceOps
<1>6. account'.pc = "idle" BY <1>1, AccountType
<1>7. Accounts' BY <1>6 DEF Accounts
<1>8. ~Running BY <1>1, <1>4, AsideOrder DEF Nobody
<1>9. Restoring'
  <2>1. ~Running' BY <1>8, <1>1 DEF Running, Cur
  <2>2. reply'.to # "restore" BY <1>1 DEF NoReply, Nobody
  <2>3. CASE reply.ok
    <3>1. \A s \in SessSlots : store[s] \in {Absent, Session(account.tok)}
      BY <2>3, <1>1, IInvParts DEF Replies
    <3> QED BY <3>1, <2>1, <2>2, <2>3, <1>1 DEF Restoring
  <2>4. CASE ~reply.ok
    <3>1. ~HasSession' BY <2>4, <1>1, <1>2 DEF HasSession
    <3> QED BY <3>1 DEF Restoring
  <2> QED BY <2>3, <2>4
<1>10. Holding' => Holding BY <1>2 DEF Holding
<1> QED BY <1>1, <1>2, <1>4, <1>5, <1>7, <1>8, <1>9, <1>10, AccountKeeps

\* The coordinator answers a read (ReadReply).
LEMMA ReadReplyKeeps ==
  ASSUME IInv, ReadReply
  PROVE  IInv' /\ ResurrectionStep /\ LoginStep
<1>1. /\ Settled /\ account.pc = "read" /\ account' = NoAccount
      /\ AccountFrame /\ UNCHANGED <<store, jobs, reply, tokens, restore, waiting, ready, fresh>>
      /\ acct' \in {acct, NoToken} /\ (acct' # acct => ~Accepts(account.tok))
  BY DEF ReadReply, Quiet, AccountFrame, coordinator, storeVars
<1>2. reply' = NoReply BY <1>1, SettledReply
<1>3. acct \in {NoToken, account.tok} BY <1>1, IInvParts DEF Accounts
<1>4. \A x \in Queued : JobShape(x)'
  <2> SUFFICES ASSUME NEW x \in Queued PROVE JobShape(x)' OBVIOUS
  <2>1. JobShape(x) BY QueuedJobs
  <2>2. x.by # "login" /\ x.op # "removeSession" BY <2>1, <1>1 DEF JobShape
  <2> QED BY <2>1, <2>2, <1>1 DEF JobShape, AccountFrame
<1>5. Aside BY <1>1, <1>2, <1>4 DEF Aside, SessionMoves, AccountFrame
<1>6. AccountTypes' BY <1>1, AccountType DEF AccountTypes
<1>7. account'.pc = "idle" BY <1>1, AccountType
<1>8. Accounts' BY <1>7 DEF Accounts
<1>9. Restoring'
  <2>1. HasSession' => HasSession /\ acct' = acct BY <1>1 DEF HasSession
  <2>2. reply'.to # "restore" BY <1>2 DEF NoReply, Nobody
  <2>3. (Running' <=> Running) /\ (Running => Cur' = Cur) BY <1>1 DEF Running, Cur
  <2> QED BY <2>1, <2>2, <2>3, <1>1, IInvParts DEF Restoring
<1>10. Holding' => Holding BY <1>1 DEF Holding
<1> QED BY <1>1, <1>3, <1>5, <1>6, <1>8, <1>9, <1>10, AccountKeeps

\* The coordinator retires a token (Retire).
LEMMA RetireKeeps ==
  ASSUME IInv, NEW t \in Tokens, Retire(t)
  PROVE  IInv' /\ ResurrectionStep /\ LoginStep
<1>1. /\ Settled /\ tokens[t] = "valid"
      /\ AccountFrame /\ UNCHANGED <<store, jobs, reply, acct, account, restore, waiting, ready, fresh>>
  BY DEF Retire, Quiet, AccountFrame, coordinator, storeVars
<1>2. PICK s \in {"revoked", "expired"} : tokens' = [tokens EXCEPT ![t] = s] BY DEF Retire
<1>3. reply' = NoReply BY <1>1, SettledReply
<1>4. tokens \in [Tokens -> {"unused", "valid", "revoked", "expired"}] BY AccountType DEF AccountTypes
<1>5. \A u \in Tokens : /\ tokens'[u] = "valid" => tokens[u] = "valid"
                        /\ tokens[u] = "expired" => tokens'[u] = "expired"
  BY <1>1, <1>2, <1>4
<1>6. \A x \in Queued : JobShape(x)'
  <2> SUFFICES ASSUME NEW x \in Queued PROVE JobShape(x)' OBVIOUS
  <2>1. JobShape(x) BY QueuedJobs
  <2>2. store["sess"] \in Records BY IInvParts DEF Types, StoreTypeOK, Slots
  <2>3. store["sess"].kind = "session" => store["sess"].token \in Tokens BY <2>2, RecordForms
  <2>4. store["sess"].kind = "session" /\ ~Accepts(store["sess"].token) => ~Accepts(store["sess"].token)'
    BY <2>3, <1>1, <1>5 DEF Accepts
  <2> QED BY <2>1, <2>4, <1>1 DEF JobShape, AccountFrame
<1>7. Aside BY <1>1, <1>3, <1>6 DEF Aside, SessionMoves, AccountFrame
<1>8. AccountTypes' BY <1>1, <1>2, AccountType DEF AccountTypes
<1>9. acct \in Tokens \cup {NoToken} BY AccountType DEF AccountTypes
<1>10. Accounts' BY <1>1, <1>5, <1>9, IInvParts DEF Accounts
<1>11. Restoring'
  <2>1. HasSession' => HasSession BY <1>1, <1>5, <1>9 DEF HasSession
  <2>2. reply'.to # "restore" BY <1>3 DEF NoReply, Nobody
  <2>3. (Running' <=> Running) /\ (Running => Cur' = Cur) BY <1>1 DEF Running, Cur
  <2> QED BY <2>1, <2>2, <2>3, <1>1, IInvParts DEF Restoring
<1>12. Holding' => Holding BY <1>1 DEF Holding, AccountFrame
<1> QED BY <1>1, <1>7, <1>8, <1>10, <1>11, <1>12, AccountKeeps

\* The coordinator answers a login (LoginReply).
LEMMA LoginReplyKeeps ==
  ASSUME IInv, LoginReply
  PROVE  IInv' /\ ResurrectionStep /\ LoginStep
<1>1. /\ Settled /\ account.pc = "login" /\ AccountFrame
      /\ UNCHANGED <<reply, acct, restore, waiting, ready>>
  BY DEF LoginReply, Quiet, AccountFrame, coordinator
<1>2. reply' = NoReply BY <1>1, SettledReply
<1>3. acct = NoToken BY <1>1, IInvParts DEF Accounts
<1>4. Restoring'
  <2>1. ~HasSession' BY <1>1, <1>3 DEF HasSession
  <2> QED BY <2>1 DEF Restoring
<1>5. Holding' => Holding BY <1>1 DEF Holding
<1>6. \A x \in Queued : JobShape(x) /\ x.by # "login" /\ x.op \notin {"removeSession", "saveSession"}
  <2> SUFFICES ASSUME NEW x \in Queued
               PROVE  JobShape(x) /\ x.by # "login" /\ x.op \notin {"removeSession", "saveSession"}
    OBVIOUS
  <2>1. JobShape(x) BY QueuedJobs
  <2>2. x.by # Nobody BY <1>1, IInvParts DEF NoOrphans, Queued
  <2> QED BY <2>1, <2>2, <1>1 DEF JobShape
<1>7. \A x \in Queued : JobShape(x)' BY <1>6, <1>1 DEF JobShape, AccountFrame
<1>8. CASE account' = NoAccount /\ UNCHANGED <<fresh, tokens, jobs, store>>
  <2>1. Aside BY <1>1, <1>2, <1>7, <1>8 DEF Aside, SessionMoves, AccountFrame
  <2>2. AccountTypes' BY <1>1, <1>8, AccountType DEF AccountTypes
  <2>3. Accounts' BY <1>8, AccountType DEF Accounts
  <2> QED BY <2>1, <2>2, <2>3, <1>1, <1>4, <1>5, <1>8, AccountKeeps
<1>9. CASE /\ fresh.tok \in Tokens
           /\ fresh' = [fresh EXCEPT !.tok = @ + 1]
           /\ tokens' = [tokens EXCEPT ![fresh.tok] = "valid"]
           /\ account' = [pc |-> "persist", tok |-> fresh.tok]
           /\ Enqueue(Job("saveSession", "login", Session(fresh.tok), Absent))
           /\ store' = IF port THEN [store EXCEPT !["sess"] = Session(fresh.tok)] ELSE store
  <2>1. PICK rec \in Records : rec = Session(fresh.tok) /\ rec.kind = "session"
    BY <1>9, RecordForms, KindsOfForms
  <2>2. account'.pc = "persist" /\ account'.tok = fresh.tok BY <1>9
  <2>3. ~(Running /\ Cur.op = "saveSession")
    <3>1. Running => 1 \in Index BY IInvParts, PlanForm
    <3> QED BY <3>1, <1>6 DEF Queued, Cur
  <2>4. SessionMoves BY <2>1, <2>3, <1>9 DEF SessionMoves
  <2>5. Aside
    <3>1. "saveSession" \in Ops /\ "login" \in Clients \cup {Nobody} /\ Absent \in Records
      BY RecordForms DEF Ops, Clients
    <3>2. PICK j \in Jobs : /\ j = Job("saveSession", "login", rec, Absent)
                            /\ j.op = "saveSession" /\ j.by = "login" /\ j.rec = rec /\ ~j.begun
      BY ONLY <3>1, JobForm, rec \in Records
    <3>3. JobShape(j)' BY <3>2, <2>1, <2>2 DEF JobShape, Nobody
    <3>4. Unqueued("login") BY <1>6 DEF Unqueued, Queued
    <3>5. Admissible(j) BY <3>2, <3>3, <3>4 DEF Admissible, Nobody
    <3> QED BY <3>2, <3>5, <2>1, <2>4, <1>1, <1>2, <1>7, <1>9 DEF Aside, AccountFrame, Enqueue
  <2>6. AccountTypes'
    <3>1. fresh' \in [ops : Nat, req : Nat, cert : Nat, tok : Nat, legacy : SUBSET Nat]
      BY <1>9, TypesParts, FreshGrows DEF EnrollTypes
    <3> QED BY <3>1, <1>1, <1>9, AccountType DEF AccountTypes
  <2>7. Accounts' BY <2>2, <1>1, <1>3, <1>9 DEF Accounts
  <2>8. store'["sess"] # store["sess"] => store'["sess"] # Absent
    <3>1. store \in [Slots -> Records] BY IInvParts DEF Types, StoreTypeOK
    <3>2. port => store'["sess"] = rec BY <3>1, <2>1, <1>9 DEF Slots
    <3> QED BY <3>2, <2>1, <1>9, KindsOfForms
  <2> QED BY <2>2, <2>5, <2>6, <2>7, <2>8, <1>1, <1>3, <1>4, <1>5, AccountKeeps
<1> QED BY <1>8, <1>9 DEF LoginReply

\* The coordinator answers a logout (LogoutReply).
LEMMA LogoutReplyKeeps ==
  ASSUME IInv, LogoutReply
  PROVE  IInv' /\ ResurrectionStep /\ LoginStep
<1>1. /\ Settled /\ account.pc = "logout" /\ account' = NoAccount /\ AccountFrame
      /\ UNCHANGED <<jobs, reply, acct, restore, waiting, ready, fresh>>
  BY DEF LogoutReply, Quiet, AccountFrame, coordinator
<1>2. reply' = NoReply BY <1>1, SettledReply
<1>3. acct = NoToken /\ account.tok \in Tokens BY <1>1, IInvParts DEF Accounts
<1>4. store' = store \/ store' = [store EXCEPT !["sess"] = Absent] BY DEF LogoutReply
<1>5. \A x \in Queued : JobShape(x) /\ x.by # "login" /\ x.op \notin {"removeSession", "saveSession"}
  <2> SUFFICES ASSUME NEW x \in Queued
               PROVE  JobShape(x) /\ x.by # "login" /\ x.op \notin {"removeSession", "saveSession"}
    OBVIOUS
  <2>1. JobShape(x) BY QueuedJobs
  <2>2. x.by # Nobody BY <1>1, IInvParts DEF NoOrphans, Queued
  <2> QED BY <2>1, <2>2, <1>1 DEF JobShape
<1>6. \A x \in Queued : JobShape(x)' BY <1>5, <1>1 DEF JobShape, AccountFrame
<1>7. SessionMoves
  <2>1. Running => 1 \in Index BY IInvParts, PlanForm
  <2>2. ~(Running /\ Cur.op = "saveSession") BY <2>1, <1>5 DEF Queued, Cur
  <2> QED BY <2>2, <1>4, RecordForms, KindsOfForms DEF SessionMoves
<1>8. Aside BY <1>1, <1>2, <1>6, <1>7 DEF Aside, AccountFrame
<1>9. AccountTypes'
  <2>1. tokens' \in [Tokens -> {"unused", "valid", "revoked", "expired"}]
    BY <1>3, AccountType DEF AccountTypes, LogoutReply
  <2> QED BY <2>1, <1>1, AccountType DEF AccountTypes
<1>10. Accounts' BY <1>1, AccountType DEF Accounts
<1>11. Restoring'
  <2>1. ~HasSession' BY <1>1, <1>3 DEF HasSession
  <2> QED BY <2>1 DEF Restoring
<1>12. Holding' => Holding BY <1>1 DEF Holding
<1>13. store'["sess"] \in {store["sess"], Absent}
  <2>1. store \in [Slots -> Records] BY IInvParts DEF Types, StoreTypeOK
  <2> QED BY <2>1, <1>4 DEF Slots
<1> QED BY <1>1, <1>3, <1>8, <1>9, <1>10, <1>11, <1>12, <1>13, AccountKeeps

(***************************************************************************)
(* Faults.                                                                 *)
(***************************************************************************)

\* What is forgotten with the helper or the process.
LEMMA ForgetParts ==
  ASSUME Constants, IInv, Forget, Fault, UNCHANGED <<tokens, issued, consumed, left, fresh>>, StoreTypeOK'
  PROVE  Types' /\ Workflow' /\ Accounts' /\ Restoring' /\ ~Holding'
<1>1. /\ acct' = NoToken /\ account' = NoAccount
      /\ restore' = "idle" /\ waiting' = {} /\ ready' = {}
      /\ enroll' = NoEnroll /\ device' = NoDevice /\ restored' = FALSE
  BY DEF Forget
<1>2. account'.pc = "idle" /\ account' \in [pc : {"idle"}, tok : {NoToken}] BY <1>1, AccountType
<1>3. enroll'.pc = "idle" /\ enroll' \in [pc : {"idle"}, req : {0}, rec : Records] BY <1>1, TypesParts
<1>4. device'.pc = "idle" /\ device' \in [pc : {"idle"}, rec : Records, want : Records,
                   tok : Tokens \cup {NoToken}, scoped : BOOLEAN, again : BOOLEAN]
  BY <1>1, NoDeviceType
<1>5. faults' \in 0..MaxFaults BY IInvParts DEF Fault, Types, Constants
<1>6. Types' BY <1>1, <1>2, <1>3, <1>4, <1>5, IInvParts DEF Types
<1>7. Workflow' BY <1>3, <1>4 DEF Workflow
<1>8. Accounts' BY <1>2 DEF Accounts
<1>9. Restoring' BY <1>1 DEF Restoring
<1>10. ~Holding' BY <1>1, <1>2, <1>3 DEF Holding
<1> QED BY <1>6, <1>7, <1>8, <1>9, <1>10

\* The helper process is lost (HelperLost).
LEMMA HelperLostKeeps ==
  ASSUME Constants, IInv, HelperLost
  PROVE  IInv' /\ ResurrectionStep /\ LoginStep
<1>1. /\ Settled /\ Forget /\ Fault
      /\ UNCHANGED <<port, store, reply, tokens, issued, consumed, left, fresh>>
      /\ jobs' = [i \in 1..Len(jobs) |-> [jobs[i] EXCEPT !.by = Nobody]]
  BY DEF HelperLost, Quiet, coordinator
<1>2. jobs \in Seq(Jobs) /\ Len(jobs) \in Nat BY IInvParts DEF Types, StoreTypeOK
<1>3. \A i \in Index : jobs[i] \in Jobs BY <1>2 DEF Index
<1>4. \A i \in Index : /\ [jobs[i] EXCEPT !.by = Nobody] \in Jobs
                       /\ jobs'[i] = [jobs[i] EXCEPT !.by = Nobody]
  BY <1>1, <1>3 DEF Jobs, Index
<1>5. jobs' \in Seq(Jobs) /\ Len(jobs') = Len(jobs) BY <1>1, <1>2, <1>4 DEF Index
<1>6. Index' = Index BY <1>5 DEF Index
<1>7. \A i \in Index : /\ jobs'[i].by = Nobody /\ jobs'[i].op = jobs[i].op
                       /\ jobs'[i].rec = jobs[i].rec /\ jobs'[i].rev = jobs[i].rev
                       /\ jobs'[i].begun = jobs[i].begun /\ jobs'[i].plan = jobs[i].plan
                       /\ jobs'[i].ok = jobs[i].ok /\ jobs'[i].value = jobs[i].value
  BY <1>3, <1>4 DEF Jobs
<1>8. SameRun
  <2>1. CASE jobs = <<>>
    <3>1. jobs' = <<>> BY <2>1, <1>5
    <3> QED BY <3>1, <2>1, <1>1 DEF SameRun, Running, SessionMoves
  <2>2. CASE jobs # <<>>
    <3>1. 1 \in Index BY <2>2, <1>2, TailQueue DEF Index
    <3>2. jobs' # <<>> BY <1>2, <1>5, <3>1 DEF Index
    <3> QED BY <3>1, <3>2, <2>2, <1>1, <1>7 DEF SameRun, Running, Cur, SessionMoves
  <2> QED BY <2>1, <2>2
<1>9. store \in [Slots -> Records] BY IInvParts DEF Types, StoreTypeOK
<1>10. /\ Routed' = Routed /\ Places' /\ Stuck' /\ Planned' /\ SameId' /\ Keeping' /\ Preparing' /\ Saving'
  BY <1>8, <1>9, SameRunKeeps, IInvParts
<1>11. StoreTypeOK' BY <1>1, <1>5, IInvParts DEF StoreTypeOK, Types
<1>12. Types' /\ Workflow' /\ Accounts' /\ Restoring' /\ ~Holding' BY <1>1, <1>11, ForgetParts
<1>13. NoOrphans' BY <1>12 DEF NoOrphans, Holding
<1>14. Shapes'
  <2> SUFFICES ASSUME NEW i \in Index PROVE JobShape(jobs[i])' BY <1>6 DEF Shapes
  <2>1. PICK x, y : x = jobs[i] /\ y = jobs'[i] OBVIOUS
  <2>2. JobShape(x) BY <2>1, IInvParts DEF Shapes
  <2>3. y.by = Nobody /\ y.op = x.op /\ y.rec = x.rec /\ y.rev = x.rev BY <2>1, <1>7
  <2>4. account'.pc = "idle" /\ acct' = NoToken /\ ready' = {} BY <1>1, AccountType DEF Forget
  <2>5. JobShape(y)' BY <2>2, <2>3, <2>4, <1>1 DEF JobShape, Nobody, Accepts
  <2> QED BY <2>1, <2>5 DEF JobShape
<1>15. Order'
  <2>1. reply'.to = Nobody /\ Settled' BY <1>1, SettledReply DEF Settled
  <2>2. \A i \in Index : jobs'[i].begun => i = 1 /\ Settled' BY <2>1, <1>7, IInvParts DEF Order
  <2>3. \A i, k \in Index : i < k /\ jobs'[k].op = "removeSession" =>
          jobs'[i].op \notin {"saveSession", "loadSession"}
    BY <1>7, IInvParts DEF Order
  <2> QED BY <2>1, <2>2, <2>3, <1>6, <1>7 DEF Order
<1>16. Replies'
  <2>1. reply'.to = Nobody BY <1>1, SettledReply
  <2> QED BY <2>1 DEF Replies, Nobody
<1>17. Removing' BY <1>1, <1>8, <1>10, IInvParts DEF Removing, SameRun
<1>18. Loading'
  <2>1. Running' => 1 \in Index
    <3>1. Running' => Running BY <1>8 DEF SameRun
    <3> QED BY <3>1, IInvParts, PlanForm
  <2>2. Running' => Cur'.by = Nobody BY <2>1, <1>7 DEF Cur
  <2> QED BY <2>2, <1>1, <1>8, IInvParts DEF Loading, SameRun
<1>19. SpentIsResumable' BY <1>1, <1>10, IInvParts DEF SpentIsResumable
<1>20. ResurrectionStep BY <1>1, <1>10, RoutedIsHeld, IInvParts DEF ResurrectionStep
<1>21. LoginStep
  <2>1. faults' # faults BY <1>1, IInvParts DEF Fault, Types, Constants
  <2> QED BY <2>1, <1>1, KindsOfForms DEF LoginStep
<1> QED BY <1>10, <1>12, <1>13, <1>14, <1>15, <1>16, <1>17, <1>18, <1>19, <1>20, <1>21 DEF IInv

\* The main process is lost (Crash).
LEMMA CrashKeeps ==
  ASSUME Constants, IInv, Crash
  PROVE  IInv' /\ ResurrectionStep /\ LoginStep
<1>1. /\ Forget /\ Fault
      /\ UNCHANGED <<store, tokens, issued, consumed, left, fresh>>
      /\ jobs' = <<>> /\ reply' = NoReply /\ port' \in {port, TRUE}
  BY DEF Crash, coordinator
<1>2. StoreTypeOK'
  <2>1. NoReply \in [to : Clients \cup {Nobody}, ok : BOOLEAN, value : Records]
    BY RecordForms DEF NoReply
  <2>2. <<>> \in Seq(Jobs) OBVIOUS
  <2> QED BY <2>1, <2>2, <1>1, IInvParts DEF StoreTypeOK, Types
<1>3. Types' /\ Workflow' /\ Accounts' /\ Restoring' /\ ~Holding' BY <1>1, <1>2, ForgetParts
<1>4. Index' = {} BY <1>1 DEF Index
<1>5. ~Running' BY <1>1 DEF Running
<1>6. reply'.to = Nobody BY <1>1 DEF NoReply
<1>7. Shapes' /\ Order' /\ NoOrphans' BY <1>4, <1>6 DEF Shapes, Order, NoOrphans
<1>8. Replies' BY <1>6 DEF Replies, Nobody
<1>9. Routed' = Routed
  <2>1. CASE port' = port BY <2>1, <1>1 DEF Routed
  <2>2. CASE port' = TRUE /\ ~port
    <3>1. port' /\ store["core"] = Absent /\ store["enr"] = Absent BY <2>2, IInvParts DEF Places
    <3> QED BY <3>1, <2>2, <1>1 DEF Routed
  <2>3. port \in BOOLEAN BY IInvParts DEF Types, StoreTypeOK
  <2> QED BY <2>1, <2>2, <2>3, <1>1
<1>10. Places'
  <2>1. CASE port' = port BY <2>1, <1>1, IInvParts DEF Places
  <2>2. CASE port' = TRUE
    <3>1. port' BY <2>2
    <3> QED BY <3>1, <1>1, IInvParts DEF Places
  <2> QED BY <2>1, <2>2, <1>1
<1>11. Stuck' /\ Planned' /\ Keeping' /\ Preparing' /\ Removing' /\ Saving' /\ Loading'
  BY <1>5 DEF Stuck, Planned, Keeping, Preparing, Removing, Saving, Loading
<1>12. SameId' BY <1>1, <1>5, IInvParts DEF SameId, OneReq
<1>13. SpentIsResumable' BY <1>1, <1>9, IInvParts DEF SpentIsResumable
<1>14. ResurrectionStep BY <1>1, <1>9, RoutedIsHeld, IInvParts DEF ResurrectionStep
<1>15. LoginStep
  <2>1. faults' # faults BY <1>1, IInvParts DEF Fault, Types, Constants
  <2> QED BY <2>1, <1>1, KindsOfForms DEF LoginStep
<1> QED BY <1>3, <1>7, <1>8, <1>10, <1>11, <1>12, <1>13, <1>14, <1>15 DEF IInv
(***************************************************************************)
(* The theorems.                                                           *)
(***************************************************************************)

\* The invariant holds of a first start, whatever an earlier version left in the files.
LEMMA InitIInv ==
  ASSUME Constants, Init
  PROVE  IInv
<1>1. PICK old \in BOOLEAN, broken \in BOOLEAN :
       /\ ~(old /\ broken)
       /\ StoreInit(IF old THEN Credential(1, 1) ELSE IF broken THEN Corrupt ELSE Absent,
                    IF old THEN Session(1) ELSE Absent)
       /\ tokens = [t \in Tokens |-> IF old /\ t = 1 THEN "valid" ELSE "unused"]
       /\ issued = [r \in Requests |-> IF old /\ r = 1 THEN 1 ELSE 0]
       /\ consumed = IF old THEN {1} ELSE {}
       /\ fresh = IF old THEN [ops |-> 0, req |-> 2, cert |-> 2, tok |-> 2, legacy |-> {1}]
                         ELSE [ops |-> 0, req |-> 1, cert |-> 1, tok |-> 1, legacy |-> {}]
  BY DEF Init
<1>2. /\ acct = NoToken /\ account = NoAccount
      /\ restore = "idle" /\ waiting = {} /\ ready = {}
      /\ enroll = NoEnroll /\ device = NoDevice /\ restored = FALSE
      /\ left = {} /\ faults = 0
  BY DEF Init
<1>3. PICK l \in Records, s \in Records :
        /\ l = IF old THEN Credential(1, 1) ELSE IF broken THEN Corrupt ELSE Absent
        /\ s = IF old THEN Session(1) ELSE Absent
  BY RecordForms DEF Constants
<1>4. /\ port \in BOOLEAN /\ jobs = <<>> /\ reply = NoReply
      /\ store = [x \in Slots |-> CASE x = "file" -> l [] x = "sfile" -> s [] OTHER -> Absent]
  BY <1>1, <1>3 DEF StoreInit
<1>5. /\ store \in [Slots -> Records]
      /\ store["core"] = Absent /\ store["enr"] = Absent /\ store["sess"] = Absent
      /\ store["file"] = l /\ store["sfile"] = s
  BY <1>3, <1>4, RecordForms DEF Slots
<1>6. /\ l.kind \in {"none", "corrupt", "registered"} /\ (l.kind = "registered" => old /\ l.req = 1)
      /\ old => l.kind = "registered"
      /\ s.kind \in {"none", "session"}
  BY <1>3, KindsOfForms
<1>7. Index = {} /\ ~Running /\ reply.to = Nobody BY <1>4 DEF Index, Running, NoReply
<1>8. Routed = l BY <1>5 DEF Routed
<1>9. account.pc = "idle" /\ account \in [pc : {"idle"}, tok : {NoToken}] BY <1>2 DEF NoAccount
<1>10. enroll.pc = "idle" /\ enroll \in [pc : {"idle"}, req : {0}, rec : Records]
  BY <1>2, RecordForms DEF NoEnroll
<1>11. device.pc = "idle" /\ device \in [pc : {"idle"}, rec : Records, want : Records,
                   tok : Tokens \cup {NoToken}, scoped : BOOLEAN, again : BOOLEAN]
  BY <1>2, NoDeviceType
<1>12. Types
  <2>1. StoreTypeOK
    <3>1. NoReply \in [to : Clients \cup {Nobody}, ok : BOOLEAN, value : Records]
      BY RecordForms DEF NoReply
    <3>2. <<>> \in Seq(Jobs) OBVIOUS
    <3> QED BY <3>1, <3>2, <1>4, <1>5 DEF StoreTypeOK
  <2>2. fresh \in [ops : Nat, req : Nat, cert : Nat, tok : Nat, legacy : SUBSET Nat] BY <1>1
  <2>3. tokens \in [Tokens -> {"unused", "valid", "revoked", "expired"}] BY <1>1
  <2>4. issued \in [Requests -> Certs \cup {0}] /\ consumed \subseteq Requests
    BY <1>1 DEF Constants
  <2>5. faults \in 0..MaxFaults BY <1>2 DEF Constants
  <2> QED BY <2>1, <2>2, <2>3, <2>4, <2>5, <1>2, <1>9, <1>10, <1>11 DEF Types
<1>13. Shapes /\ Order /\ NoOrphans BY <1>7 DEF Shapes, Order, NoOrphans
<1>14. Places BY <1>5, <1>6, KindsOfForms DEF Places, SessSlots
<1>15. SameId
  <2>1. OneReq(1) BY <1>5, <1>6, <1>7, KindsOfForms DEF OneReq, RegSlots, WellFormed
  <2> QED BY <2>1 DEF SameId, Constants
<1>16. Stuck /\ Planned /\ Keeping /\ Preparing /\ Removing /\ Saving /\ Loading
  BY <1>7 DEF Stuck, Planned, Keeping, Preparing, Removing, Saving, Loading
<1>17. Replies BY <1>7 DEF Replies, Nobody
<1>18. Workflow BY <1>10, <1>11 DEF Workflow
<1>19. Accounts BY <1>9 DEF Accounts
<1>20. Restoring BY <1>2 DEF Restoring
<1>21. SpentIsResumable BY <1>1, <1>6, <1>8 DEF SpentIsResumable, WellFormed
<1> QED BY <1>12, <1>13, <1>14, <1>15, <1>16, <1>17, <1>18, <1>19, <1>20, <1>21 DEF IInv

\* It is about the variables alone.
LEMMA StutterKeeps ==
  ASSUME IInv, UNCHANGED vars
  PROVE  IInv'
<1>1. UNCHANGED <<port, store, jobs, reply, acct, tokens, account, restore, waiting, ready, enroll,
                  device, restored, issued, consumed, left, fresh, faults>>
  BY DEF vars, storeVars, accountVars, coordinator
<1>2. Routed' = Routed /\ (HasSession' <=> HasSession) BY <1>1 DEF Routed, HasSession
<1>3. Index' = Index /\ Cur' = Cur /\ (Running' <=> Running) BY <1>1 DEF Index, Cur, Running
<1>4. Types' BY <1>1, IInvParts DEF Types, StoreTypeOK
<1>5. Shapes'
  <2> SUFFICES ASSUME NEW i \in Index PROVE JobShape(jobs[i])' BY <1>3 DEF Shapes
  <2> QED BY <1>1, IInvParts DEF Shapes, JobShape, Accepts
<1>6. Order' /\ NoOrphans' BY <1>1, <1>3, IInvParts DEF Order, NoOrphans, Settled
<1>7. store \in [Slots -> Records] /\ SameRun
  BY <1>1, <1>3, IInvParts DEF SameRun, SessionMoves, Types, StoreTypeOK
<1>8. Places' /\ Stuck' /\ Planned' /\ SameId' /\ Keeping' /\ Preparing' /\ Saving'
  BY <1>7, SameRunKeeps, IInvParts
<1>9. Removing' /\ Loading' BY <1>1, <1>2, <1>3, IInvParts DEF Removing, Loading
<1>10. Replies' BY <1>1, <1>2, IInvParts DEF Replies
<1>11. Workflow' /\ SpentIsResumable' BY <1>1, <1>2, IInvParts DEF Workflow, SpentIsResumable
<1>12. Accounts' BY <1>1, IInvParts DEF Accounts
<1>13. Restoring' BY <1>1, <1>2, <1>3, IInvParts DEF Restoring
<1> QED BY <1>4, <1>5, <1>6, <1>8, <1>9, <1>10, <1>11, <1>12, <1>13 DEF IInv

\* Every step keeps it, resurrects no registration and loses no login.
LEMMA NextKeeps ==
  ASSUME Constants, IInv, [Next]_vars
  PROVE  IInv' /\ [ResurrectionStep]_vars /\ [LoginStep]_vars
<1>1. CASE UNCHANGED vars BY <1>1, StutterKeeps
<1>2. ASSUME NEW op \in AccountOps \cup {"sweep"}, Request(op)
      PROVE  IInv' /\ ResurrectionStep /\ LoginStep BY <1>2, RequestKeeps
<1>3. CASE RestoreLoaded \/ RestoreDropped BY <1>3, RestoreLoadedKeeps, RestoreDroppedKeeps
<1>4. CASE AdoptReply BY <1>4, AdoptReplyKeeps
<1>5. ASSUME NEW op \in AccountOps, StartAccount(op)
      PROVE  IInv' /\ ResurrectionStep /\ LoginStep BY <1>5, StartAccountKeeps
<1>6. CASE LoginReply \/ LoginPersisted BY <1>6, LoginReplyKeeps, LoginPersistedKeeps
<1>7. CASE LogoutReply \/ ReadReply BY <1>7, LogoutReplyKeeps, ReadReplyKeeps
<1>8. ASSUME NEW t \in Tokens, Retire(t)
      PROVE  IInv' /\ ResurrectionStep /\ LoginStep BY <1>8, RetireKeeps
<1>9. CASE Register \/ EnrollWhenMissing BY <1>9, RegisterKeeps DEF EnrollWhenMissing
<1>10. CASE Join BY <1>10, JoinKeeps
<1>11. ASSUME NEW purpose \in {"inspect", "submitPending", "recover", "leave"}, Load(purpose)
       PROVE  IInv' /\ ResurrectionStep /\ LoginStep BY <1>11, LoadKeeps
<1>12. CASE EnrollResume \/ Submit BY <1>12, EnrollResumeKeeps, SubmitKeeps
<1>13. CASE QueryAndComplete \/ Leave \/ EnrollCancel
  BY <1>13, QueryAndCompleteKeeps, LeaveKeeps, EnrollCancelKeeps
<1>14. ASSUME NEW op \in DeviceOps, StartDevice(op)
       PROVE  IInv' /\ ResurrectionStep /\ LoginStep BY <1>14, StartDeviceKeeps
<1>15. CASE DeviceResume \/ Certificate BY <1>15, DeviceResumeKeeps, CertificateKeeps
<1>16. CASE Renewed \/ RecoveryScope \/ DeviceRestore
  BY <1>16, RenewedKeeps, RecoveryScopeKeeps, DeviceRestoreKeeps
<1>17. CASE StoreStep \/ StoreFails BY <1>17, StoreStepKeeps, StoreFailsKeeps
<1>18. CASE HelperLost \/ Crash BY <1>18, HelperLostKeeps, CrashKeeps
<1>19. CASE Rest
  <2>1. UNCHANGED vars BY <1>19 DEF Rest
  <2> QED BY <2>1, StutterKeeps
<1> QED BY <1>1, <1>2, <1>3, <1>4, <1>5, <1>6, <1>7, <1>8, <1>9, <1>10, <1>11, <1>12, <1>13,
           <1>14, <1>15, <1>16, <1>17, <1>18, <1>19 DEF Next

\* The types, the one identity and the resumable tokens follow from it.
LEMMA IInvImplies ==
  ASSUME IInv
  PROVE  TypeOK /\ OneIdentity /\ SpentIsResumable
<1>1. TypeOK BY IInvParts DEF Types, TypeOK
<1>2. OneIdentity
  <2>1. PICK q \in Requests : OneReq(q) BY IInvParts DEF SameId
  <2> QED BY <2>1 DEF OneReq, OneIdentity, Identities, RegSlots
<1> QED BY <1>1, <1>2, IInvParts

\* The invariant holds in every state, for any numbers of requests, certificates, tokens,
\* failures and operations.
THEOREM IdentityInvariant == ASSUME Constants PROVE Spec => []IInv
<1>1. Init => IInv BY InitIInv
<1>2. IInv /\ [Next]_vars => IInv' BY NextKeeps
<1> QED BY <1>1, <1>2, PTL DEF Spec

\* Every variable of accounts.ts, session-registry.ts, enrollment.ts, device-session.ts and
\* credentials.ts keeps its type.
THEOREM IdentityTypes == ASSUME Constants PROVE Spec => []TypeOK
<1>1. IInv => TypeOK BY IInvImplies
<1> QED BY <1>1, IdentityInvariant, PTL

\* However migrations, completions, replacements and removals of CredentialRegistry
\* (credentials.ts) are cut short by a failed write, a lost helper or a crash, the places
\* never hold two registrations that differ.
THEOREM OneIdentityHeld == ASSUME Constants PROVE Spec => []OneIdentity
<1>1. IInv => OneIdentity BY IInvImplies
<1> QED BY <1>1, IdentityInvariant, PTL

\* Once PeerEnrollment.submit (enrollment.ts) spent an enrollment token, the store routes
\* to that registration until the coordinator removed the device: a restart resumes it
\* instead of asking for another token.
THEOREM SpentStaysResumable == ASSUME Constants PROVE Spec => []SpentIsResumable
<1>1. IInv => SpentIsResumable BY IInvImplies
<1> QED BY <1>1, IdentityInvariant, PTL

\* A registration appears where the store routed to none only as a new pending enrollment:
\* no renewal, completion or migration of CredentialRegistry (credentials.ts) brings back
\* what its remove erased, and none writes over a damaged file.
THEOREM NothingResurrected == ASSUME Constants PROVE Spec => NoResurrection
<1>1. IInv /\ [Next]_vars => [ResurrectionStep]_vars BY NextKeeps
<1> QED BY <1>1, IdentityInvariant, PTL DEF Spec, NoResurrection

\* PeerAccounts (accounts.ts) forgets a session the coordinator still accepts only in a
\* logout or with a failure, and the store (session-registry.ts, credentials.ts) loses it
\* only in a logout or with the registration: neither a late refusal of an older session
\* nor a late restoration ends a login.
THEOREM LoginsKept == ASSUME Constants PROVE Spec => LoginIsKept
<1>1. IInv /\ [Next]_vars => [LoginStep]_vars BY NextKeeps
<1> QED BY <1>1, IdentityInvariant, PTL DEF Spec, LoginIsKept

==============================================================================
