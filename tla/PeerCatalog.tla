----------------------------- MODULE PeerCatalog -----------------------------
(***************************************************************************)
(* The device catalog as the desktop process keeps it: electron/main/p2p/  *)
(* catalog.ts, catalog-schema.ts, catalog-transition.ts and the route to   *)
(* the core of electron/main/core/catalog.ts.  Two files: the record       *)
(* p2p-devices.json and the marker p2p-enabled.json naming its catalog.    *)
(*                                                                         *)
(* The operations of the process are serialized, so only a crash comes     *)
(* between the file-system steps of one of them; two callers hold          *)
(* snapshots and commit what they made of them.  A live core is a second   *)
(* process that writes the same files by itself; the desktop process sends *)
(* its operations there until the core answers that it has no catalog,     *)
(* which it also answers for a read that failed.  An operation of the core *)
(* is one step here, as is the revocation it records by itself.            *)
(***************************************************************************)
EXTENDS Naturals

CONSTANTS
  Callers,      \* holders of a snapshot
  MaxId,        \* catalogs that may ever be created
  MaxRev        \* revisions of a pair

VARIABLES
  record,    \* the record file: content and what is wrong with it; NoFile
  marker,    \* the catalog named by the marker file; 0 when absent
  op,        \* the operation of this process that is inside its file steps
  held,      \* the snapshot each caller holds
  made,      \* catalogs created
  core,      \* no core, a core without a catalog, one that serves it, and one
             \* that serves it and is no longer asked
  last       \* history: the catalog as it was last readable

vars == <<record, marker, op, held, made, core, last>>

Abstract == INSTANCE DeviceCatalog WITH readable <- (marker # 0 /\ record.fault = "none"
                                                       /\ record.c.id = marker)

Catalogs == Abstract!Catalogs
NoCatalog == Abstract!NoCatalog
Fresh(id) == Abstract!Fresh(id)

\* A record file.  "entry" is one entry that strict validation refuses in a
\* record of the right shape, "shape" anything this build cannot read at all.
File(c) == [c |-> c, fault |-> "none"]
NoFile == [c |-> Fresh(1), fault |-> "absent"]
Files == [c : Catalogs, fault : {"none", "entry", "shape"}] \cup {NoFile}
Idle == [pc |-> "idle"]

exists(f) == f.fault # "absent"
\* parsePeerCatalog, then the marker must name the same catalog
read(f, m) == f.fault = "none" /\ m = f.c.id

\* A revoked pair may come back.
TransitionRevives(c, d) ==
  /\ c.forgot => d.forgot
  /\ d.svc # "none" /\ c.forgot => d.svc = c.svc
  /\ c.svc # "none" /\ d.svc = "none" => c.forgot
  /\ d.pair # "none" /\ c.forgot => d.pair = c.pair /\ d.rev = c.rev
  /\ c.pair # "none" /\ d.pair # "none" => d.rev >= c.rev
  /\ c.pair # "none" /\ d.pair = "none" => c.pair = "revoked" \/ c.forgot

\* What one commit may change.  Removing a service or a pair takes an earlier
\* commit that forgot or revoked it.
assertPeerCatalogTransition(c, d) ==
  /\ c.forgot => d.forgot
  /\ d.svc # "none" /\ c.forgot => d.svc = c.svc
  /\ c.svc # "none" /\ d.svc = "none" => c.forgot
  /\ d.pair # "none" /\ c.forgot => d.pair = c.pair /\ d.rev = c.rev
  /\ c.pair # "none" /\ d.pair # "none" =>
       d.rev >= c.rev /\ (c.pair = "revoked" => d.pair = "revoked")
  /\ c.pair # "none" /\ d.pair = "none" => c.pair = "revoked" \/ c.forgot

\* Keeps the history in step with the files.
Witness == last' = IF read(record', marker') THEN record'.c ELSE last

Local == core \in {"none", "unserved"}

\* The snapshot the core or the files give; a refusal leaves the caller as it was.
Inspect(k) ==
  /\ op = Idle /\ core # "blank"
  /\ read(record, marker)
  /\ held' = [held EXCEPT ![k] = record.c]
  /\ UNCHANGED <<record, marker, op, made, core, last>>

\* First enable, and the end of a reset: the record is published, then the marker.
Create ==
  /\ Local /\ made < MaxId /\ ~exists(record) /\ marker = 0
  /\ op = Idle \/ op.pc = "create"
  /\ record' = File(Fresh(made + 1))
  /\ made' = made + 1
  /\ op' = [pc |-> "marker", id |-> made + 1]
  /\ UNCHANGED <<marker, held, core>>
  /\ Witness

\* The marker names another catalog.
PublishNextMarker ==
  /\ op.pc = "marker"
  /\ marker' = op.id + 1
  /\ op' = Idle
  /\ UNCHANGED <<record, held, made, core>>
  /\ Witness

PublishMarker ==
  /\ op.pc = "marker"
  /\ marker' = op.id
  /\ op' = Idle
  /\ UNCHANGED <<record, held, made, core>>
  /\ Witness

\* The files are moved aside one after the other when the catalog cannot be read.
Reset ==
  /\ op = Idle /\ (exists(record) \/ marker # 0)
  /\ ~read(record, marker)
  /\ record' = NoFile
  /\ op' = [pc |-> "marker-aside"]
  /\ UNCHANGED <<marker, held, made, core>>
  /\ Witness

MoveMarkerAside ==
  /\ op.pc = "marker-aside"
  /\ marker' = 0
  /\ op' = [pc |-> "create"]
  /\ UNCHANGED <<record, held, made, core>>
  /\ Witness

\* A commit of what caller k made of its snapshot.
Commit(k, next) ==
  /\ Local /\ op = Idle /\ held[k] # NoCatalog
  /\ read(record, marker) /\ record.c = held[k] /\ next.id = held[k].id
  /\ assertPeerCatalogTransition(record.c, next) /\ next # record.c
  /\ op' = [pc |-> "publish", k |-> k, base |-> record, next |-> next]
  /\ UNCHANGED <<record, marker, held, made, core, last>>

Forgotten(c) == [c EXCEPT !.svc = "none", !.forgot = TRUE, !.pair = "none", !.rev = 0]

\* Removal reads tolerantly, forgets the service with its pair and writes a
\* record that passes strict validation again.
removeService(k) ==
  /\ Local /\ op = Idle
  /\ record.fault \in {"none", "entry"} /\ ~record.c.forgot /\ record.c.svc # "none"
  /\ op' = [pc |-> "publish", k |-> k, base |-> record,
            next |-> Forgotten(record.c)]
  /\ UNCHANGED <<record, marker, held, made, core, last>>

\* The caller is answered from the files as they are read back.
Answer(k) == held' = IF read(record', marker) THEN [held EXCEPT ![k] = record'.c] ELSE held

\* publish: a complete temporary file takes the record's place
replaceFile ==
  /\ op.pc = "publish"
  /\ record' = File(op.next)
  /\ op' = Idle
  /\ Answer(op.k)
  /\ UNCHANGED <<marker, made, core>>
  /\ Witness

\* Windows: the record is moved to a backup first
Backup ==
  /\ op.pc = "publish"
  /\ record' = NoFile
  /\ op' = [pc |-> "swap", k |-> op.k, base |-> op.base, next |-> op.next,
            backup |-> record]
  /\ UNCHANGED <<marker, held, made, core>>
  /\ Witness

Swap ==
  /\ op.pc = "swap"
  /\ \/ record' = File(op.next) /\ Answer(op.k)
     \/ record' \in {op.backup, NoFile} /\ UNCHANGED held   \* restoring may fail too
  /\ op' = Idle
  /\ UNCHANGED <<marker, made, core>>
  /\ Witness

\* publish fails before anything is visible
WriteFails ==
  /\ op.pc \in {"publish", "marker", "create"}
  /\ op' = Idle
  /\ UNCHANGED <<record, marker, held, made, core, last>>

\* A crash loses the operation and the snapshots, never the files.
Crash ==
  /\ op' = Idle
  /\ held' = [k \in Callers |-> NoCatalog]
  /\ core' = IF core = "unserved" THEN "serves" ELSE core
  /\ UNCHANGED <<record, marker, made, last>>

\* The operations sent to a core that serves the catalog; each is one step of
\* the other process.  A reset moves the files aside here and creates there.
CoreEnable ==
  /\ core = "serves" /\ made < MaxId /\ ~exists(record) /\ marker = 0
  /\ op = Idle \/ op.pc = "create"
  /\ record' = File(Fresh(made + 1)) /\ marker' = made + 1
  /\ made' = made + 1
  /\ op' = Idle
  /\ UNCHANGED <<held, core>>
  /\ Witness

CoreRemoveService(k) ==
  /\ core = "serves" /\ op = Idle
  /\ record.fault \in {"none", "entry"} /\ ~record.c.forgot /\ record.c.svc # "none"
  /\ record' = File(Forgotten(record.c))
  /\ Answer(k)
  /\ UNCHANGED <<marker, op, made, core>>
  /\ Witness

CoreCommit(k, next) ==
  /\ core = "serves" /\ op = Idle /\ held[k] # NoCatalog
  /\ read(record, marker) /\ record.c = held[k] /\ next.id = held[k].id
  /\ assertPeerCatalogTransition(record.c, next) /\ next # record.c
  /\ record' = File(next)
  /\ held' = [held EXCEPT ![k] = next]
  /\ UNCHANGED <<marker, op, made, core>>
  /\ Witness

\* The live core records by itself that the pair was revoked.
CoreRevokes ==
  /\ core \in {"serves", "unserved"}
  /\ read(record, marker) /\ record.c.pair = "active" /\ ~record.c.forgot
  /\ record' = File([record.c EXCEPT !.pair = "revoked"])
  /\ UNCHANGED <<marker, op, held, made, core>>
  /\ Witness

\* The core answers that no catalog is behind it: the process serves itself from
\* now on.  The same code answers a failed read of a core that does have one.
onCoreUnserved ==
  /\ op = Idle
  /\ \/ core = "blank" /\ core' = "none"
     \/ core = "serves" /\ core' = "unserved"
  /\ UNCHANGED <<record, marker, op, held, made, last>>

Init ==
  /\ \/ record = NoFile /\ marker = 0 /\ made = 0
     \/ /\ record \in Files \ {NoFile} /\ record.c.id = 1
        /\ marker = 1 /\ made = 1
        /\ record.fault = "entry" => record.c.svc # "none"
  /\ op = Idle
  /\ held = [k \in Callers |-> NoCatalog]
  /\ core \in {"none", "blank", "serves"}
  /\ last = IF read(record, marker) THEN record.c ELSE NoCatalog

Next ==
  \/ \E k \in Callers : Inspect(k) \/ removeService(k) \/ CoreRemoveService(k)
  \/ \E k \in Callers, next \in Catalogs : Commit(k, next) \/ CoreCommit(k, next)
  \/ Create \/ PublishMarker \/ Reset \/ MoveMarkerAside
  \/ replaceFile \/ Backup \/ Swap \/ WriteFails \/ Crash
  \/ CoreEnable \/ CoreRevokes \/ onCoreUnserved

Spec == Init /\ [][Next]_vars

TypeOK ==
  /\ record \in Files /\ marker \in 0..MaxId /\ made \in 0..MaxId
  /\ op.pc \in {"idle", "create", "marker", "marker-aside", "publish", "swap"}
  /\ held \in [Callers -> Catalogs \cup {NoCatalog}]
  /\ core \in {"none", "blank", "serves", "unserved"}
  /\ last \in Catalogs \cup {NoCatalog}

\* A publication of the desktop process after it stopped asking a core that is
\* alive, over a record the core changed since it was read: what the core
\* recorded in between is lost, and no more than that.
Overtaken ==
  /\ core = "unserved"
  /\ \/ op.pc = "publish" /\ record # op.base
     \/ op.pc = "swap" /\ op.backup # op.base
  /\ record' = File(op.next) /\ Abstract!Keeps(op.base.c, op.next)

(* PROPERTY: what the comments of catalog.ts (18-24, 36-38) say, with one    *)
(* writer: the files implement the promise of DeviceCatalog.  Refuted: a     *)
(* live core answers p2p.catalog_unavailable for a read that failed          *)
(* (store.go exists, readFile), the process takes that for a core without a  *)
(* catalog (#onCore), and its next commit is judged against a record that    *)
(* the core then changes: the core's revocation is overwritten.              *)
KeepsItsPromise == Abstract!Spec
=============================================================================
