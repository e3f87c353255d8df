----------------------------- MODULE PeersProofs -----------------------------
(***************************************************************************)
(* Proofs about the components of the desktop process's peer management    *)
(* that MCPeers gathers: the device catalog keeps its promise, what the    *)
(* process acts on is current and what it answers is true, for any number  *)
(* of services, addresses, requests and revisions.  A behaviour is about   *)
(* one component, so each has an inductive invariant of its own over the   *)
(* variables v1, v2, ... that hold its state.  The identity's is proved in *)
(* IdentityProofs and used here at the bounds of the run.                  *)
(***************************************************************************)
EXTENDS MCPeers, SequenceTheorems, TLAPS

-----------------------------------------------------------------------------
(* The device catalog implements its promise. *)

\* A publication was judged by a record, and what it writes keeps that record's
\* promises.  The record f in its place now is the same one, unless a core the
\* process no longer asks has changed it.
CatalogJudged(f) ==
  /\ v6 \in {"none", "unserved"}
  /\ v3.next \in Catalog!Catalogs /\ v3.base \in Catalog!Files /\ f \in Catalog!Files
  /\ v3.base.fault \in {"none", "entry"} /\ f.fault \in {"none", "entry"}
  /\ v2 = v3.base.c.id /\ v2 = f.c.id
  /\ Promise!Keeps(v3.base.c, v3.next)
  /\ v6 = "none" => f = v3.base

\* The operation inside its file steps: what it found, and what it is about to write.
CatalogOp ==
  \/ v3.pc = "idle"
  \/ v3.pc = "create" /\ v1 = Catalog!NoFile /\ v2 = 0
  \/ v3.pc = "marker-aside" /\ v1 = Catalog!NoFile
  \/ /\ v3.pc = "marker" /\ v6 \in {"none", "unserved"} /\ v2 = 0
     /\ v3.id \in 1 .. MaxId /\ v1 = Catalog!File(Catalog!Fresh(v3.id))
  \/ v3.pc = "publish" /\ CatalogJudged(v1)
  \/ /\ v3.pc = "swap" /\ v1 = Catalog!NoFile /\ CatalogJudged(v3.backup)
     /\ v7 = IF v3.backup.fault = "none" THEN v3.backup.c ELSE Catalog!NoCatalog

\* The catalog's files, marker and record of what was last read belong
\* together, whatever step the operation is at.
CatalogInv ==
  /\ v1 \in Catalog!Files /\ v2 \in 0 .. MaxId /\ v5 \in 0 .. MaxId
  /\ v6 \in {"none", "blank", "serves", "unserved"}
  /\ v7 \in Catalog!Catalogs \cup {Catalog!NoCatalog}
  /\ CatalogOp
  /\ Catalog!exists(v1) /\ v2 # 0 => v1.c.id = v2
  /\ Catalog!exists(v1) /\ v2 = 0 => v1.c.svc = "none" /\ v1.fault = "none"
  /\ Catalog!read(v1, v2) => v7 = v1.c
  /\ v1.fault \in {"entry", "shape"} => v7 = Catalog!NoCatalog

\* A catalog made anew is a catalog.
LEMMA FreshIsCatalog == \A id \in 1 .. MaxId : Catalog!Fresh(id) \in Catalog!Catalogs
BY PeersAssumption DEF Catalog!Fresh, Catalog!Catalogs, Catalog!Abstract!Catalogs,
         Catalog!Abstract!Fresh

\* The promise speaks of the same catalogs as the files.
LEMMA SameCatalogs ==
  /\ Catalog!Catalogs = Promise!Catalogs /\ Catalog!NoCatalog = Promise!NoCatalog
  /\ \A id : Catalog!Fresh(id) = Promise!Fresh(id)
BY DEF Catalog!Fresh, Catalog!Catalogs, Catalog!Abstract!Catalogs, Catalog!Abstract!Fresh,
  Promise!Catalogs, Promise!Fresh, Catalog!NoCatalog, Promise!NoCatalog,
           Catalog!Abstract!NoCatalog

\* A transition that is admitted keeps what the promise keeps.
LEMMA TransitionKeeps ==
  ASSUME NEW c \in Catalog!Catalogs, NEW d \in Catalog!Catalogs, d.id = c.id,
         Catalog!assertPeerCatalogTransition(c, d)
  PROVE  Promise!Keeps(c, d)
BY DEF Catalog!assertPeerCatalogTransition, Promise!Keeps

\* Forgetting a service keeps what was forgotten before.
LEMMA ForgottenKeeps ==
  ASSUME NEW c \in Catalog!Catalogs
  PROVE  Catalog!Forgotten(c) \in Catalog!Catalogs /\ Promise!Keeps(c, Catalog!Forgotten(c))
<1> DEFINE d == Catalog!Forgotten(c)
<1>1. c \in [id : 1 .. MaxId, svc : {"none", "e1", "e2"}, forgot : BOOLEAN,
             pair : {"none", "active", "revoked"}, rev : 0 .. MaxRev]
  BY DEF Catalog!Catalogs, Catalog!Abstract!Catalogs
<1>2. 0 \in 0 .. MaxRev BY PeersAssumption
<1>3. /\ d \in [id : 1 .. MaxId, svc : {"none", "e1", "e2"}, forgot : BOOLEAN,
                pair : {"none", "active", "revoked"}, rev : 0 .. MaxRev]
      /\ d.id = c.id /\ d.svc = "none" /\ d.forgot = TRUE /\ d.pair = "none" /\ d.rev = 0
  BY <1>1, <1>2 DEF Catalog!Forgotten
<1>4. d \in Catalog!Catalogs BY <1>3 DEF Catalog!Catalogs, Catalog!Abstract!Catalogs
<1>5. Promise!Keeps(c, d) BY <1>3 DEF Promise!Keeps
<1> QED BY <1>4, <1>5

\* Revoking a pair keeps what was forgotten and revoked before.
LEMMA RevokedKeeps ==
  ASSUME NEW c \in Catalog!Catalogs, c.pair = "active", ~c.forgot
  PROVE  /\ [c EXCEPT !.pair = "revoked"] \in Catalog!Catalogs
         /\ Promise!Keeps(c, [c EXCEPT !.pair = "revoked"])
BY PeersAssumption DEF Promise!Keeps, Catalog!Catalogs, Catalog!Abstract!Catalogs

\* A catalog keeps its own promises.
LEMMA KeepsItself ==
  ASSUME NEW c \in Catalog!Catalogs
  PROVE  Promise!Keeps(c, c)
BY PeersAssumption DEF Promise!Keeps, Catalog!Catalogs, Catalog!Abstract!Catalogs

\* What the fields of a file may be.
LEMMA CatalogFields ==
  /\ \A c \in Catalog!Catalogs : c.id \in 1 .. MaxId /\ c # Catalog!NoCatalog /\ c.id # 0
  /\ Catalog!NoFile.fault = "absent"
  /\ \A c : Catalog!File(c).c = c /\ Catalog!File(c).fault = "none"
  /\ \A c \in Catalog!Catalogs : Catalog!File(c) \in Catalog!Files
  /\ Catalog!NoFile \in Catalog!Files
  /\ \A f \in Catalog!Files : f.fault # "absent" => f.c \in Catalog!Catalogs
  /\ \A f \in Catalog!Files : f.fault \in {"none", "entry", "shape", "absent"}
  /\ \A id : Catalog!Fresh(id).id = id /\ Catalog!Fresh(id).svc = "none"
<1>1. \A c \in Catalog!Catalogs : c.id \in 1 .. MaxId
  BY DEF Catalog!Catalogs, Catalog!Abstract!Catalogs
<1>2. Catalog!NoCatalog.id = 0 BY DEF Catalog!NoCatalog, Catalog!Abstract!NoCatalog,
         Catalog!Abstract!Fresh
<1>3. \A c \in Catalog!Catalogs : c.id # 0 BY <1>1, PeersAssumption
<1>4. \A c \in Catalog!Catalogs : Catalog!File(c) \in Catalog!Files BY DEF Catalog!File,
         Catalog!Files
<1> QED BY <1>1, <1>2, <1>3, <1>4 DEF Catalog!NoFile, Catalog!File, Catalog!Files,
         Catalog!Fresh, Catalog!Abstract!Fresh

\* What the catalog's module and the run call keeping the promise is the same.
LEMMA SameKeeps == \A c, d : Catalog!Abstract!Keeps(c, d) <=> Promise!Keeps(c, d)
BY DEF Catalog!Abstract!Keeps, Promise!Keeps

\* The invariant holds at the start.
LEMMA CatalogStarts ==
  ASSUME Catalog!Init
  PROVE  CatalogInv
<1>1. v3.pc = "idle" BY DEF Catalog!Init, Catalog!Idle
<1>2. CASE v1 = Catalog!NoFile /\ v2 = 0 /\ v5 = 0
  <2>1. 0 \in 0 .. MaxId BY PeersAssumption
  <2> QED BY <1>1, <1>2, <2>1, CatalogFields DEF Catalog!Init, CatalogInv, CatalogOp,
           Catalog!read, Catalog!exists
<1>3. CASE v1 \in Catalog!Files \ {Catalog!NoFile} /\ v1.c.id = 1 /\ v2 = 1 /\ v5 = 1
  <2>1. v1.fault # "absent" BY <1>3 DEF Catalog!Files
  <2>2. v1.c \in Catalog!Catalogs BY <1>3, <2>1, CatalogFields
  <2>3. 1 \in 0 .. MaxId BY <1>3, <2>2, CatalogFields, PeersAssumption
  <2> QED BY <1>1, <1>3, <2>1, <2>2, <2>3, CatalogFields DEF Catalog!Init, CatalogInv,
           CatalogOp, Catalog!read, Catalog!exists
<1> QED BY <1>2, <1>3 DEF Catalog!Init

\* The catalog can be read back.
Readable == Catalog!read(v1, v2)
\* What a step does to the catalog as DeviceCatalog sees it.
CatalogMove ==
  \/ UNCHANGED v7 /\ (Readable' <=> Readable)
  \/ Readable /\ Readable' /\ v7' \in Catalog!Catalogs /\ Promise!Keeps(v7, v7')
  \/ Readable /\ ~Readable' /\ UNCHANGED v7
  \/ /\ ~Readable /\ Readable' /\ v7' \in Catalog!Catalogs
     /\ v7 # Catalog!NoCatalog => Promise!Keeps(v7, v7')
  \/ ~Readable /\ Readable' /\ \E id \in 1 .. MaxId : v7' = Catalog!Fresh(id)
  \/ Catalog!Overtaken

\* A step of the promise, or the publication that loses what a core wrote.
Promised == Promise!Next \/ (part = "catalog" /\ Catalog!Overtaken)

\* A move is such a step, or leaves the promise alone.
LEMMA MoveIsPromised ==
  ASSUME part = "catalog", part' = part, CatalogMove
  PROVE  [Promised]_Promise!vars
BY SameCatalogs DEF CatalogMove, Promised, Readable, Promise!Next, Promise!vars, Promise!Edit,
         Promise!Lose, Promise!Restore, Promise!Replace

\* The files and what was last read stay as they are.
CatalogStays == UNCHANGED <<v1, v2, v5, v7>>

\* A step that leaves the files alone is a move.
LEMMA CatalogRests ==
  ASSUME CatalogInv, CatalogStays, v6' \in {"none", "blank", "serves", "unserved"},
         CatalogOp'
  PROVE  CatalogInv' /\ CatalogMove
BY DEF CatalogInv, CatalogStays, CatalogMove, Readable, Catalog!read, Catalog!exists

\* Writing a catalog that keeps what was last read is a move.
LEMMA CatalogWrites ==
  ASSUME CatalogInv, NEW c \in Catalog!Catalogs, v1' = Catalog!File(c), v2' = v2, v5' = v5,
           v6' = v6, CatalogOp',
         v2 = c.id, v7' = c,
         Readable => Promise!Keeps(v7, c),
                  ~Readable => (v7 # Catalog!NoCatalog => Promise!Keeps(v7, c))
  PROVE  CatalogInv' /\ CatalogMove
<1>1. c.id # 0 BY CatalogFields
<1>2. v1'.fault = "none" /\ v1'.c = c /\ v1' \in Catalog!Files BY CatalogFields
<1>3. Readable' BY <1>2 DEF Readable, Catalog!read
<1> QED BY <1>1, <1>2, <1>3 DEF CatalogInv, CatalogMove, Readable, Catalog!read,
         Catalog!exists

\* Writing what was judged by a record the core has changed since keeps the
\* invariant too, and is the publication that loses the core's change.
LEMMA CatalogOvertakes ==
  ASSUME CatalogInv, NEW f, CatalogJudged(f), f # v3.base,
         (v3.pc = "publish" /\ f = v1) \/ (v3.pc = "swap" /\ f = v3.backup),
         v1' = Catalog!File(v3.next), v2' = v2, v5' = v5, v6' = v6, v3'.pc = "idle",
         v7' = IF Catalog!read(v1', v2') THEN v1'.c ELSE v7
  PROVE  CatalogInv' /\ CatalogMove
<1>1. v6 = "unserved" /\ Promise!Keeps(v3.base.c, v3.next) BY DEF CatalogJudged
<1>2. PICK c \in Catalog!Catalogs : c = v3.next /\ c.id = v2
  BY DEF CatalogJudged, Promise!Keeps
<1>3. v1'.fault = "none" /\ v1'.c = c /\ v1' \in Catalog!Files BY <1>2, CatalogFields
<1>4. v7' = c /\ c.id # 0 BY <1>2, <1>3, CatalogFields DEF Catalog!read
<1>5. CatalogOp' BY DEF CatalogOp
<1>6. Catalog!Overtaken BY <1>1, SameKeeps DEF Catalog!Overtaken
<1> QED BY <1>2, <1>3, <1>4, <1>5, <1>6 DEF CatalogInv, CatalogMove, Catalog!read,
         Catalog!exists

\* Losing the readable catalog is a move.
LEMMA CatalogLoses ==
  ASSUME CatalogInv, v1' = Catalog!NoFile, v2' \in {v2, 0}, v5' = v5, v6' = v6, v7' = v7,
           CatalogOp'
  PROVE  CatalogInv' /\ CatalogMove
<1>1. v1'.fault = "absent" /\ v1' \in Catalog!Files BY CatalogFields
<1>2. ~Readable' BY <1>1 DEF Readable, Catalog!read
<1>3. 0 \in 0 .. MaxId BY PeersAssumption
<1> QED BY <1>1, <1>2, <1>3 DEF CatalogInv, CatalogMove, Readable, Catalog!read, Catalog!exists

\* Every step of the catalog keeps the invariant and is a move.
LEMMA CatalogSteps ==
  ASSUME CatalogInv, Catalog!Next
  PROVE  CatalogInv' /\ CatalogMove
<1> USE DEF Catalog!Local
<1>0. /\ v1 \in Catalog!Files /\ v2 \in 0 .. MaxId /\ v5 \in 0 .. MaxId /\ MaxId \in Nat
      /\ v6 \in {"none", "blank", "serves", "unserved"} /\ CatalogOp
  BY PeersAssumption DEF CatalogInv
<1>a. Catalog!Idle.pc = "idle" BY DEF Catalog!Idle
<1>b. Readable => v7 = v1.c /\ v1.fault = "none" /\ v1.c \in Catalog!Catalogs /\ v2 = v1.c.id
  BY <1>0, CatalogFields DEF CatalogInv, Readable, Catalog!read
<1>1. CASE \E k \in Callers : Catalog!Inspect(k)
  <2>1. v3' = v3 /\ v6' = v6 /\ CatalogStays BY <1>1 DEF Catalog!Inspect, CatalogStays
  <2>2. CatalogOp' BY <1>0, <2>1 DEF CatalogOp, CatalogJudged, CatalogStays
  <2> QED BY <1>0, <2>1, <2>2, CatalogRests
<1>2. CASE \E k \in Callers : Catalog!removeService(k)
  <2>1. /\ v6 \in {"none", "unserved"} /\ v1.fault \in {"none", "entry"} /\ v1.c.svc # "none"
        /\ v3'.pc = "publish" /\ v3'.next = Catalog!Forgotten(v1.c) /\ v3'.base = v1
        /\ CatalogStays /\ v6' = v6
    BY <1>0, <1>2 DEF Catalog!removeService, CatalogStays
  <2>2. v1.c \in Catalog!Catalogs /\ v2 = v1.c.id
    BY <1>0, <2>1, CatalogFields DEF CatalogInv, Catalog!exists
  <2>3. CatalogOp' BY <1>0, <2>1, <2>2, ForgottenKeeps DEF CatalogOp, CatalogJudged, CatalogStays
  <2> QED BY <1>0, <2>1, <2>3, CatalogRests
<1>3. CASE \E k \in Callers : Catalog!CoreRemoveService(k)
  <2>1. /\ v3.pc = "idle" /\ v1.fault \in {"none", "entry"} /\ v1.c.svc # "none"
        /\ v1' = Catalog!File(Catalog!Forgotten(v1.c)) /\ v2' = v2 /\ v3' = v3 /\ v5' = v5
                    /\ v6' = v6
        /\ v7' = IF Catalog!read(v1', v2') THEN v1'.c ELSE v7
    BY <1>0, <1>3, <1>a DEF Catalog!CoreRemoveService, Catalog!Witness
  <2>2. v1.c \in Catalog!Catalogs /\ v2 = v1.c.id
    BY <1>0, <2>1, CatalogFields DEF CatalogInv, Catalog!exists
  <2>3. PICK c \in Catalog!Catalogs : c = Catalog!Forgotten(v1.c) /\ Promise!Keeps(v1.c,
           c) BY <2>2, ForgottenKeeps
  <2>4. c.id = v1.c.id BY <2>3 DEF Promise!Keeps
  <2>5. v7' = c BY <2>1, <2>2, <2>3, <2>4, CatalogFields DEF Catalog!read
  <2>6. v7 = Catalog!NoCatalog \/ v7 = v1.c
    BY <2>1, <2>2 DEF CatalogInv, Catalog!read
  <2>z. CatalogOp' BY <2>1 DEF CatalogOp
  <2> QED BY <2>z, <2>1, <2>2, <2>3, <2>4, <2>5, <2>6, <1>b, CatalogWrites
<1>4. CASE \E k \in Callers, next \in Catalog!Catalogs : Catalog!Commit(k, next)
  <2>1. PICK k \in Callers, next \in Catalog!Catalogs : Catalog!Commit(k, next) BY <1>4
  <2>2. /\ v6 \in {"none", "unserved"} /\ Readable /\ next.id = v1.c.id
           /\ Catalog!assertPeerCatalogTransition(v1.c, next)
        /\ v3'.pc = "publish" /\ v3'.next = next /\ v3'.base = v1
        /\ CatalogStays /\ v6' = v6
    BY <1>0, <2>1 DEF Catalog!Commit, CatalogStays, Readable
  <2>3. CatalogOp' BY <1>0, <1>b, <2>2, TransitionKeeps DEF CatalogOp, CatalogJudged, CatalogStays
  <2> QED BY <1>0, <2>2, <2>3, CatalogRests
<1>5. CASE \E k \in Callers, next \in Catalog!Catalogs : Catalog!CoreCommit(k, next)
  <2>1. PICK k \in Callers, next \in Catalog!Catalogs : Catalog!CoreCommit(k, next) BY <1>5
  <2>2. /\ Readable /\ next.id = v1.c.id /\ Catalog!assertPeerCatalogTransition(v1.c, next)
        /\ v3.pc = "idle"
        /\ v1' = Catalog!File(next) /\ v2' = v2 /\ v3' = v3 /\ v5' = v5 /\ v6' = v6
        /\ v7' = IF Catalog!read(v1', v2') THEN v1'.c ELSE v7
    BY <1>a, <2>1 DEF Catalog!CoreCommit, Readable, Catalog!Witness
  <2>3. Promise!Keeps(v1.c, next) BY <1>b, <2>2, TransitionKeeps
  <2>4. v7' = next BY <1>b, <2>2, CatalogFields DEF Catalog!read
  <2>z. CatalogOp' BY <2>2 DEF CatalogOp
  <2> QED BY <2>z, <1>b, <2>2, <2>3, <2>4, CatalogWrites
<1>6. CASE Catalog!Create
  <2>1. /\ v6 \in {"none", "unserved"} /\ v2 = 0 /\ v1.fault = "absent" /\ v5 < MaxId /\ v2' = v2 /\ v6' = v6
        /\ v1' = Catalog!File(Catalog!Fresh(v5 + 1)) /\ v5' = v5 + 1
        /\ v3'.pc = "marker" /\ v3'.id = v5 + 1
        /\ v7' = IF Catalog!read(v1', v2') THEN v1'.c ELSE v7
    BY <1>0, <1>6 DEF Catalog!Create, Catalog!exists, Catalog!Witness
  <2>2. v5 + 1 \in 1 .. MaxId /\ v5 + 1 \in 0 .. MaxId /\ v5 + 1 # 0 BY <1>0, <2>1
  <2>3. /\ v1' \in Catalog!Files /\ v1'.fault = "none" /\ v1'.c.id = v5 + 1
           /\ v1'.c.svc = "none"
    BY <2>1, <2>2, FreshIsCatalog, CatalogFields
  <2>4. ~Readable /\ ~Readable' BY <2>1, <2>2, <2>3 DEF Readable, Catalog!read
  <2>5. v7' = v7 BY <2>1, <2>4 DEF Readable
  <2>6. CatalogOp' BY <2>1, <2>2 DEF CatalogOp
  <2> QED BY <2>1, <2>2, <2>3, <2>4, <2>5, <2>6 DEF CatalogInv, CatalogMove, Readable,
           Catalog!exists
<1>7. CASE Catalog!PublishMarker
  <2>1. /\ v3.pc = "marker" /\ v2' = v3.id /\ v3'.pc = "idle" /\ v1' = v1 /\ v5' = v5
           /\ v6' = v6
        /\ v7' = IF Catalog!read(v1', v2') THEN v1'.c ELSE v7
    BY <1>7, <1>a DEF Catalog!PublishMarker, Catalog!Witness
  <2>2. v3.id \in 1 .. MaxId /\ v1 = Catalog!File(Catalog!Fresh(v3.id)) /\ v2 = 0 BY <1>0,
           <2>1 DEF CatalogOp
  <2>3. v3.id \in 0 .. MaxId /\ v3.id # 0 BY <1>0, <2>2
  <2>4. v1.fault = "none" /\ v1.c.id = v3.id /\ v1.c = Catalog!Fresh(v3.id) BY <2>2,
           CatalogFields
  <2>5. ~Readable /\ Readable' /\ v7' = Catalog!Fresh(v3.id) BY <2>1, <2>2, <2>3, <2>4
           DEF Readable, Catalog!read
  <2>6. v7' \in Catalog!Catalogs BY <2>2, <2>5, FreshIsCatalog
  <2>7. CatalogOp' BY <2>1 DEF CatalogOp
  <2> QED BY <2>1, <2>2, <2>3, <2>4, <2>5, <2>6, <2>7 DEF CatalogInv, CatalogMove,
           Catalog!read, Catalog!exists
<1>8. CASE Catalog!Reset
  <2>1. /\ v1' = Catalog!NoFile /\ v3'.pc = "marker-aside" /\ v2' = v2 /\ v5' = v5 /\ v6' = v6
        /\ v7' = IF Catalog!read(v1', v2') THEN v1'.c ELSE v7
    BY <1>8 DEF Catalog!Reset, Catalog!Witness
  <2>2. v7' = v7 BY <2>1, CatalogFields DEF Catalog!read
  <2>3. CatalogOp' BY <2>1 DEF CatalogOp
  <2> QED BY <2>1, <2>2, <2>3, CatalogLoses
<1>9. CASE Catalog!MoveMarkerAside
  <2>1. /\ v3.pc = "marker-aside" /\ v3'.pc = "create" /\ v2' = 0 /\ v1' = v1 /\ v5' = v5
           /\ v6' = v6
        /\ v7' = IF Catalog!read(v1', v2') THEN v1'.c ELSE v7
    BY <1>9 DEF Catalog!MoveMarkerAside, Catalog!Witness
  <2>2. v1 = Catalog!NoFile BY <1>0, <2>1 DEF CatalogOp
  <2>3. v7' = v7 BY <2>1, <2>2, CatalogFields DEF Catalog!read
  <2>4. CatalogOp' BY <2>1, <2>2 DEF CatalogOp
  <2> QED BY <2>1, <2>2, <2>3, <2>4, CatalogLoses
<1>10. CASE Catalog!replaceFile
  <2>1. /\ v3.pc = "publish" /\ v1' = Catalog!File(v3.next) /\ v3'.pc = "idle" /\ v2' = v2
           /\ v5' = v5 /\ v6' = v6
        /\ v7' = IF Catalog!read(v1', v2') THEN v1'.c ELSE v7
    BY <1>10, <1>a DEF Catalog!replaceFile, Catalog!Witness
  <2>2. CatalogJudged(v1) BY <1>0, <2>1 DEF CatalogOp
  <2>3. CASE v1 # v3.base BY <2>1, <2>2, <2>3, CatalogOvertakes
  <2>4. CASE v1 = v3.base
    <3>1. PICK c \in Catalog!Catalogs : c = v3.next /\ Promise!Keeps(v1.c, c)
             /\ v2 = v1.c.id /\ v1.fault \in {"none", "entry"}
      BY <2>2, <2>4 DEF CatalogJudged
    <3>2. c.id = v1.c.id BY <3>1 DEF Promise!Keeps
    <3>3. v7' = c BY <2>1, <3>1, <3>2, CatalogFields DEF Catalog!read
    <3>4. v7 = Catalog!NoCatalog \/ v7 = v1.c BY <3>1 DEF CatalogInv, Catalog!read
    <3>z. CatalogOp' BY <2>1 DEF CatalogOp
    <3> QED BY <3>z, <1>b, <2>1, <3>1, <3>2, <3>3, <3>4, CatalogWrites
  <2> QED BY <2>3, <2>4
<1>11. CASE Catalog!Backup
  <2>1. /\ v3.pc = "publish" /\ v1' = Catalog!NoFile /\ v2' = v2 /\ v5' = v5 /\ v6' = v6
        /\ v3'.pc = "swap" /\ v3'.next = v3.next /\ v3'.base = v3.base /\ v3'.backup = v1
        /\ v7' = IF Catalog!read(v1', v2') THEN v1'.c ELSE v7
    BY <1>11 DEF Catalog!Backup, Catalog!Witness
  <2>2. CatalogJudged(v1) BY <1>0, <2>1 DEF CatalogOp
  <2>3. v7' = v7 BY <2>1, CatalogFields DEF Catalog!read
  <2>4. v7 = IF v1.fault = "none" THEN v1.c ELSE Catalog!NoCatalog BY <2>2 DEF CatalogInv,
           CatalogJudged, Catalog!read
  <2>5. CatalogJudged(v3.backup)' BY <2>1, <2>2 DEF CatalogJudged
  <2>6. CatalogOp' BY <2>1, <2>3, <2>4, <2>5 DEF CatalogOp
  <2> QED BY <2>1, <2>3, <2>6, CatalogLoses
<1>12. CASE Catalog!Swap
  <2>1. /\ v3.pc = "swap" /\ v3'.pc = "idle" /\ v2' = v2 /\ v5' = v5 /\ v6' = v6
        /\ v1' = Catalog!File(v3.next) \/ v1' = v3.backup \/ v1' = Catalog!NoFile
        /\ v7' = IF Catalog!read(v1', v2') THEN v1'.c ELSE v7
    BY <1>12, <1>a DEF Catalog!Swap, Catalog!Witness
  <2>a. CatalogJudged(v3.backup) BY <1>0, <2>1 DEF CatalogOp
  <2>2. PICK c \in Catalog!Catalogs, b \in Catalog!Files :
          /\ c = v3.next /\ b = v3.backup /\ c.id = v2 /\ v2 = b.c.id
                      /\ b.fault \in {"none", "entry"}
          /\ v7 = IF b.fault = "none" THEN b.c ELSE Catalog!NoCatalog
    BY <1>0, <2>1, <2>a DEF CatalogOp, CatalogJudged, Promise!Keeps
  <2>3. v1 = Catalog!NoFile BY <1>0, <2>1 DEF CatalogOp
  <2>4. ~Readable BY <2>3, CatalogFields DEF Readable, Catalog!read
  <2>5. b.c \in Catalog!Catalogs /\ c.id = b.c.id BY <2>2, CatalogFields
  <2>6. CatalogOp' BY <2>1 DEF CatalogOp
  <2>7. CASE v1' = Catalog!File(v3.next)
    <3>1. v7' = c BY <2>1, <2>2, <2>5, <2>7, CatalogFields DEF Catalog!read
    <3>2. CASE v3.backup # v3.base BY <2>1, <2>a, <2>7, <3>2, CatalogOvertakes
    <3>3. CASE v3.backup = v3.base
      <4>1. Promise!Keeps(b.c, c) BY <2>2, <2>a, <3>3 DEF CatalogJudged
      <4>z. CatalogOp' BY <2>1 DEF CatalogOp
      <4> QED BY <4>z, <2>1, <2>2, <2>4, <2>5, <2>7, <3>1, <4>1, CatalogWrites
    <3> QED BY <3>2, <3>3
  <2>8. CASE v1' = v3.backup
    <3>1. b.c.id # 0 /\ b.c # Catalog!NoCatalog BY <2>5, CatalogFields
    <3>2. v1' = b BY <2>2, <2>8
    <3>3. v7' = v7 BY <2>1, <2>2, <3>2 DEF Catalog!read
    <3>4. Readable' <=> b.fault = "none" BY <2>1, <2>2, <3>2 DEF Readable, Catalog!read
    <3>5. CatalogMove BY <2>2, <2>4, <2>5, <3>3, <3>4, KeepsItself DEF CatalogMove
    <3> QED BY <1>0, <2>1, <2>2, <2>6, <3>1, <3>2, <3>3, <3>5 DEF CatalogInv, Catalog!read,
             Catalog!exists
  <2>9. CASE v1' = Catalog!NoFile
    <3>1. v7' = v7 BY <2>1, <2>9, CatalogFields DEF Catalog!read
    <3> QED BY <2>1, <2>6, <2>9, <3>1, CatalogLoses
  <2> QED BY <2>1, <2>7, <2>8, <2>9
<1>13. CASE Catalog!WriteFails \/ Catalog!Crash
  <2>1. v3'.pc = "idle" /\ CatalogStays /\ v6' \in {v6, "serves"}
    BY <1>0, <1>13, <1>a DEF Catalog!WriteFails, Catalog!Crash, CatalogStays
  <2>2. CatalogOp' BY <2>1 DEF CatalogOp
  <2> QED BY <1>0, <2>1, <2>2, CatalogRests
<1>14. CASE Catalog!CoreEnable
  <2>1. /\ v2 = 0 /\ v1.fault = "absent" /\ v5 < MaxId /\ v6' = v6 /\ v2' = v5 + 1
        /\ v1' = Catalog!File(Catalog!Fresh(v5 + 1)) /\ v5' = v5 + 1 /\ v3'.pc = "idle"
        /\ v7' = IF Catalog!read(v1', v2') THEN v1'.c ELSE v7
    BY <1>0, <1>14, <1>a DEF Catalog!CoreEnable, Catalog!exists, Catalog!Witness
  <2>2. v5 + 1 \in 1 .. MaxId /\ v5 + 1 \in 0 .. MaxId /\ v5 + 1 # 0 BY <1>0, <2>1
  <2>3. /\ v1' \in Catalog!Files /\ v1'.fault = "none" /\ v1'.c = Catalog!Fresh(v5 + 1)
           /\ v1'.c.id = v5 + 1
    BY <2>1, <2>2, FreshIsCatalog, CatalogFields
  <2>4. ~Readable /\ Readable' /\ v7' = Catalog!Fresh(v5 + 1) BY <2>1, <2>3 DEF Readable,
           Catalog!read
  <2>5. v7' \in Catalog!Catalogs BY <2>2, <2>4, FreshIsCatalog
  <2>6. CatalogOp' BY <2>1 DEF CatalogOp
  <2> QED BY <2>1, <2>2, <2>3, <2>4, <2>5, <2>6 DEF CatalogInv, CatalogMove, Catalog!read,
           Catalog!exists
<1>15. CASE Catalog!CoreRevokes
  <2>1. /\ v6 \in {"serves", "unserved"} /\ Readable /\ v1.c.pair = "active" /\ ~v1.c.forgot
        /\ v1' = Catalog!File([v1.c EXCEPT !.pair = "revoked"]) /\ v2' = v2 /\ v3' = v3
                    /\ v5' = v5 /\ v6' = v6
        /\ v7' = IF Catalog!read(v1', v2') THEN v1'.c ELSE v7
    BY <1>0, <1>15 DEF Catalog!CoreRevokes, Readable, Catalog!Witness
  <2>2. PICK c \in Catalog!Catalogs : c = [v1.c EXCEPT !.pair = "revoked"]
           /\ Promise!Keeps(v1.c, c)
    BY <1>b, <2>1, RevokedKeeps
  <2>3. c.id = v1.c.id BY <2>2 DEF Promise!Keeps
  <2>4. v7' = c BY <1>b, <2>1, <2>2, <2>3, CatalogFields DEF Catalog!read
  <2>5. CatalogOp'
    <3>1. v3.pc = "idle" \/ (v3.pc = "publish" /\ CatalogJudged(v1))
      BY <1>0, <1>b, <2>1, CatalogFields DEF CatalogOp, Readable, Catalog!read
    <3>2. v1' \in Catalog!Files /\ v1'.fault = "none" /\ v1'.c.id = v2
      BY <1>b, <2>1, <2>2, <2>3, CatalogFields
    <3>3. CASE v3.pc = "publish" /\ CatalogJudged(v1)
      <4>1. CatalogJudged(v1)' BY <2>1, <3>2, <3>3 DEF CatalogJudged
      <4> QED BY <2>1, <3>3, <4>1 DEF CatalogOp
    <3> QED BY <2>1, <3>1, <3>3 DEF CatalogOp
  <2> QED BY <1>b, <2>1, <2>2, <2>3, <2>4, <2>5, CatalogWrites
<1>16. CASE Catalog!onCoreUnserved
  <2>1. v3.pc = "idle" /\ v3' = v3 /\ v6' \in {"none", "unserved"} /\ CatalogStays BY <1>16, <1>a
           DEF Catalog!onCoreUnserved, CatalogStays
  <2>2. CatalogOp' BY <2>1 DEF CatalogOp
  <2> QED BY <2>1, <2>2, CatalogRests
<1> QED BY <1>1, <1>2, <1>3, <1>4, <1>5, <1>6, <1>7, <1>8, <1>9, <1>10, <1>11, <1>12, <1>13,
         <1>14, <1>15, <1>16 DEF Catalog!Next

\* The invariant, in the behaviours that are about the catalog.
CatalogPart == part = "catalog" => CatalogInv

\* Every step of the run keeps it, and is a step of the promise or leaves it
\* alone.
LEMMA CatalogPartHolds ==
  ASSUME CatalogPart, Next
  PROVE  CatalogPart' /\ [Promised]_Promise!vars
<1>1. CASE CatalogStep
  <2>1. part = "catalog" /\ part' = part /\ Catalog!Next /\ CatalogInv BY <1>1
           DEF CatalogStep, CatalogPart
  <2>2. CatalogInv' /\ CatalogMove BY <2>1, CatalogSteps
  <2> QED BY <2>1, <2>2, MoveIsPromised DEF CatalogPart
<1>2. CASE ~CatalogStep
  <2>1. part' = part /\ part # "catalog"
    BY <1>2 DEF Next, ConnectionsStep, OperationsStep, RuntimeStep, ServiceEditsStep,
             CallsStep, CatalogStep,
       EnrollmentStep, LoginStep
  <2> QED BY <2>1 DEF CatalogPart, Promise!vars
<1> QED BY <1>1, <1>2

\* It holds at the start, where the promise starts.
LEMMA CatalogPartStarts ==
  ASSUME Init
  PROVE  CatalogPart /\ Promise!Init
<1>1. CASE CatalogInit
  <2>1. part = "catalog" /\ Catalog!Init BY <1>1 DEF CatalogInit
  <2>2. CatalogInv BY <2>1, CatalogStarts
  <2>3. v7 = IF Readable THEN v1.c ELSE Catalog!NoCatalog BY <2>1 DEF Catalog!Init, Readable
  <2>4. Readable => v1.c \in Catalog!Catalogs
    BY <2>2, CatalogFields DEF CatalogInv, Readable, Catalog!read
  <2> QED BY <2>1, <2>2, <2>3, <2>4, SameCatalogs DEF CatalogPart, Promise!Init, Readable
<1>2. CASE ~CatalogInit
  <2>1. part # "catalog"
    BY <1>2 DEF Init, ConnectionsInit, OperationsInit, RuntimeInit, ServiceEditsInit,
             CallsInit, CatalogInit,
       EnrollmentInit, LoginInit
  <2> QED BY <2>1, SameCatalogs DEF CatalogPart, Promise!Init
<1> QED BY <1>1, <1>2

\* The catalog's files implement DeviceCatalog, for any number of callers,
\* identities and revisions, but for one kind of step: through two-step
\* publications, stale snapshots, crashes, a core that takes the catalog over
\* and one that is no longer asked after a failed read, a readable catalog never
\* loses a forgotten service or a revocation, unless the process publishes over
\* what the core it no longer asks has changed since the record was read; then
\* it still keeps what that record said (catalog.ts #onCore, #commitLocal).
THEOREM PromiseKeptUnlessOvertakenHolds == Spec => PromiseKeptUnlessOvertaken
<1>1. Init => CatalogPart /\ Promise!Init BY CatalogPartStarts
<1>2. CatalogPart /\ [Next]_vars => CatalogPart' /\ [Promised]_Promise!vars
  <2>1. CASE Next BY <2>1, CatalogPartHolds
  <2>2. CASE UNCHANGED vars
    <3>1. UNCHANGED <<part, v1, v2, v3, v5, v6, v7>> BY <2>2 DEF vars
    <3> QED BY <3>1 DEF CatalogPart, CatalogInv, CatalogOp, CatalogJudged, Promise!vars,
             Catalog!read, Catalog!exists
  <2> QED BY <2>1, <2>2
<1> QED BY <1>1, <1>2, PTL DEF Spec, PromiseKeptUnlessOvertaken, Promised

-----------------------------------------------------------------------------
(* Editing and activating services. *)

\* Services. saved v1, forgotten v2, ver v3, core v4, active v5, edit v6, act v7, closed v8.
Edits == [pc : {"read", "configure", "commit"}, kind : {"add", "update"}, ep : Endpoints,
         ver : Nat, forgot : BOOLEAN]

\* What an edit and an activation have read is still so when they act on it,
\* unless the version moved or the service was forgotten in between.
ServicesInv ==
  /\ v2 \in BOOLEAN /\ v8 \in BOOLEAN /\ v3 \in Nat
  /\ v1 \in Endpoints \cup {"none"}
  /\ v6 = ServiceEdits!Idle \/ (v6 \in Edits /\ v6.ver <= v3)
  /\ v7 \in {ServiceEdits!Idle, [pc |-> "read"]} \cup [pc : {"configure", "again"},
              ep : Endpoints]
  /\ v6.pc = "configure" /\ v6.ver = v3 => v6.forgot = v2
  /\ v6.pc = "commit" /\ v6.ver = v3 /\ ~v8 => v4 = v6.ep /\ ~v2
  /\ v7.pc = "again" /\ ~v2 /\ ~v8 => v4 = v7.ep
  /\ ServiceEdits!ActiveIsSaved

\* It holds at the start.
LEMMA ServicesStart == ASSUME ServiceEdits!Init PROVE ServicesInv
BY DEF ServiceEdits!Init, ServicesInv, ServiceEdits!Idle, ServiceEdits!ActiveIsSaved

\* Every step of the service edits keeps it.
LEMMA ServicesStep ==
  ASSUME ServicesInv, ServiceEdits!Next
  PROVE  ServicesInv'
<1> USE PeersAssumption DEF ServicesInv, ServiceEdits!ActiveIsSaved, Edits, ServiceEdits!Idle
<1>1. ASSUME NEW kind \in {"add", "update"}, NEW ep \in Endpoints, NEW v \in 0 .. v3,
         ServiceEdits!Begin(kind, ep, v)
      PROVE  ServicesInv'
  BY <1>1 DEF ServiceEdits!Begin
<1>2. CASE ServiceEdits!EditRead
  <2>1. v6 \in Edits /\ v6.ver <= v3 BY <1>2 DEF ServiceEdits!EditRead
  <2>2. CASE v6' = ServiceEdits!Idle BY <1>2, <2>2 DEF ServiceEdits!EditRead
  <2>3. CASE v6' = [v6 EXCEPT !.pc = "configure", !.forgot = v2]
    <3>1. v6' \in Edits /\ v6'.pc = "configure" /\ v6'.ver = v6.ver
             /\ v6'.forgot = v2 BY <2>1, <2>3
    <3> QED BY <1>2, <2>1, <3>1 DEF ServiceEdits!EditRead
  <2> QED BY <1>2, <2>2, <2>3 DEF ServiceEdits!EditRead
<1>3. CASE ServiceEdits!EditConfigured
  <2>1. v6 \in Edits /\ v6.ver <= v3 BY <1>3 DEF ServiceEdits!EditConfigured
  <2>2. \/ v6' = ServiceEdits!Idle
        \/ v6' \in Edits /\ v6'.pc = "commit" /\ v6'.ver = v6.ver /\ v6'.ep = v6.ep
                    /\ v4' = v6.ep /\ ~v6.forgot
    BY <1>3, <2>1 DEF ServiceEdits!EditConfigured
  <2>3. v4' = v4 \/ (v4' = v6.ep /\ v4 \in {"none", v6.ep}) BY <1>3
           DEF ServiceEdits!EditConfigured, ServiceEdits!configures
  <2>4. v6.pc = "configure" /\ UNCHANGED <<v1, v2, v3, v5, v7, v8>> BY <1>3
           DEF ServiceEdits!EditConfigured
  <2> QED BY <2>1, <2>2, <2>3, <2>4
<1>4. CASE ServiceEdits!EditCommitted
  <2>1. v6 \in Edits /\ v6.ver <= v3 BY <1>4 DEF ServiceEdits!EditCommitted
  <2> QED BY <1>4, <2>1 DEF ServiceEdits!EditCommitted
<1>5. CASE ServiceEdits!activate BY <1>5 DEF ServiceEdits!activate
<1>6. CASE ServiceEdits!ActivateRead BY <1>6 DEF ServiceEdits!ActivateRead,
         ServiceEdits!requireSaved
<1>7. CASE ServiceEdits!ActivateConfigured
  <2>0. v7 \in [pc : {"configure", "again"}, ep : Endpoints] BY <1>7
           DEF ServiceEdits!ActivateConfigured
  <2>1. \/ v7' = ServiceEdits!Idle
        \/ /\ v7' \in [pc : {"configure", "again"}, ep : Endpoints]
           /\ v7'.pc = "again" /\ v4' = v7.ep /\ v7'.ep = v7.ep
    BY <1>7, <2>0 DEF ServiceEdits!ActivateConfigured
  <2>2. v4' = v4 \/ (v4' = v7.ep /\ v4 \in {"none", v7.ep}) BY <1>7
           DEF ServiceEdits!ActivateConfigured, ServiceEdits!configures
  <2>3. v7.pc = "configure" /\ UNCHANGED <<v1, v2, v3, v5, v6, v8>> BY <1>7
           DEF ServiceEdits!ActivateConfigured
  <2>4. (v6.pc = "commit" /\ v6.ver = v3 /\ ~v8 => v4 = v6.ep /\ ~v2)' BY <2>0, <2>2, <2>3
  <2>5. (v7.pc = "again" /\ ~v2 /\ ~v8 => v4 = v7.ep)' BY <2>1
  <2>6. ServiceEdits!ActiveIsSaved' BY <2>0, <2>2, <2>3
  <2> QED BY <2>1, <2>3, <2>4, <2>5, <2>6
<1>8. CASE ServiceEdits!ActivateAgain BY <1>8 DEF ServiceEdits!ActivateAgain,
         ServiceEdits!requireSaved
<1>9. CASE ServiceEdits!forget
  <2>1. v6 \in Edits => v6.ver # v3 + 1 /\ v6.ver <= v3 + 1 OBVIOUS
  <2>2. v6 = ServiceEdits!Idle => v6.pc = "idle" OBVIOUS
  <2>3. /\ v3' = v3 + 1 /\ v2' /\ v1' = "none" /\ v5' = "none" /\ UNCHANGED <<v6, v7, v8>>
    BY <1>9 DEF ServiceEdits!forget
  <2>4. v2' \in BOOLEAN BY <1>9 DEF ServiceEdits!forget
  <2>5. (v6.pc = "configure" /\ v6.ver = v3 => v6.forgot = v2)' BY <2>1, <2>2, <2>3
  <2>6. (v6.pc = "commit" /\ v6.ver = v3 /\ ~v8 => v4 = v6.ep /\ ~v2)' BY <2>1, <2>2, <2>3
  <2>7. (v6 = ServiceEdits!Idle \/ (v6 \in Edits /\ v6.ver <= v3))' BY <2>1, <2>3
  <2>8. (v3 \in Nat /\ v1 \in Endpoints \cup {"none"} /\ v8 \in BOOLEAN)' BY <2>3
  <2>9. ServiceEdits!ActiveIsSaved' BY <2>3
  <2>10. (v7.pc = "again" /\ ~v2 /\ ~v8 => v4 = v7.ep)' BY <2>3
  <2>11. (v7 \in {ServiceEdits!Idle, [pc |-> "read"]} \cup [pc : {"configure", "again"},
           ep : Endpoints])' BY <2>3
  <2> HIDE DEF Edits, ServiceEdits!ActiveIsSaved, ServiceEdits!Idle
  <2> QED BY <2>4, <2>5, <2>6, <2>7, <2>8, <2>9, <2>10, <2>11
<1>10. CASE ServiceEdits!OtherEdit BY <1>10 DEF ServiceEdits!OtherEdit
<1>11. CASE ServiceEdits!Close BY <1>11 DEF ServiceEdits!Close
<1> QED BY <1>1, <1>2, <1>3, <1>4, <1>5, <1>6, <1>7, <1>8, <1>9, <1>10, <1>11
         DEF ServiceEdits!Next

-----------------------------------------------------------------------------
(* Management requests and their calls. *)

\* scope v1, retired v2, doc v3, req v4, runs v5, next v6, pending v7, effect v8, up v9
Requests == [pc : {"none", "running", "finishing", "answered"}, call : 0 .. MaxCalls,
         aborted : BOOLEAN,
             got : {"none", "applied", "refused"},
             answer : {"none", "applied", "refused", "unconfirmed", "timeout", "unavailable"}]

\* Whether the request says the truth about its call.
Truthful(r) ==
  /\ r.pc \in {"none", "running", "finishing"} => r.answer = "none"
  /\ r.pc \in {"running", "finishing"} => r.call # 0
  /\ r.pc = "finishing" => r.got # "none" /\ r.got = v8[r.call]
  /\ r.answer = "applied" => r.call # 0 /\ v8[r.call] = "applied"
  /\ r.answer = "refused" /\ r.call # 0 => v8[r.call] = "refused"

\* Every request says the truth about its call, and an id that ran is
\* remembered or has fallen out of the replay window.
CallsInv ==
  /\ v1.high \in Nat
  /\ v6 \in 0 .. MaxCalls /\ v8 \in [1 .. MaxCalls -> {"none", "applied", "refused"}]
  /\ v4 \in [Ids -> Requests] /\ \A i \in Ids : Truthful(v4[i])
  /\ v5 \in [Ids -> {0, 1}]
  /\ \A i \in Ids : v5[i] = 1 => i \in v1.seen \/ i + REPLAY_WINDOW <= v1.high

\* From which both properties follow.
LEMMA CallsImply == ASSUME CallsInv PROVE Calls!RunsOnce /\ Calls!AnswerIsItsOwn
BY DEF CallsInv, Truthful, Calls!RunsOnce, Calls!AnswerIsItsOwn

\* A request that was never made says nothing.
LEMMA FreshRequest == Calls!Fresh \in Requests /\ Truthful(Calls!Fresh)
         /\ Truthful(Calls!Fresh)'
BY PeersAssumption DEF Calls!Fresh, Requests, Truthful

\* It holds at the start.
LEMMA CallsStart == ASSUME Calls!Init PROVE CallsInv
<1>1. v1.high = 0 /\ v6 = 0 /\ v8 = [c \in 1 .. MaxCalls |-> "none"]
         /\ v4 = [i \in Ids |-> Calls!Fresh]
      /\ v5 = [i \in Ids |-> 0]
  BY DEF Calls!Init, Calls!NewScope
<1>2. 0 \in 0 .. MaxCalls BY PeersAssumption
<1> QED BY <1>1, <1>2, FreshRequest DEF CallsInv

\* The requests may change only into truthful ones.
LEMMA CallsKept ==
  ASSUME CallsInv, UNCHANGED <<v1, v5, v6, v8>>, v4' \in [Ids -> Requests],
           \A i \in Ids : Truthful(v4'[i])
  PROVE  CallsInv'
BY DEF CallsInv, Truthful

\* It is enough to look at the request a step changes.
LEMMA OneRequest ==
  ASSUME CallsInv, UNCHANGED <<v1, v5, v6, v8>>, NEW i \in Ids, NEW r \in Requests,
           Truthful(r), v4' = [v4 EXCEPT ![i] = r]
  PROVE  CallsInv'
<1>1. v4' \in [Ids -> Requests] BY DEF CallsInv
<1>2. \A j \in Ids : Truthful(v4'[j]) BY DEF CallsInv
<1> QED BY <1>1, <1>2, CallsKept

\* An answer says the truth when the call has ended, and "unconfirmed" always
\* does.
LEMMA AnsweredRequest ==
  ASSUME CallsInv, NEW i \in Ids, NEW a \in {"applied", "refused", "timeout", "unavailable"},
         v4[i].pc \in {"running", "finishing"}, a \in {"applied",
                  "refused"} => v4[i].pc = "finishing" /\ a = v4[i].got
  PROVE  Calls!Answer(i, a) \in Requests /\ Truthful(Calls!Answer(i, a))
<1> DEFINE r == Calls!Answer(i, a)
<1>1. v4[i] \in Requests /\ Truthful(v4[i]) BY DEF CallsInv
<1>2. r \in Requests /\ r.pc = "answered" /\ r.call = v4[i].call
         /\ r.answer \in {"unconfirmed", a}
  BY <1>1 DEF Calls!Answer, Requests
<1> HIDE DEF r
<1>3. Truthful(r) BY <1>1, <1>2 DEF Truthful
<1> QED BY <1>2, <1>3 DEF r

\* Aborting a request keeps it truthful.
LEMMA AbortedRequest ==
  ASSUME CallsInv, NEW i \in Ids
  PROVE  Calls!Aborted(i) \in Requests /\ Truthful(Calls!Aborted(i))
<1> DEFINE r == Calls!Aborted(i)
<1>1. v4[i] \in Requests /\ Truthful(v4[i]) BY DEF CallsInv
<1>2. r \in Requests /\ r.call = v4[i].call /\ r.got = v4[i].got
      /\ ((r.pc = v4[i].pc /\ r.answer = v4[i].answer) \/ (r.pc = "answered"
                  /\ r.answer = "unconfirmed"))
  BY <1>1 DEF Calls!Aborted, Requests
<1> HIDE DEF r
<1>3. Truthful(r) BY <1>1, <1>2 DEF Truthful
<1> QED BY <1>2, <1>3 DEF r

\* Admitting an id drops only ids that the window no longer admits.
LEMMA ScopeForgetsNothing ==
  ASSUME CallsInv, NEW id \in Ids, v1' = Calls!admitted(id)
  PROVE  /\ v1'.high \in Nat
         /\ \A i \in Ids : (i \in v1.seen \/ i + REPLAY_WINDOW <= v1.high \/ i = id)
              => i \in v1'.seen \/ i + REPLAY_WINDOW <= v1'.high
<1>1. id \in Nat /\ v1.high \in Nat /\ REPLAY_WINDOW \in Nat
         /\ Ids \subseteq Nat BY PeersAssumption DEF CallsInv
<1>2. PICK high : high = IF id > v1.high THEN id ELSE v1.high OBVIOUS
<1>3. high \in Nat /\ high >= v1.high /\ high >= id BY <1>1, <1>2
<1>4. v1' = [high |-> high, seen |-> {i \in v1.seen \cup {id} : i + REPLAY_WINDOW > high}]
  BY <1>2 DEF Calls!admitted
<1>5. v1'.high = high /\ v1'.seen = {i \in v1.seen \cup {id} : i + REPLAY_WINDOW > high} BY <1>4
<1>6. ASSUME NEW i \in Ids, i \in v1.seen \/ i + REPLAY_WINDOW <= v1.high \/ i = id
      PROVE  i \in v1'.seen \/ i + REPLAY_WINDOW <= v1'.high
  <2>1. i + REPLAY_WINDOW > high \/ i + REPLAY_WINDOW <= high BY <1>1, <1>3
  <2>2. i + REPLAY_WINDOW <= v1.high => i + REPLAY_WINDOW <= high BY <1>1, <1>3
  <2> QED BY <1>5, <1>6, <2>1, <2>2
<1> QED BY <1>3, <1>5, <1>6

\* Every step of the requests keeps the invariant.
LEMMA CallsSteps ==
  ASSUME CallsInv, Calls!Next
  PROVE  CallsInv'
<1>0. /\ v8 \in [1 .. MaxCalls -> {"none", "applied", "refused"}]
         /\ v4 \in [Ids -> Requests] /\ MaxCalls \in Nat
      /\ v6 \in 0 .. MaxCalls /\ v5 \in [Ids -> {0, 1}]
      /\ \A i \in Ids : Truthful(v4[i]) /\ v4[i] \in Requests
  BY PeersAssumption DEF CallsInv
<1>1. ASSUME NEW id \in Ids, Calls!run(id) PROVE CallsInv'
  <2>1. v1' = Calls!admitted(id) /\ Calls!admits(id) /\ v8' = v8 BY <1>1 DEF Calls!run
  <2>2. CASE UNCHANGED <<v4, v5, v6, v7>>
    BY <2>1, <2>2, ScopeForgetsNothing DEF CallsInv, Truthful
  <2>3. CASE v5' = [v5 EXCEPT ![id] = @ + 1]
    <3>1. id \notin v1.seen /\ ~(id + REPLAY_WINDOW <= v1.high)
      BY <2>1, PeersAssumption DEF Calls!admits, CallsInv
    <3>2. v5[id] = 0 BY <1>0, <3>1 DEF CallsInv
    <3>3. v5' \in [Ids -> {0, 1}] /\ \A i \in Ids : v5'[i] = 1 => v5[i] = 1
             \/ i = id BY <1>0, <2>3, <3>2
    <3>4. \E r \in Requests : v4' = [v4 EXCEPT ![id] = r] /\ Truthful(r)
             /\ v6' \in 0 .. MaxCalls
      <4>1. CASE v6 < MaxCalls /\ v6' = v6 + 1
               /\ v4' = [v4 EXCEPT ![id] = [Calls!Fresh EXCEPT !.pc = "running",
                           !.call = v6 + 1]]
        <5>1. v6 + 1 \in 0 .. MaxCalls /\ v6 + 1 # 0 BY <1>0, <4>1
        <5>2. [Calls!Fresh EXCEPT !.pc = "running", !.call = v6 + 1] \in Requests
          BY <5>1 DEF Requests, Calls!Fresh
        <5>3. Truthful([Calls!Fresh EXCEPT !.pc = "running", !.call = v6 + 1])
          BY <5>1 DEF Truthful, Calls!Fresh
        <5> QED BY <4>1, <5>1, <5>2, <5>3
      <4>2. CASE v6' = v6 /\ v4' = [v4 EXCEPT ![id] = [Calls!Fresh EXCEPT !.pc = "answered",
               !.answer = "refused"]]
        <5>1. 0 \in 0 .. MaxCalls BY <1>0
        <5>2. [Calls!Fresh EXCEPT !.pc = "answered", !.answer = "refused"] \in Requests
          BY <5>1 DEF Requests, Calls!Fresh
        <5>3. Truthful([Calls!Fresh EXCEPT !.pc = "answered", !.answer = "refused"])
          BY DEF Truthful, Calls!Fresh
        <5> QED BY <1>0, <4>2, <5>2, <5>3
      <4> QED
        <5>1. ~(UNCHANGED v5) BY <1>0, <2>3, <3>2
        <5> QED BY <1>1, <4>1, <4>2, <5>1 DEF Calls!run
    <3>5. v4' \in [Ids -> Requests] /\ \A i \in Ids : Truthful(v4'[i]) BY <1>0, <3>4
    <3>6. \A i \in Ids : Truthful(v4[i])' BY <2>1, <3>5 DEF Truthful
    <3>7. v1'.high \in Nat /\ \A i \in Ids : v5'[i] = 1 => i \in v1'.seen
             \/ i + REPLAY_WINDOW <= v1'.high
      BY <2>1, <3>3, ScopeForgetsNothing DEF CallsInv
    <3> QED BY <1>0, <2>1, <3>3, <3>4, <3>5, <3>6, <3>7 DEF CallsInv
  <2> QED BY <1>1, <2>2, <2>3 DEF Calls!run
<1>2. ASSUME NEW i \in Ids, Calls!Finish(i) PROVE CallsInv'
  <2>1. v4[i].pc = "finishing" /\ v4' = [v4 EXCEPT ![i] = Calls!Answer(i, v4[i].got)]
           /\ UNCHANGED <<v1, v5, v6, v8>>
    BY <1>2 DEF Calls!Finish
  <2>2. v4[i].got \in {"applied", "refused"} BY <1>0, <2>1 DEF Truthful, Requests
  <2> QED BY <2>1, <2>2, AnsweredRequest, OneRequest
<1>3. ASSUME NEW i \in Ids, Calls!TimesOut(i) PROVE CallsInv'
  BY <1>3, AbortedRequest, OneRequest DEF Calls!TimesOut, Calls!Abort
<1>4. ASSUME NEW i \in Ids, Calls!CallTimesOut(i) PROVE CallsInv'
  BY <1>4, AnsweredRequest, OneRequest DEF Calls!CallTimesOut
<1>5. ASSUME NEW id \in Ids, NEW t \in Ids, Calls!cancel(id, t) PROVE CallsInv'
  <2>1. v1' = Calls!admitted(id) /\ v4' = [v4 EXCEPT ![t] = Calls!Aborted(t)]
           /\ UNCHANGED <<v5, v6, v8>>
    BY <1>0, <1>5 DEF Calls!cancel, Calls!Abort, Calls!Aborted
  <2>2. v4' \in [Ids -> Requests] /\ \A i \in Ids : Truthful(v4'[i]) BY <1>0, <2>1,
           AbortedRequest
  <2>3. \A i \in Ids : Truthful(v4[i])' BY <2>1, <2>2 DEF Truthful
  <2> QED BY <1>0, <2>1, <2>2, <2>3, ScopeForgetsNothing DEF CallsInv
<1>6. ASSUME NEW c \in 1 .. MaxCalls, Calls!dispatch(c) PROVE CallsInv'
  <2>1. PICK i \in Ids : /\ v4[i].pc \in {"running", "finishing"} /\ v4[i].call = c
                         /\ v4' = [v4 EXCEPT ![i].pc = "finishing", ![i].got = v8[c]]
    BY <1>6 DEF Calls!dispatch, Calls!Running
  <2>2. UNCHANGED <<v1, v5, v6, v8>> /\ v8[c] # "none" BY <1>6 DEF Calls!dispatch
  <2> DEFINE r == [v4[i] EXCEPT !.pc = "finishing", !.got = v8[c]]
  <2>3. v8[c] \in {"applied", "refused"} BY <1>0, <2>2
  <2>4. v4' = [v4 EXCEPT ![i] = r] BY <1>0, <2>1
  <2>5. r \in Requests /\ r.pc = "finishing" /\ r.call = c /\ r.got = v8[c]
           /\ r.answer = v4[i].answer
    BY <1>0, <2>1, <2>3 DEF Requests
  <2>6. v4[i].answer = "none" /\ c # 0 BY <1>0, <2>1 DEF Truthful
  <2>7. Truthful(r) BY <2>2, <2>5, <2>6 DEF Truthful
  <2> QED BY <2>2, <2>4, <2>5, <2>7, OneRequest
<1>7. ASSUME NEW c \in 1 .. MaxCalls, NEW h \in {"applied", "refused"}, Calls!CoreExecutes(c,
         h) PROVE CallsInv'
  <2>1. v8[c] = "none" /\ v8' = [v8 EXCEPT ![c] = h] /\ UNCHANGED <<v1, v4, v5,
           v6>> BY <1>7 DEF Calls!CoreExecutes
  <2>2. v8' \in [1 .. MaxCalls -> {"none", "applied", "refused"}] BY <1>0, <2>1
  <2>3. ASSUME NEW d \in 1 .. MaxCalls, v8[d] # "none" PROVE v8'[d] = v8[d] BY <1>0, <2>1, <2>3
  <2>4. ASSUME NEW i \in Ids PROVE Truthful(v4[i])'
    <3> DEFINE r == v4[i]
    <3>1. Truthful(r) /\ r \in Requests BY <1>0
    <3>2. r.call # 0 => r.call \in 1 .. MaxCalls BY <1>0, <3>1 DEF Requests
    <3>3. r' = r BY <2>1
    <3> HIDE DEF r
    <3>4. Truthful(r)' BY <2>3, <3>1, <3>2, <3>3 DEF Truthful
    <3> QED BY <3>4 DEF r
  <2> QED BY <1>0, <2>1, <2>2, <2>4 DEF CallsInv
<1>8. CASE Calls!close
  <2>1. /\ v4' = [i \in Ids |-> IF v4[i].pc = "running" THEN Calls!Answer(i,
           "unavailable") ELSE v4[i]]
        /\ UNCHANGED <<v1, v5, v6, v8>>
    BY <1>8 DEF Calls!close
  <2>2. v4' \in [Ids -> Requests] /\ \A i \in Ids : Truthful(v4'[i]) BY <1>0, <2>1,
           AnsweredRequest
  <2> QED BY <2>1, <2>2, CallsKept
<1>9. CASE Calls!retire
  <2>1. v4' = [i \in Ids |-> Calls!Aborted(i)] /\ UNCHANGED <<v1, v5, v6, v8>> BY <1>9
           DEF Calls!retire
  <2>2. v4' \in [Ids -> Requests] /\ \A i \in Ids : Truthful(v4'[i]) BY <2>1, AbortedRequest
  <2> QED BY <2>1, <2>2, CallsKept
<1>10. CASE Calls!DomReady
  <2>1. /\ v1'.high = 0 /\ v4' = [i \in Ids |-> Calls!Fresh] /\ v5' = [i \in Ids |-> 0]
           /\ UNCHANGED <<v6, v8>>
    BY <1>10 DEF Calls!DomReady, Calls!NewScope
  <2> QED BY <1>0, <2>1, FreshRequest DEF CallsInv
<1> QED BY <1>1, <1>2, <1>3, <1>4, <1>5, <1>6, <1>7, <1>8, <1>9, <1>10 DEF Calls!Next

-----------------------------------------------------------------------------
(* The binding of the local runtime. *)

\* src v1, binding v2, gen v3, starting v4, services v5, req v6, holds v7, closed v8
RuntimeInv ==
  /\ DOMAIN v6 = Services /\ v8 \in BOOLEAN /\ v4 \in {"no", "yes", "settled"}
  /\ v1 \in Runtime!Down \cup Urls
  /\ \A h \in v7 : h[1] \in v5
  /\ \A s \in Services : v6[s].pc \in {"waiting", "got"} => s \in v5
  /\ \A s \in Services : v6[s].pc = "waiting" => ~v8 /\ v1 \notin Urls
  /\ \A s \in Services : v6[s] = Runtime!Waiting => v4 = "yes" \/ v1 = "starting"
  /\ ~v8 /\ v1 \in Urls => v2.url = v1
  /\ Runtime!HeldIsCurrent

\* From which both properties follow.
LEMMA RuntimeImplies == ASSUME RuntimeInv PROVE Runtime!HeldIsCurrent /\ Runtime!WaiterIsServed
BY DEF RuntimeInv, Runtime!WaiterIsServed

\* It holds at the start.
LEMMA RuntimeStarts == ASSUME Runtime!Init PROVE RuntimeInv
<1>1. Runtime!Idle.pc = "idle" /\ Runtime!Waiting.pc = "waiting"
  BY DEF Runtime!Idle, Runtime!Waiting
<1> QED BY <1>1 DEF Runtime!Init, RuntimeInv, Runtime!HeldIsCurrent

\* Every step of the runtime binding keeps it.
LEMMA RuntimeSteps ==
  ASSUME RuntimeInv, Runtime!Next
  PROVE  RuntimeInv'
<1> USE DEF RuntimeInv, Runtime!HeldIsCurrent
<1>a. /\ Runtime!Idle.pc = "idle" /\ Runtime!Waiting.pc = "waiting"
      /\ Runtime!Missed.pc = "waiting" /\ Runtime!Missed # Runtime!Waiting
      /\ \A b : Runtime!Got(b).pc = "got"
  BY DEF Runtime!Idle, Runtime!Waiting, Runtime!Missed, Runtime!Got
<1>b. \A u \in Urls : u \notin Runtime!Down /\ u # "none" BY PeersAssumption DEF Runtime!Down
<1>c. ASSUME NEW f PROVE /\ DOMAIN Runtime!Settle(f) = Services
                          /\ \A s \in Services : Runtime!Settle(f)[s] = IF v6[s].pc = "waiting" THEN f ELSE v6[s]
  BY DEF Runtime!Settle
<1>1. ASSUME NEW st \in Runtime!Down \cup Urls, Runtime!SourceMoves(st) PROVE RuntimeInv'
  <2>1. /\ ~v8 /\ v1' = st /\ UNCHANGED <<v4, v5, v8>> /\ Runtime!accept(st) BY <1>1
           DEF Runtime!SourceMoves
  <2>2. Runtime!Retired(v2.g) = {} BY <2>1 DEF Runtime!Retired
  <2>3. CASE st \in Runtime!Down
    <3>1. st \notin Urls /\ v7' = {} BY <1>b, <2>1, <2>2, <2>3 DEF Runtime!accept
    <3>2. CASE st = "starting" \/ v4 = "yes"
      <4>1. v6' = v6 BY <2>1, <2>3, <3>2 DEF Runtime!accept
      <4> QED BY <2>1, <3>1, <3>2, <4>1
    <3>3. CASE ~(st = "starting" \/ v4 = "yes")
      <4>1. v6' = Runtime!Settle(Runtime!Idle) \/ v6' = Runtime!Settle(Runtime!Missed)
        BY <2>1, <2>3, <3>3 DEF Runtime!accept
      <4> QED BY <1>a, <1>c, <2>1, <3>1, <4>1
    <3> QED BY <3>2, <3>3
  <2>4. CASE st \notin Runtime!Down
    <3>1. st \in Urls /\ v6' = Runtime!Settle(Runtime!Got(v2')) BY <2>1, <2>4 DEF Runtime!accept
    <3>2. CASE v2.url = st
      <4>1. v2' = v2 /\ v7' = v7 BY <2>1, <2>4, <3>2 DEF Runtime!accept
      <4> QED BY <1>a, <1>c, <2>1, <3>1, <3>2, <4>1
    <3>3. CASE v2.url # st
      <4>1. v2'.url = st /\ v7' = {} BY <2>1, <2>2, <2>4, <3>3 DEF Runtime!accept
      <4> QED BY <1>a, <1>c, <2>1, <3>1, <4>1
    <3> QED BY <3>2, <3>3
  <2> QED BY <2>3, <2>4
<1>2. ASSUME NEW s \in Services, NEW m \in {"connect", "resume"}, Runtime!Ask(s,
         m) PROVE RuntimeInv'
  <2>1. \E r : r.pc = "asked" /\ v6' = [v6 EXCEPT ![s] = r] BY <1>2 DEF Runtime!Ask
  <2>2. UNCHANGED <<v1, v2, v3, v4, v5, v7, v8>> BY <1>2 DEF Runtime!Ask
  <2> QED BY <1>a, <2>1, <2>2
<1>3. ASSUME NEW s \in Services, Runtime!connect(s) PROVE RuntimeInv'
  <2>1. v5' = v5 \cup {s} /\ ~v8 /\ UNCHANGED <<v1, v2, v7, v8>> BY <1>3 DEF Runtime!connect
  <2>2. CASE v2 # Runtime!NoBinding
    <3>1. v6' = [v6 EXCEPT ![s] = Runtime!Got(v2)] /\ v4' = v4 BY <1>3, <2>2 DEF Runtime!connect
    <3> QED BY <1>a, <2>1, <3>1
  <2>3. CASE v2 = Runtime!NoBinding
    <3>1. /\ v6' = [v6 EXCEPT ![s] = IF v1 # "starting" /\ v4 = "settled"
                                     THEN Runtime!Missed ELSE Runtime!Waiting]
          /\ v4' = IF v1 # "starting" /\ v4 = "no" THEN "yes" ELSE v4
          /\ v4 \in {"no", "yes", "settled"}
      BY <1>3, <2>3 DEF Runtime!connect
    <3>2. v1 \notin Urls BY <1>b, <2>1, <2>3 DEF Runtime!NoBinding
    <3> QED BY <1>a, <2>1, <3>1, <3>2
  <2> QED BY <2>2, <2>3
<1>4. ASSUME NEW s \in Services, Runtime!resume(s) PROVE RuntimeInv'
  BY <1>4, <1>a DEF Runtime!resume
<1>5. ASSUME NEW s \in Services, Runtime!Refused(s) PROVE RuntimeInv'
  BY <1>5, <1>a DEF Runtime!Refused
<1>6. ASSUME NEW s \in Services, Runtime!Answer(s) PROVE RuntimeInv'
  <2>1. /\ v6[s].pc = "got" /\ v6' = [v6 EXCEPT ![s] = Runtime!Idle] /\ UNCHANGED <<v1, v2,
           v3, v4, v5, v8>>
        /\ v7' = IF Runtime!assertCurrent(v6[s].b) THEN v7 \cup {<<s, v6[s].b.g>>} ELSE v7
    BY <1>6 DEF Runtime!Answer
  <2>2. \A h \in v7' : h[1] \in v5 /\ (~v8 => h[2] = v2.g) BY <2>1 DEF Runtime!assertCurrent
  <2> QED BY <1>a, <2>1, <2>2
<1>7. ASSUME NEW refused \in BOOLEAN, Runtime!StartSettles(refused) PROVE RuntimeInv'
  <2>1. UNCHANGED <<v1, v2, v5, v7, v8>> /\ v4' = "settled" BY <1>7 DEF Runtime!StartSettles
  <2>2. CASE refused \/ v1 \in {"stopped", "failed"}
    <3>1. v6' = Runtime!Settle(Runtime!Idle) BY <1>7, <2>2 DEF Runtime!StartSettles
    <3> QED BY <1>a, <1>c, <2>1, <3>1
  <2>3. CASE ~(refused \/ v1 \in {"stopped", "failed"})
    <3>1. v6' = v6 BY <1>7, <2>3 DEF Runtime!StartSettles
    <3>2. v1 \in Urls \/ v1 = "starting" BY <2>3 DEF Runtime!Down
    <3> QED BY <1>a, <2>1, <3>1, <3>2
  <2> QED BY <2>2, <2>3
<1>8. CASE Runtime!Close
  <2>1. v8' /\ v8' \in BOOLEAN /\ v6' = Runtime!Settle(Runtime!Idle) /\ UNCHANGED <<v1, v4,
           v5, v7>> BY <1>8 DEF Runtime!Close
  <2> QED BY <1>a, <1>c, <2>1
<1>9. CASE Runtime!StartCleared
  <2>1. v4 = "settled" /\ v4' = "no" /\ UNCHANGED <<v1, v2, v3, v5, v6, v7, v8>>
    BY <1>9 DEF Runtime!StartCleared
  <2> QED BY <2>1
<1> QED BY <1>1, <1>2, <1>3, <1>4, <1>5, <1>6, <1>7, <1>8, <1>9 DEF Runtime!Next

-----------------------------------------------------------------------------
(* Peer connections, within any bounds. *)

\* No operation.
IdleOp == [pc |-> "idle"]

\* No state recorded.
NoState == [a |-> 0, s |-> "none", r |-> 0]

\* The stages of an attempt.
Stages == {"punching", "starting-runtime", "connected", "ready", "suspended", "failed",
         "disconnected"}

\* The states of a pair.
PairStates == [a : Nat, s : Stages, r : 0 .. 1]

\* The admissions.
Links == [st : PairStates, reply : BOOLEAN, ok : BOOLEAN]

\* A connect under way.
Dials == [pc : {"dialled", "accepted", "connected", "ready", "publishing"},
         current : BOOLEAN, a : Nat,
          moved : {"no", "same", "other"}]

\* A disconnect under way.
Drops == [pc : {"dropping"}, current : BOOLEAN]

\* A read of a workbench address under way.
Entries == [pc : {"authorizing", "asking", "confirming"}, clean : BOOLEAN, ok : BOOLEAN,
         a : Nat]

\* What the variables of the connections may hold. The bounds of attempts and
\* of operations play no part.
ConnTypes ==
  /\ v2 \in PairStates \cup {NoState} /\ v3 \in Nat /\ v4 \subseteq PairStates
  /\ v5 \in PairStates \cup {NoState} /\ v6 \in Seq(Nat) /\ v7 \in Seq(Links)
  /\ v8 \in {IdleOp} \cup Dials \cup Drops /\ v9 \in {IdleOp} \cup Entries /\ v11 \in BOOLEAN

\* A recorded state is of the newest attempt remembered; while the host lives,
\* no record means that nothing was seen yet. Without the second part the first
\* recorded state could be of an attempt that was left.
NewestKept ==
  /\ v5 # NoState => v6 # <<>> /\ v5.a = v6[Len(v6)]
  /\ v11 /\ v5 = NoState => v6 = <<>>

\* An address still admitted was asked for after the last removal began, and
\* what its second read of the catalog found is not removed since: a removal is
\* not saved while the read is under way.
EntryKept ==
  /\ v9 # IdleOp /\ v9.ok => v9.clean
  /\ v9.pc = "confirming" /\ v9.ok => v1 \in {"active", "revoked"}

\* The inductive invariant of the connections.
ConnInv == ConnTypes /\ NewestKept /\ EntryKept

\* Names that do not depend on the bounds.
LEMMA ConnNames ==
  \A M, N : /\ Connections(M, N)!Idle = IdleOp /\ Connections(M, N)!Nothing = NoState
            /\ Connections(M, N)!Stages = Stages
BY DEF Connections!Idle, Connections!Nothing, Connections!Stages, IdleOp, NoState, Stages

\* An operation under way is not an idle one.
LEMMA OpShapes ==
  /\ IdleOp.pc = "idle" /\ NoState.s = "none"
  /\ \A e \in Entries : e # IdleOp /\ e.pc # "idle"
  /\ \A d \in Dials \cup Drops : d # IdleOp /\ d.pc # "idle"
  /\ \A e \in {IdleOp} \cup Entries : e.pc = "idle" <=> e = IdleOp
  /\ \A d \in {IdleOp} \cup Dials \cup Drops : d.pc = "idle" <=> d = IdleOp
  /\ \A st \in PairStates : st # NoState
BY DEF IdleOp, NoState, Entries, Dials, Drops, PairStates, Stages

\* The invariant gives both properties of the connections.
LEMMA ConnImplies ==
  ASSUME NEW M, NEW N, ConnInv
  PROVE  Connections(M, N)!NewestAttempt /\ Connections(M, N)!EntryHonoursRemoval
<1>1. Connections(M, N)!NewestAttempt BY ConnNames DEF ConnInv, NewestKept,
         Connections!NewestAttempt
<1>2. ASSUME v9.pc = "confirming", Connections(M, N)!EntryConfirmed
      PROVE  v9.clean /\ v1 \notin {"removed", "forgotten"} /\ v11 /\ v8 = IdleOp
               /\ v5.s = "ready"
  BY <1>2, OpShapes, ConnNames DEF ConnInv, EntryKept, Connections!EntryConfirmed,
           Connections!guardEntry, Connections!currentReady
<1> QED BY <1>1, <1>2, ConnNames DEF Connections!EntryHonoursRemoval

\* What retires an address, or marks it.
LEMMA RefusedEntry ==
  ASSUME NEW M, NEW N, NEW e \in {IdleOp} \cup Entries
  PROVE  /\ Connections(M, N)!Refused(e) \in {IdleOp} \cup Entries
         /\ Connections(M, N)!Refused(e) # IdleOp => ~Connections(M, N)!Refused(e).ok
         /\ Connections(M, N)!Refused(e).pc = e.pc
         /\ Connections(M, N)!Unclean(e) \in {IdleOp} \cup Entries
         /\ Connections(M, N)!Unclean(e) # IdleOp => e # IdleOp /\ Connections(M,
                     N)!Unclean(e).ok = e.ok
<1>1. CASE e = IdleOp BY <1>1, ConnNames DEF Connections!Refused, Connections!Unclean
<1>2. CASE e # IdleOp BY <1>2, OpShapes, ConnNames DEF Connections!Refused,
         Connections!Unclean, Entries
<1> QED BY <1>1, <1>2

\* A fenced connect or disconnect is still one.
LEMMA FencedConn ==
  ASSUME NEW M, NEW N, NEW c \in {IdleOp} \cup Dials \cup Drops
  PROVE  Connections(M, N)!Fenced(c) \in {IdleOp} \cup Dials \cup Drops
<1>1. CASE c = IdleOp BY <1>1, ConnNames DEF Connections!Fenced
<1>2. CASE c \in Dials BY <1>2, OpShapes, ConnNames DEF Connections!Fenced, Dials
<1>3. CASE c \in Drops BY <1>3, OpShapes, ConnNames DEF Connections!Fenced, Drops
<1> QED BY <1>1, <1>2, <1>3

\* What the core announces of an attempt it ends is a state.
LEMMA EndedStates ==
  ASSUME NEW M, NEW N, NEW st \in PairStates \cup {NoState}, NEW how \in {"disconnected",
           "failed"}
  PROVE  Connections(M, N)!Ended(st, how) \subseteq PairStates
BY ConnNames DEF Connections!Ended, PairStates, Stages

\* Beginning the head of the admissions leaves admissions.
LEMMA BegunLinks ==
  ASSUME NEW M, NEW N, NEW links \in Seq(Links)
  PROVE  Connections(M, N)!Begun(links) \in Seq(Links)
<1>1. CASE links = <<>> BY <1>1 DEF Connections!Begun
<1>2. CASE links # <<>>
  <2>1. Head(links) \in Links /\ Tail(links) \in Seq(Links) BY <1>2
  <2>2. PICK b \in BOOLEAN : b = (Connections(M, N)!authorize(v1)
           /\ (Head(links).reply => Connections(M, N)!connCurrent)) OBVIOUS
  <2>3. [Head(links) EXCEPT !.ok = b] \in Links BY <2>1 DEF Links
  <2>4. Connections(M,
           N)!Begun(links) = <<[Head(links) EXCEPT !.ok = b]>> \o Tail(links) BY <1>2,
                    <2>2 DEF Connections!Begun
  <2> QED BY <2>1, <2>3, <2>4
<1> QED BY <1>1, <1>2

\* So does joining them.
LEMMA JoinedLinks ==
  ASSUME NEW M, NEW N, v7 \in Seq(Links), NEW st \in PairStates, NEW reply \in BOOLEAN
  PROVE  Connections(M, N)!Join(Connections(M, N)!Link(st, reply)) \in Seq(Links)
<1> DEFINE l == Connections(M, N)!Link(st, reply)
<1>1. l \in Links BY DEF Connections!Link, Links
<1> HIDE DEF l
<1>2. <<l>> \in Seq(Links) /\ Append(v7, l) \in Seq(Links) BY <1>1
<1>3. Connections(M, N)!Begun(<<l>>) \in Seq(Links) BY <1>2, BegunLinks
<1> QED BY <1>2, <1>3 DEF Connections!Join, l

\* A state that is recorded is of the newest attempt remembered.
LEMMA Remembered ==
  ASSUME NEW M, NEW N, v6 \in Seq(Nat), NEW a \in Nat, Connections(M,
           N)!sawAttempt(a) => v6 # <<>> /\ a = v6[Len(v6)]
  PROVE  LET r == Connections(M, N)!rememberAttempt(a) IN r \in Seq(Nat) /\ r # <<>>
           /\ a = r[Len(r)]
<1>1. CASE Connections(M, N)!sawAttempt(a) BY <1>1 DEF Connections!rememberAttempt,
         Connections!sawAttempt
<1>2. CASE ~Connections(M, N)!sawAttempt(a)
  <2>1. PICK all : all = Append(v6, a) OBVIOUS
  <2>2. all \in Seq(Nat) /\ all # <<>> /\ all[Len(all)] = a /\ Len(all) \in Nat BY <2>1
  <2>3. Connections(M, N)!rememberAttempt(a) = IF Len(all) > 4 THEN SubSeq(all, Len(all) - 3,
           Len(all)) ELSE all
    BY <1>2, <2>1 DEF Connections!rememberAttempt, Connections!sawAttempt
  <2>4. ASSUME Len(all) > 4
        PROVE  LET r == SubSeq(all, Len(all) - 3, Len(all)) IN r \in Seq(Nat) /\ r # <<>>
                 /\ a = r[Len(r)]
    <3> DEFINE r == SubSeq(all, Len(all) - 3, Len(all))
    <3>1. r \in Seq(Nat) /\ Len(r) = 4 /\ r[4] = all[Len(all) - 3 + 4 - 1] BY <2>2, <2>4
    <3>2. (Len(all) - 3 + 4) - 1 = Len(all) BY <2>2
    <3>3. r[4] = all[Len(all)] BY <2>2, <2>4
    <3> HIDE DEF r
    <3>4. Len(<<>>) = 0 /\ 4 # 0 OBVIOUS
    <3>5. r # <<>> BY ONLY <3>1, <3>4
    <3> QED BY <2>2, <3>1, <3>3, <3>5 DEF r
  <2> QED BY <2>2, <2>3, <2>4
<1> QED BY <1>1, <1>2

\* The invariant holds at the start.
LEMMA ConnStarts == ASSUME NEW M, NEW N, Connections(M, N)!Init PROVE ConnInv
<1>1. v6 = <<>> /\ v7 = <<>> /\ v4 = {} /\ v3 = 0 /\ v2 = NoState /\ v5 = NoState
         /\ v8 = IdleOp /\ v9 = IdleOp
      /\ v11 = TRUE
  BY ConnNames DEF Connections!Init
<1>2. v6 \in Seq(Nat) /\ v7 \in Seq(Links) BY <1>1
<1>3. ConnTypes BY <1>1, <1>2 DEF ConnTypes
<1>4. NewestKept BY <1>1 DEF NewestKept
<1>5. v9.pc # "confirming" BY <1>1 DEF IdleOp
<1>6. EntryKept BY <1>1, <1>5 DEF EntryKept
<1> QED BY <1>3, <1>4, <1>6 DEF ConnInv

\* A step that leaves the record alone keeps NewestKept.
LEMMA NewestFrame == ASSUME ConnInv, v5' = v5, v6' = v6, v11' = v11 PROVE NewestKept'
BY DEF ConnInv, NewestKept

\* A step that leaves the catalog and the read of an address alone keeps
\* EntryKept.
LEMMA EntryFrame == ASSUME ConnInv, v1' = v1, v9' = v9 PROVE EntryKept'
BY DEF ConnInv, EntryKept

\* A refused read needs nothing of the catalog.
LEMMA EntryRefused ==
  ASSUME NEW M, NEW N, ConnInv, v9' = Connections(M, N)!Refused(v9)
  PROVE  EntryKept' /\ v9' \in {IdleOp} \cup Entries
<1>1. v9 \in {IdleOp} \cup Entries BY DEF ConnInv, ConnTypes
<1>2. v9' \in {IdleOp} \cup Entries /\ (v9' # IdleOp => ~v9'.ok) BY <1>1, RefusedEntry
<1>3. v9'.pc = "confirming" => v9' # IdleOp BY DEF IdleOp
<1> QED BY <1>2, <1>3 DEF EntryKept

\* Fencing keeps the type of the operation under way.
LEMMA ConnFences ==
  ASSUME NEW M, NEW N, ConnInv, v8' = Connections(M, N)!Fenced(v8)
  PROVE  v8' \in {IdleOp} \cup Dials \cup Drops
BY FencedConn DEF ConnInv, ConnTypes

\* The end of the lifetime keeps the invariant when the record it leaves is of
\* the attempt recorded.
LEMMA ConnEnds ==
  ASSUME NEW M, NEW N, ConnInv, NEW kept \in PairStates \cup {NoState}, Connections(M,
           N)!Ends(kept),
         kept # NoState => v5 # NoState /\ kept.a = v5.a,
         v1' = v1, v2' = v2, v3' = v3, v6' = v6
  PROVE  ConnInv'
<1>1. v11' = FALSE /\ v5' = kept /\ v8' = IdleOp /\ v9' = IdleOp /\ v7' = <<>> /\ v4' = {}
  BY ConnNames DEF Connections!Ends
<1>2. v7' \in Seq(Links) BY <1>1
<1>3. ConnTypes' BY <1>1, <1>2 DEF ConnInv, ConnTypes
<1>4. NewestKept' BY <1>1 DEF ConnInv, NewestKept
<1>5. v9'.pc # "confirming" BY <1>1 DEF IdleOp
<1>6. EntryKept' BY <1>1, <1>5 DEF EntryKept
<1> QED BY <1>3, <1>4, <1>6 DEF ConnInv

\* The steps of the core.
LEMMA CoreSteps ==
  ASSUME NEW M, NEW N, ConnInv,
         Connections(M, N)!CoreAttempt \/ Connections(M, N)!CoreProgress \/ Connections(M,
                  N)!CoreEdits \/ Connections(M, N)!CatalogChanged
         \/ Connections(M, N)!CoreDials \/ Connections(M, N)!CoreReplies \/ Connections(M,
                     N)!CoreDrops
  PROVE  ConnInv'
<1> USE DEF ConnInv
<1>0. ConnTypes /\ v2 \in PairStates \cup {NoState} /\ v3 \in Nat /\ v3 + 1 \in Nat BY
         DEF ConnTypes
<1>a. Connections(M, N)!Ended(v2, "disconnected") \subseteq PairStates BY <1>0, EndedStates
<1>b. [a |-> v3 + 1, s |-> "punching", r |-> 0] \in PairStates
  <2>1. 0 \in 0 .. 1 OBVIOUS
  <2> QED BY <1>0, <2>1 DEF PairStates, Stages
<1>1. CASE Connections(M, N)!CoreAttempt
  <2>1. v2' \in PairStates /\ v3' \in Nat /\ v4' \subseteq PairStates
    BY <1>1, <1>0, <1>a, <1>b DEF Connections!CoreAttempt, Connections!Announce, ConnTypes
  <2>2. UNCHANGED <<v1, v5, v6, v7, v8, v9, v11>> BY <1>1 DEF Connections!CoreAttempt
  <2> QED BY <1>0, <2>1, <2>2, NewestFrame, EntryFrame DEF ConnTypes
<1>2. CASE Connections(M, N)!CoreProgress
  <2>1. v2 \in PairStates BY <1>0, <1>2, ConnNames DEF Connections!CoreProgress
  <2>2. PICK move \in Connections(M, N)!Moves :
            /\ v2' = [v2 EXCEPT !.s = move[2], !.r = IF move[2] = "ready" THEN 1 ELSE @]
            /\ v4' = v4 \cup {v2'}
    BY <1>2 DEF Connections!CoreProgress, Connections!Announce
  <2>3. move[2] \in Stages BY <2>2 DEF Connections!Moves, Stages
  <2>4. 1 \in 0 .. 1 OBVIOUS
  <2>5. v2' \in PairStates BY <2>1, <2>2, <2>3, <2>4 DEF PairStates
  <2>6. UNCHANGED <<v1, v3, v5, v6, v7, v8, v9, v11>> BY <1>2 DEF Connections!CoreProgress
  <2> QED BY <1>0, <2>2, <2>5, <2>6, NewestFrame, EntryFrame DEF ConnTypes
<1>3. CASE Connections(M, N)!CoreEdits
  <2>1. UNCHANGED <<v2, v3, v4, v5, v6, v7, v8, v11>> BY <1>3 DEF Connections!CoreEdits
  <2>2. CASE v1 = "active" /\ v1' = "revoked" /\ v9' = v9
    BY <1>0, <2>1, <2>2, NewestFrame DEF EntryKept, ConnTypes
  <2>3. CASE v1' = v1 /\ v9' = Connections(M, N)!Refused(v9)
    BY <1>0, <2>1, <2>3, NewestFrame, EntryRefused DEF ConnTypes
  <2> QED BY <1>3, <2>2, <2>3 DEF Connections!CoreEdits
<1>4. CASE Connections(M, N)!CatalogChanged
  <2>1. v7 \in Seq(Links) BY <1>0 DEF ConnTypes
  <2>2. v7' = [i \in 1 .. Len(v7) |-> [v7[i] EXCEPT !.ok = FALSE]] BY <1>4, <2>1
           DEF Connections!CatalogChanged
  <2>3. ASSUME NEW i \in 1 .. Len(v7) PROVE [v7[i] EXCEPT !.ok = FALSE] \in Links
    <3>1. v7[i] \in Links BY <2>1
    <3> QED BY <3>1 DEF Links
  <2>4. v7' \in Seq(Links) BY <2>1, <2>2, <2>3
  <2>5. UNCHANGED <<v1, v2, v3, v4, v5, v6, v8, v9, v11>> BY <1>4 DEF Connections!CatalogChanged
  <2> QED BY <1>0, <2>4, <2>5, NewestFrame, EntryFrame DEF ConnTypes
<1>5. CASE Connections(M, N)!CoreDials
  <2>1. UNCHANGED <<v1, v5, v6, v7, v9, v11>> BY <1>5 DEF Connections!CoreDials
  <2>2. v8 \in Dials BY <1>0, <1>5 DEF Connections!CoreDials, ConnTypes, IdleOp, Drops
  <2>3. v2' \in PairStates \cup {NoState} /\ v3' \in Nat /\ v4' \subseteq PairStates
    BY <1>5, <1>0, <1>a, <1>b DEF Connections!CoreDials, Connections!Announce, ConnTypes
  <2>4. v8' = IdleOp \/ (v8' = [v8 EXCEPT !.pc = "accepted", !.a = v3'])
    BY <1>5, ConnNames DEF Connections!CoreDials
  <2>5. v8' \in {IdleOp} \cup Dials BY <2>2, <2>3, <2>4 DEF Dials
  <2> QED BY <1>0, <2>1, <2>3, <2>5, NewestFrame, EntryFrame DEF ConnTypes
<1>6. CASE Connections(M, N)!CoreReplies
  <2>1. UNCHANGED <<v1, v2, v3, v4, v5, v6, v7, v9, v11>> BY <1>6 DEF Connections!CoreReplies
  <2>2. v8 \in Dials BY <1>0, <1>6 DEF Connections!CoreReplies, ConnTypes, IdleOp, Drops
  <2>3. v8' \in {IdleOp} \cup Dials BY <1>6, <2>2, ConnNames DEF Connections!CoreReplies, Dials
  <2> QED BY <1>0, <2>1, <2>3, NewestFrame, EntryFrame DEF ConnTypes
<1>7. CASE Connections(M, N)!CoreDrops
  <2>1. UNCHANGED <<v1, v3, v5, v6, v7, v9, v11>> /\ v8' = IdleOp BY <1>7, ConnNames
           DEF Connections!CoreDrops
  <2>2. v2 # NoState => [v2 EXCEPT !.s = "disconnected"] \in PairStates BY <1>0
           DEF PairStates, Stages
  <2>3. v2' \in PairStates \cup {NoState} /\ v4' \subseteq PairStates
    BY <1>7, <1>0, <1>a, <2>2, ConnNames DEF Connections!CoreDrops, Connections!Announce,
             ConnTypes
  <2> QED BY <1>0, <2>1, <2>3, NewestFrame, EntryFrame DEF ConnTypes
<1> QED BY <1>1, <1>2, <1>3, <1>4, <1>5, <1>6, <1>7

\* Joining and leaving the admissions: the one place where a state is recorded.
LEMMA AdmissionSteps ==
  ASSUME NEW M, NEW N, ConnInv, Connections(M, N)!PeerState \/ Connections(M, N)!AdmitEnd
           \/ Connections(M, N)!ConnectReply
  PROVE  ConnInv'
<1> USE DEF ConnInv
<1>0. ConnTypes /\ v7 \in Seq(Links) /\ v6 \in Seq(Nat) BY DEF ConnTypes
<1>1. CASE Connections(M, N)!PeerState
  <2>1. PICK st \in v4 : v4' = v4 \ {st} /\ (v7' = v7 \/ v7' = Connections(M,
           N)!Join(Connections(M, N)!Link(st, FALSE)))
    BY <1>1 DEF Connections!PeerState
  <2>2. st \in PairStates BY <1>0, <2>1 DEF ConnTypes
  <2>3. v7' \in Seq(Links) BY <1>0, <2>1, <2>2, JoinedLinks
  <2>4. UNCHANGED <<v1, v2, v3, v5, v6, v8, v9, v11>> BY <1>1 DEF Connections!PeerState
  <2> QED BY <1>0, <2>1, <2>3, <2>4, NewestFrame, EntryFrame DEF ConnTypes
<1>2. CASE Connections(M, N)!ConnectReply
  <2>1. UNCHANGED <<v1, v2, v3, v4, v5, v6, v9, v11>> BY <1>2 DEF Connections!ConnectReply
  <2>2. v8 \in Dials BY <1>0, <1>2 DEF Connections!ConnectReply, ConnTypes, IdleOp, Drops
  <2>3. v8' \in {IdleOp} \cup Dials BY <1>2, <2>2, ConnNames DEF Connections!ConnectReply, Dials
  <2> DEFINE st == [a |-> v8.a, s |-> v8.pc, r |-> IF v8.pc = "ready" THEN 1 ELSE 0]
  <2>4. st \in PairStates
    <3>1. 0 \in 0 .. 1 /\ 1 \in 0 .. 1 OBVIOUS
    <3>2. v8.pc \in {"connected", "ready"} /\ v8.a \in Nat BY <1>2, <2>2
             DEF Connections!ConnectReply, Dials
    <3> QED BY <3>1, <3>2 DEF PairStates, Stages
  <2>5. v7' = v7 \/ v7' = Connections(M, N)!Join(Connections(M, N)!Link(st,
           TRUE)) BY <1>2 DEF Connections!ConnectReply
  <2> HIDE DEF st
  <2>6. v7' \in Seq(Links) BY <1>0, <2>4, <2>5, JoinedLinks
  <2> QED BY <1>0, <2>1, <2>3, <2>6, NewestFrame, EntryFrame DEF ConnTypes
<1>3. CASE Connections(M, N)!AdmitEnd
  <2>1. UNCHANGED <<v1, v2, v3, v4, v9, v11>> /\ v7 # <<>> BY <1>3 DEF Connections!AdmitEnd
  <2>2. Head(v7) \in Links /\ Tail(v7) \in Seq(Links) BY <1>0, <2>1
  <2>3. PICK link \in Links : link = Head(v7) BY <2>2
  <2>4. PICK records \in BOOLEAN :
          /\ records => v11 /\ Connections(M, N)!Recordable(link)
          /\ v7' = Connections(M, N)!Begun(Tail(v7))
          /\ v5' = IF records THEN link.st ELSE v5
          /\ v6' = IF records THEN Connections(M, N)!rememberAttempt(link.st.a) ELSE v6
          /\ v8' = IF link.reply THEN IdleOp
                   ELSE IF records /\ v8.pc \notin {"idle", "dropping"}
                        THEN [v8 EXCEPT !.moved = IF link.st.a # v5.a THEN "other"
                                                  ELSE IF @ = "no" THEN "same" ELSE @]
                        ELSE v8
    BY <1>3, <2>3, ConnNames DEF Connections!AdmitEnd
  <2>5. v7' \in Seq(Links) BY <2>2, <2>4, BegunLinks
  <2>6. v8' \in {IdleOp} \cup Dials \cup Drops
    <3>1. v8 \in {IdleOp} \cup Dials \cup Drops BY <1>0 DEF ConnTypes
    <3>2. v8.pc \notin {"idle", "dropping"} => v8 \in Dials BY <3>1 DEF IdleOp, Drops
    <3>3. v8 \in Dials => [v8 EXCEPT !.moved = IF link.st.a # v5.a THEN "other"
                                               ELSE IF @ = "no" THEN "same" ELSE @] \in Dials
      BY DEF Dials
    <3> QED BY <2>4, <3>1, <3>2, <3>3
  <2>7. link.st \in PairStates /\ link.st.a \in Nat /\ link.st # NoState BY OpShapes
           DEF Links, PairStates
  <2>8. CASE records
    <3>1. v5 # NoState => (link.st.a # v5.a => ~Connections(M, N)!sawAttempt(link.st.a))
      BY <2>4, <2>8, ConnNames DEF Connections!Recordable
    <3>2. ASSUME Connections(M, N)!sawAttempt(link.st.a) PROVE v6 # <<>>
             /\ link.st.a = v6[Len(v6)]
      <4>1. CASE v5 # NoState BY <3>1, <3>2, <4>1 DEF NewestKept
      <4>2. CASE v5 = NoState
        <5>1. v6 = <<>> BY <2>4, <2>8, <4>2 DEF NewestKept
        <5>2. DOMAIN v6 = {} BY <5>1
        <5> QED BY <3>2, <5>2 DEF Connections!sawAttempt
      <4> QED BY <4>1, <4>2
    <3>3. PICK a \in Nat : a = link.st.a BY <2>7
    <3>4. PICK r : r = Connections(M, N)!rememberAttempt(a) OBVIOUS
    <3>5. r \in Seq(Nat) /\ r # <<>> /\ a = r[Len(r)] BY <1>0, <3>2, <3>3, <3>4, Remembered
    <3>6. v6' = r /\ v5' = link.st BY <2>4, <2>8, <3>3, <3>4
    <3>7. NewestKept' BY <2>7, <3>3, <3>5, <3>6 DEF NewestKept
    <3> QED BY <1>0, <2>1, <2>5, <2>6, <2>7, <3>5, <3>6, <3>7, EntryFrame DEF ConnTypes
  <2>9. CASE ~records
    BY <1>0, <2>1, <2>4, <2>5, <2>6, <2>9, NewestFrame, EntryFrame DEF ConnTypes
  <2> QED BY <2>8, <2>9
<1> QED BY <1>1, <1>2, <1>3

\* Connect, disconnect and the read of an address.
LEMMA OperationSteps ==
  ASSUME NEW M, NEW N, ConnInv,
         Connections(M, N)!Connect \/ Connections(M, N)!Disconnect \/ Connections(M,
                  N)!Entry \/ Connections(M, N)!EntryAuthorized
         \/ Connections(M, N)!EntryAnswered \/ Connections(M, N)!EntryReturns
  PROVE  ConnInv'
<1> USE DEF ConnInv
<1>0. ConnTypes /\ v9 \in {IdleOp} \cup Entries BY DEF ConnTypes
<1>1. CASE Connections(M, N)!Connect
  <2>1. UNCHANGED <<v1, v2, v3, v4, v5, v6, v7, v11>> /\ v9' = Connections(M,
           N)!Refused(v9) BY <1>1 DEF Connections!Connect
  <2>2. v8' \in Dials BY <1>1 DEF Connections!Connect, Dials
  <2> QED BY <1>0, <2>1, <2>2, NewestFrame, EntryRefused DEF ConnTypes
<1>2. CASE Connections(M, N)!Disconnect
  <2>1. UNCHANGED <<v1, v2, v3, v4, v5, v6, v7, v11>> /\ v9' = Connections(M,
           N)!Refused(v9) BY <1>2 DEF Connections!Disconnect
  <2>2. v8' \in Drops BY <1>2 DEF Connections!Disconnect, Drops
  <2> QED BY <1>0, <2>1, <2>2, NewestFrame, EntryRefused DEF ConnTypes
<1>3. CASE Connections(M, N)!Entry
  <2>1. UNCHANGED <<v1, v2, v3, v4, v5, v6, v7, v8, v11>> BY <1>3 DEF Connections!Entry
  <2>a. PICK ok \in BOOLEAN : ok = Connections(M, N)!authorize(v1) BY DEF Connections!authorize
  <2>2. v9' = [pc |-> "authorizing", clean |-> TRUE, ok |-> ok, a |-> v5.a]
    BY <1>3, <2>a DEF Connections!Entry
  <2>3. v5.a \in Nat BY <1>0 DEF ConnTypes, PairStates, NoState
  <2>4. v9' \in Entries /\ v9'.clean /\ v9'.pc # "confirming" BY <2>2, <2>3 DEF Entries
  <2> QED BY <1>0, <2>1, <2>4, NewestFrame DEF ConnTypes, EntryKept
<1>4. CASE Connections(M, N)!EntryAuthorized
  <2>1. UNCHANGED <<v1, v2, v3, v4, v5, v6, v7, v8, v11>> BY <1>4
           DEF Connections!EntryAuthorized
  <2>2. v9 \in Entries BY <1>0, <1>4 DEF Connections!EntryAuthorized, IdleOp
  <2>3. v9' = IdleOp \/ v9' = [v9 EXCEPT !.pc = "asking"] BY <1>4, ConnNames
           DEF Connections!EntryAuthorized
  <2>4. v9' \in {IdleOp} \cup Entries /\ v9'.pc # "confirming"
           /\ (v9' # IdleOp => v9'.ok = v9.ok /\ v9'.clean = v9.clean)
    BY <2>2, <2>3 DEF IdleOp, Entries
  <2>5. EntryKept' BY <2>2, <2>4, OpShapes DEF EntryKept
  <2> QED BY <1>0, <2>1, <2>4, <2>5, NewestFrame DEF ConnTypes
<1>5. CASE Connections(M, N)!EntryAnswered
  <2>1. UNCHANGED <<v1, v2, v3, v4, v5, v6, v7, v8, v11>> BY <1>5 DEF Connections!EntryAnswered
  <2>2. v9 \in Entries BY <1>0, <1>5 DEF Connections!EntryAnswered, IdleOp
  <2>3. PICK ok \in BOOLEAN : ok = Connections(M, N)!authorize(v1) BY DEF Connections!authorize
  <2>4. v9' = IdleOp \/ (v9.ok /\ v9' = [v9 EXCEPT !.pc = "confirming", !.ok = ok])
    BY <1>5, <2>3, ConnNames DEF Connections!EntryAnswered, Connections!guardEntry
  <2>5. CASE v9' = IdleOp
    <3>1. v9'.pc # "confirming" BY <2>5 DEF IdleOp
    <3> QED BY <1>0, <2>1, <2>5, <3>1, NewestFrame DEF ConnTypes, EntryKept
  <2>6. CASE v9.ok /\ v9' = [v9 EXCEPT !.pc = "confirming", !.ok = ok]
    <3>1. v9' \in Entries /\ v9'.ok = ok /\ v9'.clean = v9.clean BY <2>2, <2>6 DEF Entries
    <3>2. v9.clean BY <2>2, <2>6, OpShapes DEF EntryKept
    <3>3. ok => v1 = "active" BY <2>3 DEF Connections!authorize
    <3>4. EntryKept' BY <2>1, <3>1, <3>2, <3>3 DEF EntryKept
    <3> QED BY <1>0, <2>1, <3>1, <3>4, NewestFrame DEF ConnTypes
  <2> QED BY <2>4, <2>5, <2>6
<1>6. CASE Connections(M, N)!EntryReturns
  <2>1. UNCHANGED <<v1, v2, v3, v4, v5, v6, v7, v8, v11>> /\ v9' = IdleOp BY <1>6,
           ConnNames DEF Connections!EntryReturns
  <2>2. v9'.pc # "confirming" BY <2>1 DEF IdleOp
  <2> QED BY <1>0, <2>1, <2>2, NewestFrame DEF ConnTypes, EntryKept
<1> QED BY <1>1, <1>2, <1>3, <1>4, <1>5, <1>6

\* The removals of authority and the end of the lifetime.
LEMMA RemovalSteps ==
  ASSUME NEW M, NEW N, ConnInv,
         Connections(M, N)!Revoke \/ Connections(M, N)!DeleteNetwork \/ Connections(M,
                  N)!RemovalConfirmed \/ Connections(M, N)!RemovalRefused
         \/ Connections(M, N)!RemovalSaved \/ Connections(M, N)!RemovalDone \/ Connections(M,
                     N)!Unavailable \/ Connections(M, N)!Close
  PROVE  ConnInv'
<1> USE DEF ConnInv
<1>0. ConnTypes /\ v9 \in {IdleOp} \cup Entries BY DEF ConnTypes
<1>1. CASE Connections(M, N)!Revoke
  <2>1. UNCHANGED <<v1, v2, v3, v4, v5, v6, v7, v11>> /\ v8' = Connections(M, N)!Fenced(v8)
        /\ v9' = Connections(M, N)!Unclean(Connections(M, N)!Refused(v9))
    BY <1>1 DEF Connections!Revoke
  <2>2. PICK e \in {IdleOp} \cup Entries : e = Connections(M, N)!Refused(v9)
           /\ (e # IdleOp => ~e.ok)
    BY <1>0, RefusedEntry
  <2>3. v9' \in {IdleOp} \cup Entries /\ (v9' # IdleOp => e # IdleOp
           /\ v9'.ok = e.ok) BY <2>1, <2>2, RefusedEntry
  <2>4. v9'.pc = "confirming" => v9' # IdleOp BY DEF IdleOp
  <2>5. EntryKept' BY <2>2, <2>3, <2>4 DEF EntryKept
  <2> QED BY <1>0, <2>1, <2>3, <2>5, NewestFrame, ConnFences DEF ConnTypes
<1>2. CASE Connections(M, N)!DeleteNetwork
  <2>1. UNCHANGED <<v1, v2, v3, v4, v5, v6, v7, v8, v9, v11>> BY <1>2
           DEF Connections!DeleteNetwork
  <2> QED BY <1>0, <2>1, NewestFrame, EntryFrame DEF ConnTypes
<1>3. CASE Connections(M, N)!RemovalConfirmed
  <2>1. UNCHANGED <<v1, v2, v3, v4, v5, v6, v7, v11>> BY <1>3 DEF Connections!RemovalConfirmed
  <2>2. CASE v8' = Connections(M, N)!Fenced(v8) /\ v9' = Connections(M, N)!Refused(v9)
    BY <1>0, <2>1, <2>2, NewestFrame, EntryRefused, ConnFences DEF ConnTypes
  <2>3. CASE v8' = v8 /\ v9' = v9
    BY <1>0, <2>1, <2>3, NewestFrame, EntryFrame DEF ConnTypes
  <2> QED BY <1>3, <2>2, <2>3 DEF Connections!RemovalConfirmed
<1>4. CASE Connections(M, N)!RemovalRefused
  <2>1. UNCHANGED <<v1, v2, v3, v6>> BY <1>4 DEF Connections!RemovalRefused
  <2>2. CASE UNCHANGED <<v5, v7, v8, v9, v4, v11>>
    BY <1>0, <2>1, <2>2, NewestFrame, EntryFrame DEF ConnTypes
  <2>3. CASE Connections(M, N)!Ends(NoState)
    BY <2>1, <2>3, ConnEnds
  <2> QED BY <1>4, <2>2, <2>3, ConnNames DEF Connections!RemovalRefused
<1>5. CASE Connections(M, N)!RemovalSaved
  <2>1. UNCHANGED <<v2, v3, v4, v5, v6, v7, v8, v9, v11>> /\ v9.pc # "confirming"
    BY <1>5 DEF Connections!RemovalSaved, Connections!Reading
  <2>2. EntryKept' BY <2>1 DEF EntryKept
  <2> QED BY <1>0, <2>1, <2>2, NewestFrame DEF ConnTypes
<1>6. CASE Connections(M, N)!RemovalDone
  <2>1. UNCHANGED <<v1, v2, v3, v4, v5, v6, v7, v11>> /\ v8' = Connections(M,
           N)!Fenced(v8) /\ v9' = Connections(M, N)!Refused(v9)
    BY <1>6 DEF Connections!RemovalDone
  <2> QED BY <1>0, <2>1, NewestFrame, EntryRefused, ConnFences DEF ConnTypes
<1>7. CASE Connections(M, N)!Unavailable
  <2>1. UNCHANGED <<v1, v2, v3, v6>> BY <1>7 DEF Connections!Unavailable
  <2>2. PICK kept : kept = (IF v5 = NoState THEN v5 ELSE [v5 EXCEPT !.s = "failed"]) OBVIOUS
  <2>3. Connections(M, N)!Ends(kept) BY <1>7, <2>2, ConnNames DEF Connections!Unavailable
  <2>4. v5 \in PairStates \cup {NoState} BY <1>0 DEF ConnTypes
  <2>5. kept \in PairStates \cup {NoState} /\ (kept # NoState => v5 # NoState /\ kept.a = v5.a)
    BY <2>2, <2>4 DEF PairStates, Stages
  <2> QED BY <2>1, <2>3, <2>5, ConnEnds
<1>8. CASE Connections(M, N)!Close
  <2>1. UNCHANGED <<v1, v2, v3, v6>> /\ Connections(M, N)!Ends(NoState) BY <1>8,
           ConnNames DEF Connections!Close
  <2> QED BY <2>1, ConnEnds
<1> QED BY <1>1, <1>2, <1>3, <1>4, <1>5, <1>6, <1>7, <1>8

\* Every step of the connections keeps the invariant.
LEMMA ConnSteps ==
  ASSUME NEW M, NEW N, ConnInv, Connections(M, N)!Next
  PROVE  ConnInv'
BY CoreSteps, AdmissionSteps, OperationSteps, RemovalSteps DEF Connections!Next

\* For any number of attempts and operations, the recorded state of a pair is
\* of the newest attempt seen, and no workbench address is answered for a pair
\* whose authority was removed while the address was read (runtime-host.ts
\* #recordState, connections.ts guardEntry).
THEOREM ConnectionsAreCurrent ==
  ASSUME NEW CONSTANT M, NEW CONSTANT N
  PROVE  Connections(M, N)!Spec => [](Connections(M, N)!NewestAttempt /\ Connections(M,
           N)!EntryHonoursRemoval)
<1>1. Connections(M, N)!Init => ConnInv BY ConnStarts
<1>2. ConnInv /\ [Connections(M, N)!Next]_(Connections(M, N)!vars) => ConnInv'
  <2>1. CASE Connections(M, N)!Next BY <2>1, ConnSteps
  <2>2. CASE UNCHANGED Connections(M, N)!vars
    BY <2>2 DEF ConnInv, ConnTypes, NewestKept, EntryKept, Connections!vars
  <2> QED BY <2>1, <2>2
<1>3. ConnInv => Connections(M, N)!NewestAttempt /\ Connections(M,
         N)!EntryHonoursRemoval BY ConnImplies
<1> QED BY <1>1, <1>2, <1>3, PTL DEF Connections!Spec

-----------------------------------------------------------------------------
(* The theorems of the run. *)

\* The invariants of the two components whose answers are about.
AnswersInv == (part = "services" => ServicesInv) /\ (part = "requests" => CallsInv)

\* They hold at the start.
LEMMA AnswersStart == ASSUME Init PROVE AnswersInv
BY ServicesStart, CallsStart
   DEF AnswersInv, Init, ConnectionsInit, OperationsInit, RuntimeInit, ServiceEditsInit,
            CallsInit, CatalogInit,
       EnrollmentInit, LoginInit

\* A step of the run keeps them.
LEMMA AnswersSteps == ASSUME AnswersInv, Next PROVE AnswersInv'
<1>1. CASE ServiceEditsStep
  <2>1. part = "services" /\ part' = part /\ ServiceEdits!Next /\ ServicesInv BY <1>1
           DEF ServiceEditsStep, AnswersInv
  <2>2. ServicesInv' BY <2>1, ServicesStep
  <2> QED BY <2>1, <2>2 DEF AnswersInv
<1>2. CASE CallsStep
  <2>1. part = "requests" /\ part' = part /\ Calls!Next /\ CallsInv BY <1>2 DEF CallsStep,
           AnswersInv
  <2>2. CallsInv' BY <2>1, CallsSteps
  <2> QED BY <2>1, <2>2 DEF AnswersInv
<1>3. CASE ~ServiceEditsStep /\ ~CallsStep
  <2>1. part' \notin {"services", "requests"}
    BY <1>3 DEF Next, ConnectionsStep, OperationsStep, RuntimeStep, ServiceEditsStep,
             CallsStep, CatalogStep,
       EnrollmentStep, LoginStep
  <2> QED BY <2>1 DEF AnswersInv
<1> QED BY <1>1, <1>2, <1>3

\* What the window is told is so: a service believed active is the saved one
\* under the address the core uses (services.ts), a request id runs at most
\* once in a document (management-requests.ts), and what is answered of a write
\* is true of the call itself (rpc.ts), for any number of services, ids, calls
\* and documents.
THEOREM AnswersAreTrueHolds == Spec => []AnswersAreTrue
<1>1. Init => AnswersInv BY AnswersStart
<1>2. AnswersInv /\ [Next]_vars => AnswersInv'
  <2>1. CASE Next BY <2>1, AnswersSteps
  <2>2. CASE UNCHANGED vars
    <3>1. UNCHANGED <<part, v1, v2, v3, v4, v5, v6, v7, v8>> BY <2>2 DEF vars
    <3>2. (ServicesInv => ServicesInv') BY <3>1 DEF ServicesInv, ServiceEdits!ActiveIsSaved
    <3>3. (CallsInv => CallsInv') BY <3>1 DEF CallsInv, Truthful
    <3> QED BY <3>1, <3>2, <3>3 DEF AnswersInv
  <2> QED BY <2>1, <2>2
<1>3. AnswersInv => AnswersAreTrue BY CallsImply DEF AnswersInv, AnswersAreTrue, ServicesInv
<1> QED BY <1>1, <1>2, <1>3, PTL DEF Spec

\* The invariants of the components that act on what they were told.
AuthorityInv ==
  /\ part \in {"connections", "operations"} => ConnInv
  /\ part = "runtime" => RuntimeInv

\* They hold at the start.
LEMMA AuthorityStarts == ASSUME Init PROVE AuthorityInv
BY ConnStarts, RuntimeStarts
   DEF AuthorityInv, Init, ConnectionsInit, OperationsInit, RuntimeInit, ServiceEditsInit,
            CallsInit, CatalogInit,
       EnrollmentInit, LoginInit

\* A step of the run keeps them.
LEMMA AuthoritySteps == ASSUME AuthorityInv, Next PROVE AuthorityInv'
<1>1. CASE ConnectionsStep \/ OperationsStep
  <2>1. part \in {"connections", "operations"} /\ part' = part /\ ConnInv
        /\ (Connections(2, 1)!Next \/ Connections(1, 2)!Next)
    BY <1>1 DEF ConnectionsStep, OperationsStep, AuthorityInv
  <2>2. ConnInv' BY <2>1, ConnSteps
  <2> QED BY <2>1, <2>2 DEF AuthorityInv
<1>2. CASE RuntimeStep
  <2>1. part = "runtime" /\ part' = part /\ Runtime!Next /\ RuntimeInv BY <1>2
           DEF RuntimeStep, AuthorityInv
  <2>2. RuntimeInv' BY <2>1, RuntimeSteps
  <2> QED BY <2>1, <2>2 DEF AuthorityInv
<1>3. CASE ~ConnectionsStep /\ ~OperationsStep /\ ~RuntimeStep
  <2>1. part' \notin {"connections", "operations", "runtime"}
    BY <1>3 DEF Next, ConnectionsStep, OperationsStep, RuntimeStep, ServiceEditsStep,
             CallsStep, CatalogStep,
       EnrollmentStep, LoginStep
  <2> QED BY <2>1 DEF AuthorityInv
<1> QED BY <1>1, <1>2, <1>3

\* What the process acts on is the newest thing it was told: the newest
\* attempt's state, an address whose authority still stands, the current
\* binding of the local runtime (runtime-host.ts, connections.ts, runtime-
\* owner.ts), for any number of services, addresses and generations.
THEOREM AuthorityIsCurrentHolds == Spec => []AuthorityIsCurrent
<1>1. Init => AuthorityInv BY AuthorityStarts
<1>2. AuthorityInv /\ [Next]_vars => AuthorityInv'
  <2>1. CASE Next BY <2>1, AuthoritySteps
  <2>2. CASE UNCHANGED vars
    <3>1. UNCHANGED <<part, v1, v2, v3, v4, v5, v6, v7, v8, v9, v11>> BY <2>2 DEF vars
    <3>2. ConnInv => ConnInv' BY <3>1 DEF ConnInv, ConnTypes, NewestKept, EntryKept
    <3>3. RuntimeInv => RuntimeInv' BY <3>1 DEF RuntimeInv, Runtime!HeldIsCurrent
    <3> QED BY <3>1, <3>2, <3>3 DEF AuthorityInv
  <2> QED BY <2>1, <2>2
<1>3. AuthorityInv => AuthorityIsCurrent BY ConnImplies, RuntimeImplies DEF AuthorityInv,
         AuthorityIsCurrent
<1> QED BY <1>1, <1>2, <1>3, PTL DEF Spec

-----------------------------------------------------------------------------
(* This machine's identity: the theorems of IdentityProofs, at the bounds   *)
(* of the run.                                                             *)

\* What IdentityProofs says of the enrollments of the run.
EnrollmentProofs == INSTANCE IdentityProofs WITH
  Requests <- 1..2, Certs <- 1..3, Tokens <- 1..1, MaxFaults <- 1,
  MaxOps <- 3, port <- v1, store <- v2, jobs <- v3, reply <- v4, acct <- v5,
  tokens <- v6, account <- v7, restore <- v8, waiting <- v9, ready <- v10,
  enroll <- v11, device <- v12, restored <- v13, issued <- v14,
  consumed <- v15, left <- v16, fresh <- v17, faults <- v18

\* What IdentityProofs says of the logins of the run.
LoginProofs == INSTANCE IdentityProofs WITH
  Requests <- 1..2, Certs <- 1..3, Tokens <- 1..2, MaxFaults <- 1,
  MaxOps <- 2, port <- v1, store <- v2, jobs <- v3, reply <- v4, acct <- v5,
  tokens <- v6, account <- v7, restore <- v8, waiting <- v9, ready <- v10,
  enroll <- v11, device <- v12, restored <- v13, issued <- v14,
  consumed <- v15, left <- v16, fresh <- v17, faults <- v18

\* The enrollments of the run are those the proofs speak of.
LEMMA EnrollmentIsProved ==
  /\ EnrollmentProofs!Constants
  /\ Enrollment!Init => EnrollmentProofs!Init
  /\ Enrollment!Next => EnrollmentProofs!Next
  /\ EnrollmentProofs!TypeOK => Enrollment!TypeOK
  /\ EnrollmentProofs!OneIdentity => Enrollment!OneIdentity
  /\ EnrollmentProofs!SpentIsResumable => Enrollment!SpentIsResumable
  /\ EnrollmentProofs!ResurrectionStep => Enrollment!ResurrectionStep
  /\ EnrollmentProofs!LoginStep => Enrollment!LoginStep
<1> USE DEF Enrollment!storeVars, EnrollmentProofs!storeVars, Enrollment!Slots, EnrollmentProofs!Slots,
        Enrollment!ProviderSlots, EnrollmentProofs!ProviderSlots, Enrollment!Absent,
        EnrollmentProofs!Absent, Enrollment!Corrupt, EnrollmentProofs!Corrupt, Enrollment!Pending,
        EnrollmentProofs!Pending, Enrollment!Credential, EnrollmentProofs!Credential,
        Enrollment!Session, EnrollmentProofs!Session, Enrollment!Records, EnrollmentProofs!Records,
        Enrollment!Nobody, EnrollmentProofs!Nobody, Enrollment!Clients, EnrollmentProofs!Clients,
        Enrollment!NoReply, EnrollmentProofs!NoReply, Enrollment!Ops, EnrollmentProofs!Ops,
        Enrollment!Writes, EnrollmentProofs!Writes, Enrollment!Job, EnrollmentProofs!Job,
        Enrollment!Jobs, EnrollmentProofs!Jobs, Enrollment!Settled, EnrollmentProofs!Settled,
        Enrollment!Busy, EnrollmentProofs!Busy, Enrollment!Enqueue, EnrollmentProofs!Enqueue,
        Enrollment!WellFormed, EnrollmentProofs!WellFormed, Enrollment!Routed,
        EnrollmentProofs!Routed, Enrollment!Migration, EnrollmentProofs!Migration,
        Enrollment!RoutedSession, EnrollmentProofs!RoutedSession, Enrollment!Clear,
        EnrollmentProofs!Clear, Enrollment!Put, EnrollmentProofs!Put, Enrollment!PrepareAdmitted,
        EnrollmentProofs!PrepareAdmitted, Enrollment!PreparePlan, EnrollmentProofs!PreparePlan,
        Enrollment!CompleteAdmitted, EnrollmentProofs!CompleteAdmitted,
        Enrollment!CompletePlanRetiresFirst, EnrollmentProofs!CompletePlanRetiresFirst,
        Enrollment!CompletePlan, EnrollmentProofs!CompletePlan, Enrollment!ReplaceAnyRegistration,
        EnrollmentProofs!ReplaceAnyRegistration, Enrollment!ReplaceAsUpsert,
        EnrollmentProofs!ReplaceAsUpsert, Enrollment!ReplaceAdmitted,
        EnrollmentProofs!ReplaceAdmitted, Enrollment!ReplacePlan, EnrollmentProofs!ReplacePlan,
        Enrollment!RemoveAdmitted, EnrollmentProofs!RemoveAdmitted, Enrollment!RemovePlan,
        EnrollmentProofs!RemovePlan, Enrollment!SaveSessionPlan, EnrollmentProofs!SaveSessionPlan,
        Enrollment!LoadSessionPlan, EnrollmentProofs!LoadSessionPlan, Enrollment!RemoveSessionPlan,
        EnrollmentProofs!RemoveSessionPlan, Enrollment!Admitted, EnrollmentProofs!Admitted,
        Enrollment!Plan, EnrollmentProofs!Plan, Enrollment!Answer, EnrollmentProofs!Answer,
        Enrollment!Finish, EnrollmentProofs!Finish, Enrollment!Begin, EnrollmentProofs!Begin,
        Enrollment!Lapsed, EnrollmentProofs!Lapsed, Enrollment!Write, EnrollmentProofs!Write,
        Enrollment!Fail, EnrollmentProofs!Fail, Enrollment!StoreInit, EnrollmentProofs!StoreInit,
        Enrollment!StoreTypeOK, EnrollmentProofs!StoreTypeOK, Enrollment!accountVars,
        EnrollmentProofs!accountVars, Enrollment!coordinator, EnrollmentProofs!coordinator,
        Enrollment!vars, EnrollmentProofs!vars, Enrollment!NoToken, EnrollmentProofs!NoToken,
        Enrollment!Idle, EnrollmentProofs!Idle, Enrollment!NoAccount, EnrollmentProofs!NoAccount,
        Enrollment!NoEnroll, EnrollmentProofs!NoEnroll, Enrollment!NoDevice,
        EnrollmentProofs!NoDevice, Enrollment!AccountOps, EnrollmentProofs!AccountOps,
        Enrollment!DeviceOps, EnrollmentProofs!DeviceOps, Enrollment!Quiet, EnrollmentProofs!Quiet,
        Enrollment!Asked, EnrollmentProofs!Asked, Enrollment!HasSession,
        EnrollmentProofs!HasSession, Enrollment!Accepts, EnrollmentProofs!Accepts,
        Enrollment!Request, EnrollmentProofs!Request, Enrollment!Release, EnrollmentProofs!Release,
        Enrollment!Refuse, EnrollmentProofs!Refuse, Enrollment!RestoreLoaded,
        EnrollmentProofs!RestoreLoaded, Enrollment!AdoptReply, EnrollmentProofs!AdoptReply,
        Enrollment!RestoreDropped, EnrollmentProofs!RestoreDropped, Enrollment!StartAccount,
        EnrollmentProofs!StartAccount, Enrollment!LoginReply, EnrollmentProofs!LoginReply,
        Enrollment!LoginPersisted, EnrollmentProofs!LoginPersisted, Enrollment!LogoutReply,
        EnrollmentProofs!LogoutReply, Enrollment!ReadReply, EnrollmentProofs!ReadReply,
        Enrollment!Retire, EnrollmentProofs!Retire, Enrollment!AsAccount,
        EnrollmentProofs!AsAccount, Enrollment!EnrollFrame, EnrollmentProofs!EnrollFrame,
        Enrollment!Register, EnrollmentProofs!Register, Enrollment!EnrollWhenMissing,
        EnrollmentProofs!EnrollWhenMissing, Enrollment!Join, EnrollmentProofs!Join, Enrollment!Load,
        EnrollmentProofs!Load, Enrollment!EnrollResume, EnrollmentProofs!EnrollResume,
        Enrollment!Submit, EnrollmentProofs!Submit, Enrollment!CompleteUnconfirmed,
        EnrollmentProofs!CompleteUnconfirmed, Enrollment!QueryAndComplete,
        EnrollmentProofs!QueryAndComplete, Enrollment!Leave, EnrollmentProofs!Leave,
        Enrollment!EnrollCancel, EnrollmentProofs!EnrollCancel, Enrollment!DeviceFrame,
        EnrollmentProofs!DeviceFrame, Enrollment!DeviceEnd, EnrollmentProofs!DeviceEnd,
        Enrollment!StartDevice, EnrollmentProofs!StartDevice, Enrollment!DeviceResume,
        EnrollmentProofs!DeviceResume, Enrollment!Certificate, EnrollmentProofs!Certificate,
        Enrollment!Renewed, EnrollmentProofs!Renewed, Enrollment!RecoveryScopeEndsAnySession,
        EnrollmentProofs!RecoveryScopeEndsAnySession, Enrollment!RecoveryScope,
        EnrollmentProofs!RecoveryScope, Enrollment!DeviceRestore, EnrollmentProofs!DeviceRestore,
        Enrollment!ScopeLapsed, EnrollmentProofs!ScopeLapsed, Enrollment!StoreStep,
        EnrollmentProofs!StoreStep, Enrollment!Fault, EnrollmentProofs!Fault, Enrollment!StoreFails,
        EnrollmentProofs!StoreFails, Enrollment!Forget, EnrollmentProofs!Forget,
        Enrollment!HelperLost, EnrollmentProofs!HelperLost, Enrollment!Crash,
        EnrollmentProofs!Crash, Enrollment!Rest, EnrollmentProofs!Rest, Enrollment!Init,
        EnrollmentProofs!Init, Enrollment!Next, EnrollmentProofs!Next, Enrollment!TypeOK,
        EnrollmentProofs!TypeOK, Enrollment!Identities, EnrollmentProofs!Identities,
        Enrollment!OneIdentity, EnrollmentProofs!OneIdentity, Enrollment!SpentIsResumable,
        EnrollmentProofs!SpentIsResumable, Enrollment!ResurrectionStep,
        EnrollmentProofs!ResurrectionStep, Enrollment!LoginStep, EnrollmentProofs!LoginStep
<1>1. EnrollmentProofs!Constants BY DEF EnrollmentProofs!Constants
<1>2. Enrollment!Init => EnrollmentProofs!Init OBVIOUS
<1>3. Enrollment!Next => EnrollmentProofs!Next OBVIOUS
<1>4. EnrollmentProofs!TypeOK => Enrollment!TypeOK OBVIOUS
<1>5. EnrollmentProofs!OneIdentity => Enrollment!OneIdentity OBVIOUS
<1>6. EnrollmentProofs!SpentIsResumable => Enrollment!SpentIsResumable OBVIOUS
<1>7. EnrollmentProofs!ResurrectionStep => Enrollment!ResurrectionStep OBVIOUS
<1>8. EnrollmentProofs!LoginStep => Enrollment!LoginStep OBVIOUS
<1> HIDE DEF Enrollment!storeVars, EnrollmentProofs!storeVars, Enrollment!Slots, EnrollmentProofs!Slots,
        Enrollment!ProviderSlots, EnrollmentProofs!ProviderSlots, Enrollment!Absent,
        EnrollmentProofs!Absent, Enrollment!Corrupt, EnrollmentProofs!Corrupt, Enrollment!Pending,
        EnrollmentProofs!Pending, Enrollment!Credential, EnrollmentProofs!Credential,
        Enrollment!Session, EnrollmentProofs!Session, Enrollment!Records, EnrollmentProofs!Records,
        Enrollment!Nobody, EnrollmentProofs!Nobody, Enrollment!Clients, EnrollmentProofs!Clients,
        Enrollment!NoReply, EnrollmentProofs!NoReply, Enrollment!Ops, EnrollmentProofs!Ops,
        Enrollment!Writes, EnrollmentProofs!Writes, Enrollment!Job, EnrollmentProofs!Job,
        Enrollment!Jobs, EnrollmentProofs!Jobs, Enrollment!Settled, EnrollmentProofs!Settled,
        Enrollment!Busy, EnrollmentProofs!Busy, Enrollment!Enqueue, EnrollmentProofs!Enqueue,
        Enrollment!WellFormed, EnrollmentProofs!WellFormed, Enrollment!Routed,
        EnrollmentProofs!Routed, Enrollment!Migration, EnrollmentProofs!Migration,
        Enrollment!RoutedSession, EnrollmentProofs!RoutedSession, Enrollment!Clear,
        EnrollmentProofs!Clear, Enrollment!Put, EnrollmentProofs!Put, Enrollment!PrepareAdmitted,
        EnrollmentProofs!PrepareAdmitted, Enrollment!PreparePlan, EnrollmentProofs!PreparePlan,
        Enrollment!CompleteAdmitted, EnrollmentProofs!CompleteAdmitted,
        Enrollment!CompletePlanRetiresFirst, EnrollmentProofs!CompletePlanRetiresFirst,
        Enrollment!CompletePlan, EnrollmentProofs!CompletePlan, Enrollment!ReplaceAnyRegistration,
        EnrollmentProofs!ReplaceAnyRegistration, Enrollment!ReplaceAsUpsert,
        EnrollmentProofs!ReplaceAsUpsert, Enrollment!ReplaceAdmitted,
        EnrollmentProofs!ReplaceAdmitted, Enrollment!ReplacePlan, EnrollmentProofs!ReplacePlan,
        Enrollment!RemoveAdmitted, EnrollmentProofs!RemoveAdmitted, Enrollment!RemovePlan,
        EnrollmentProofs!RemovePlan, Enrollment!SaveSessionPlan, EnrollmentProofs!SaveSessionPlan,
        Enrollment!LoadSessionPlan, EnrollmentProofs!LoadSessionPlan, Enrollment!RemoveSessionPlan,
        EnrollmentProofs!RemoveSessionPlan, Enrollment!Admitted, EnrollmentProofs!Admitted,
        Enrollment!Plan, EnrollmentProofs!Plan, Enrollment!Answer, EnrollmentProofs!Answer,
        Enrollment!Finish, EnrollmentProofs!Finish, Enrollment!Begin, EnrollmentProofs!Begin,
        Enrollment!Lapsed, EnrollmentProofs!Lapsed, Enrollment!Write, EnrollmentProofs!Write,
        Enrollment!Fail, EnrollmentProofs!Fail, Enrollment!StoreInit, EnrollmentProofs!StoreInit,
        Enrollment!StoreTypeOK, EnrollmentProofs!StoreTypeOK, Enrollment!accountVars,
        EnrollmentProofs!accountVars, Enrollment!coordinator, EnrollmentProofs!coordinator,
        Enrollment!vars, EnrollmentProofs!vars, Enrollment!NoToken, EnrollmentProofs!NoToken,
        Enrollment!Idle, EnrollmentProofs!Idle, Enrollment!NoAccount, EnrollmentProofs!NoAccount,
        Enrollment!NoEnroll, EnrollmentProofs!NoEnroll, Enrollment!NoDevice,
        EnrollmentProofs!NoDevice, Enrollment!AccountOps, EnrollmentProofs!AccountOps,
        Enrollment!DeviceOps, EnrollmentProofs!DeviceOps, Enrollment!Quiet, EnrollmentProofs!Quiet,
        Enrollment!Asked, EnrollmentProofs!Asked, Enrollment!HasSession,
        EnrollmentProofs!HasSession, Enrollment!Accepts, EnrollmentProofs!Accepts,
        Enrollment!Request, EnrollmentProofs!Request, Enrollment!Release, EnrollmentProofs!Release,
        Enrollment!Refuse, EnrollmentProofs!Refuse, Enrollment!RestoreLoaded,
        EnrollmentProofs!RestoreLoaded, Enrollment!AdoptReply, EnrollmentProofs!AdoptReply,
        Enrollment!RestoreDropped, EnrollmentProofs!RestoreDropped, Enrollment!StartAccount,
        EnrollmentProofs!StartAccount, Enrollment!LoginReply, EnrollmentProofs!LoginReply,
        Enrollment!LoginPersisted, EnrollmentProofs!LoginPersisted, Enrollment!LogoutReply,
        EnrollmentProofs!LogoutReply, Enrollment!ReadReply, EnrollmentProofs!ReadReply,
        Enrollment!Retire, EnrollmentProofs!Retire, Enrollment!AsAccount,
        EnrollmentProofs!AsAccount, Enrollment!EnrollFrame, EnrollmentProofs!EnrollFrame,
        Enrollment!Register, EnrollmentProofs!Register, Enrollment!EnrollWhenMissing,
        EnrollmentProofs!EnrollWhenMissing, Enrollment!Join, EnrollmentProofs!Join, Enrollment!Load,
        EnrollmentProofs!Load, Enrollment!EnrollResume, EnrollmentProofs!EnrollResume,
        Enrollment!Submit, EnrollmentProofs!Submit, Enrollment!CompleteUnconfirmed,
        EnrollmentProofs!CompleteUnconfirmed, Enrollment!QueryAndComplete,
        EnrollmentProofs!QueryAndComplete, Enrollment!Leave, EnrollmentProofs!Leave,
        Enrollment!EnrollCancel, EnrollmentProofs!EnrollCancel, Enrollment!DeviceFrame,
        EnrollmentProofs!DeviceFrame, Enrollment!DeviceEnd, EnrollmentProofs!DeviceEnd,
        Enrollment!StartDevice, EnrollmentProofs!StartDevice, Enrollment!DeviceResume,
        EnrollmentProofs!DeviceResume, Enrollment!Certificate, EnrollmentProofs!Certificate,
        Enrollment!Renewed, EnrollmentProofs!Renewed, Enrollment!RecoveryScopeEndsAnySession,
        EnrollmentProofs!RecoveryScopeEndsAnySession, Enrollment!RecoveryScope,
        EnrollmentProofs!RecoveryScope, Enrollment!DeviceRestore, EnrollmentProofs!DeviceRestore,
        Enrollment!ScopeLapsed, EnrollmentProofs!ScopeLapsed, Enrollment!StoreStep,
        EnrollmentProofs!StoreStep, Enrollment!Fault, EnrollmentProofs!Fault, Enrollment!StoreFails,
        EnrollmentProofs!StoreFails, Enrollment!Forget, EnrollmentProofs!Forget,
        Enrollment!HelperLost, EnrollmentProofs!HelperLost, Enrollment!Crash,
        EnrollmentProofs!Crash, Enrollment!Rest, EnrollmentProofs!Rest, Enrollment!Init,
        EnrollmentProofs!Init, Enrollment!Next, EnrollmentProofs!Next, Enrollment!TypeOK,
        EnrollmentProofs!TypeOK, Enrollment!Identities, EnrollmentProofs!Identities,
        Enrollment!OneIdentity, EnrollmentProofs!OneIdentity, Enrollment!SpentIsResumable,
        EnrollmentProofs!SpentIsResumable, Enrollment!ResurrectionStep,
        EnrollmentProofs!ResurrectionStep, Enrollment!LoginStep, EnrollmentProofs!LoginStep
<1> QED BY <1>1, <1>2, <1>3, <1>4, <1>5, <1>6, <1>7, <1>8

\* The invariant at the start of the enrollments, after each step of theirs, and
\* what it says.
LEMMA EnrollmentKeeps ==
  /\ Enrollment!Init => EnrollmentProofs!IInv
  /\ EnrollmentProofs!IInv /\ Enrollment!Next => EnrollmentProofs!IInv'
  /\ EnrollmentProofs!IInv /\ Enrollment!Next =>
       \/ UNCHANGED EnrollmentProofs!vars
       \/ Enrollment!ResurrectionStep /\ Enrollment!LoginStep
  /\ EnrollmentProofs!IInv /\ UNCHANGED EnrollmentProofs!vars => EnrollmentProofs!IInv'
  /\ EnrollmentProofs!IInv => Enrollment!TypeOK /\ Enrollment!OneIdentity /\ Enrollment!SpentIsResumable
<1>1. Enrollment!Init => EnrollmentProofs!IInv BY EnrollmentIsProved, EnrollmentProofs!InitIInv
<1>2. ASSUME EnrollmentProofs!IInv, Enrollment!Next
      PROVE  /\ EnrollmentProofs!IInv'
             /\ [EnrollmentProofs!ResurrectionStep]_(EnrollmentProofs!vars)
             /\ [EnrollmentProofs!LoginStep]_(EnrollmentProofs!vars)
  <2>1. [EnrollmentProofs!Next]_(EnrollmentProofs!vars) BY <1>2, EnrollmentIsProved
  <2> QED BY <1>2, <2>1, EnrollmentIsProved, EnrollmentProofs!NextKeeps
<1>3. EnrollmentProofs!IInv /\ UNCHANGED EnrollmentProofs!vars => EnrollmentProofs!IInv' BY EnrollmentProofs!StutterKeeps
<1>4. EnrollmentProofs!IInv => Enrollment!TypeOK /\ Enrollment!OneIdentity /\ Enrollment!SpentIsResumable
  BY EnrollmentIsProved, EnrollmentProofs!IInvImplies
<1> QED BY <1>1, <1>2, <1>3, <1>4, EnrollmentIsProved

\* The logins of the run are those the proofs speak of.
LEMMA LoginIsProved ==
  /\ LoginProofs!Constants
  /\ Login!Init => LoginProofs!Init
  /\ Login!Next => LoginProofs!Next
  /\ LoginProofs!TypeOK => Login!TypeOK
  /\ LoginProofs!OneIdentity => Login!OneIdentity
  /\ LoginProofs!SpentIsResumable => Login!SpentIsResumable
  /\ LoginProofs!ResurrectionStep => Login!ResurrectionStep
  /\ LoginProofs!LoginStep => Login!LoginStep
<1> USE DEF Login!storeVars, LoginProofs!storeVars, Login!Slots, LoginProofs!Slots, Login!ProviderSlots,
        LoginProofs!ProviderSlots, Login!Absent, LoginProofs!Absent, Login!Corrupt,
        LoginProofs!Corrupt, Login!Pending, LoginProofs!Pending, Login!Credential,
        LoginProofs!Credential, Login!Session, LoginProofs!Session, Login!Records,
        LoginProofs!Records, Login!Nobody, LoginProofs!Nobody, Login!Clients, LoginProofs!Clients,
        Login!NoReply, LoginProofs!NoReply, Login!Ops, LoginProofs!Ops, Login!Writes,
        LoginProofs!Writes, Login!Job, LoginProofs!Job, Login!Jobs, LoginProofs!Jobs, Login!Settled,
        LoginProofs!Settled, Login!Busy, LoginProofs!Busy, Login!Enqueue, LoginProofs!Enqueue,
        Login!WellFormed, LoginProofs!WellFormed, Login!Routed, LoginProofs!Routed, Login!Migration,
        LoginProofs!Migration, Login!RoutedSession, LoginProofs!RoutedSession, Login!Clear,
        LoginProofs!Clear, Login!Put, LoginProofs!Put, Login!PrepareAdmitted,
        LoginProofs!PrepareAdmitted, Login!PreparePlan, LoginProofs!PreparePlan,
        Login!CompleteAdmitted, LoginProofs!CompleteAdmitted, Login!CompletePlanRetiresFirst,
        LoginProofs!CompletePlanRetiresFirst, Login!CompletePlan, LoginProofs!CompletePlan,
        Login!ReplaceAnyRegistration, LoginProofs!ReplaceAnyRegistration, Login!ReplaceAsUpsert,
        LoginProofs!ReplaceAsUpsert, Login!ReplaceAdmitted, LoginProofs!ReplaceAdmitted,
        Login!ReplacePlan, LoginProofs!ReplacePlan, Login!RemoveAdmitted,
        LoginProofs!RemoveAdmitted, Login!RemovePlan, LoginProofs!RemovePlan, Login!SaveSessionPlan,
        LoginProofs!SaveSessionPlan, Login!LoadSessionPlan, LoginProofs!LoadSessionPlan,
        Login!RemoveSessionPlan, LoginProofs!RemoveSessionPlan, Login!Admitted,
        LoginProofs!Admitted, Login!Plan, LoginProofs!Plan, Login!Answer, LoginProofs!Answer,
        Login!Finish, LoginProofs!Finish, Login!Begin, LoginProofs!Begin, Login!Lapsed,
        LoginProofs!Lapsed, Login!Write, LoginProofs!Write, Login!Fail, LoginProofs!Fail,
        Login!StoreInit, LoginProofs!StoreInit, Login!StoreTypeOK, LoginProofs!StoreTypeOK,
        Login!accountVars, LoginProofs!accountVars, Login!coordinator, LoginProofs!coordinator,
        Login!vars, LoginProofs!vars, Login!NoToken, LoginProofs!NoToken, Login!Idle,
        LoginProofs!Idle, Login!NoAccount, LoginProofs!NoAccount, Login!NoEnroll,
        LoginProofs!NoEnroll, Login!NoDevice, LoginProofs!NoDevice, Login!AccountOps,
        LoginProofs!AccountOps, Login!DeviceOps, LoginProofs!DeviceOps, Login!Quiet,
        LoginProofs!Quiet, Login!Asked, LoginProofs!Asked, Login!HasSession, LoginProofs!HasSession,
        Login!Accepts, LoginProofs!Accepts, Login!Request, LoginProofs!Request, Login!Release,
        LoginProofs!Release, Login!Refuse, LoginProofs!Refuse, Login!RestoreLoaded,
        LoginProofs!RestoreLoaded, Login!AdoptReply, LoginProofs!AdoptReply, Login!RestoreDropped,
        LoginProofs!RestoreDropped, Login!StartAccount, LoginProofs!StartAccount, Login!LoginReply,
        LoginProofs!LoginReply, Login!LoginPersisted, LoginProofs!LoginPersisted, Login!LogoutReply,
        LoginProofs!LogoutReply, Login!ReadReply, LoginProofs!ReadReply, Login!Retire,
        LoginProofs!Retire, Login!AsAccount, LoginProofs!AsAccount, Login!EnrollFrame,
        LoginProofs!EnrollFrame, Login!Register, LoginProofs!Register, Login!EnrollWhenMissing,
        LoginProofs!EnrollWhenMissing, Login!Join, LoginProofs!Join, Login!Load, LoginProofs!Load,
        Login!EnrollResume, LoginProofs!EnrollResume, Login!Submit, LoginProofs!Submit,
        Login!CompleteUnconfirmed, LoginProofs!CompleteUnconfirmed, Login!QueryAndComplete,
        LoginProofs!QueryAndComplete, Login!Leave, LoginProofs!Leave, Login!EnrollCancel,
        LoginProofs!EnrollCancel, Login!DeviceFrame, LoginProofs!DeviceFrame, Login!DeviceEnd,
        LoginProofs!DeviceEnd, Login!StartDevice, LoginProofs!StartDevice, Login!DeviceResume,
        LoginProofs!DeviceResume, Login!Certificate, LoginProofs!Certificate, Login!Renewed,
        LoginProofs!Renewed, Login!RecoveryScopeEndsAnySession,
        LoginProofs!RecoveryScopeEndsAnySession, Login!RecoveryScope, LoginProofs!RecoveryScope,
        Login!DeviceRestore, LoginProofs!DeviceRestore, Login!ScopeLapsed, LoginProofs!ScopeLapsed,
        Login!StoreStep, LoginProofs!StoreStep, Login!Fault, LoginProofs!Fault, Login!StoreFails,
        LoginProofs!StoreFails, Login!Forget, LoginProofs!Forget, Login!HelperLost,
        LoginProofs!HelperLost, Login!Crash, LoginProofs!Crash, Login!Rest, LoginProofs!Rest,
        Login!Init, LoginProofs!Init, Login!Next, LoginProofs!Next, Login!TypeOK,
        LoginProofs!TypeOK, Login!Identities, LoginProofs!Identities, Login!OneIdentity,
        LoginProofs!OneIdentity, Login!SpentIsResumable, LoginProofs!SpentIsResumable,
        Login!ResurrectionStep, LoginProofs!ResurrectionStep, Login!LoginStep, LoginProofs!LoginStep
<1>1. LoginProofs!Constants BY DEF LoginProofs!Constants
<1>2. Login!Init => LoginProofs!Init OBVIOUS
<1>3. Login!Next => LoginProofs!Next OBVIOUS
<1>4. LoginProofs!TypeOK => Login!TypeOK OBVIOUS
<1>5. LoginProofs!OneIdentity => Login!OneIdentity OBVIOUS
<1>6. LoginProofs!SpentIsResumable => Login!SpentIsResumable OBVIOUS
<1>7. LoginProofs!ResurrectionStep => Login!ResurrectionStep OBVIOUS
<1>8. LoginProofs!LoginStep => Login!LoginStep OBVIOUS
<1> HIDE DEF Login!storeVars, LoginProofs!storeVars, Login!Slots, LoginProofs!Slots, Login!ProviderSlots,
        LoginProofs!ProviderSlots, Login!Absent, LoginProofs!Absent, Login!Corrupt,
        LoginProofs!Corrupt, Login!Pending, LoginProofs!Pending, Login!Credential,
        LoginProofs!Credential, Login!Session, LoginProofs!Session, Login!Records,
        LoginProofs!Records, Login!Nobody, LoginProofs!Nobody, Login!Clients, LoginProofs!Clients,
        Login!NoReply, LoginProofs!NoReply, Login!Ops, LoginProofs!Ops, Login!Writes,
        LoginProofs!Writes, Login!Job, LoginProofs!Job, Login!Jobs, LoginProofs!Jobs, Login!Settled,
        LoginProofs!Settled, Login!Busy, LoginProofs!Busy, Login!Enqueue, LoginProofs!Enqueue,
        Login!WellFormed, LoginProofs!WellFormed, Login!Routed, LoginProofs!Routed, Login!Migration,
        LoginProofs!Migration, Login!RoutedSession, LoginProofs!RoutedSession, Login!Clear,
        LoginProofs!Clear, Login!Put, LoginProofs!Put, Login!PrepareAdmitted,
        LoginProofs!PrepareAdmitted, Login!PreparePlan, LoginProofs!PreparePlan,
        Login!CompleteAdmitted, LoginProofs!CompleteAdmitted, Login!CompletePlanRetiresFirst,
        LoginProofs!CompletePlanRetiresFirst, Login!CompletePlan, LoginProofs!CompletePlan,
        Login!ReplaceAnyRegistration, LoginProofs!ReplaceAnyRegistration, Login!ReplaceAsUpsert,
        LoginProofs!ReplaceAsUpsert, Login!ReplaceAdmitted, LoginProofs!ReplaceAdmitted,
        Login!ReplacePlan, LoginProofs!ReplacePlan, Login!RemoveAdmitted,
        LoginProofs!RemoveAdmitted, Login!RemovePlan, LoginProofs!RemovePlan, Login!SaveSessionPlan,
        LoginProofs!SaveSessionPlan, Login!LoadSessionPlan, LoginProofs!LoadSessionPlan,
        Login!RemoveSessionPlan, LoginProofs!RemoveSessionPlan, Login!Admitted,
        LoginProofs!Admitted, Login!Plan, LoginProofs!Plan, Login!Answer, LoginProofs!Answer,
        Login!Finish, LoginProofs!Finish, Login!Begin, LoginProofs!Begin, Login!Lapsed,
        LoginProofs!Lapsed, Login!Write, LoginProofs!Write, Login!Fail, LoginProofs!Fail,
        Login!StoreInit, LoginProofs!StoreInit, Login!StoreTypeOK, LoginProofs!StoreTypeOK,
        Login!accountVars, LoginProofs!accountVars, Login!coordinator, LoginProofs!coordinator,
        Login!vars, LoginProofs!vars, Login!NoToken, LoginProofs!NoToken, Login!Idle,
        LoginProofs!Idle, Login!NoAccount, LoginProofs!NoAccount, Login!NoEnroll,
        LoginProofs!NoEnroll, Login!NoDevice, LoginProofs!NoDevice, Login!AccountOps,
        LoginProofs!AccountOps, Login!DeviceOps, LoginProofs!DeviceOps, Login!Quiet,
        LoginProofs!Quiet, Login!Asked, LoginProofs!Asked, Login!HasSession, LoginProofs!HasSession,
        Login!Accepts, LoginProofs!Accepts, Login!Request, LoginProofs!Request, Login!Release,
        LoginProofs!Release, Login!Refuse, LoginProofs!Refuse, Login!RestoreLoaded,
        LoginProofs!RestoreLoaded, Login!AdoptReply, LoginProofs!AdoptReply, Login!RestoreDropped,
        LoginProofs!RestoreDropped, Login!StartAccount, LoginProofs!StartAccount, Login!LoginReply,
        LoginProofs!LoginReply, Login!LoginPersisted, LoginProofs!LoginPersisted, Login!LogoutReply,
        LoginProofs!LogoutReply, Login!ReadReply, LoginProofs!ReadReply, Login!Retire,
        LoginProofs!Retire, Login!AsAccount, LoginProofs!AsAccount, Login!EnrollFrame,
        LoginProofs!EnrollFrame, Login!Register, LoginProofs!Register, Login!EnrollWhenMissing,
        LoginProofs!EnrollWhenMissing, Login!Join, LoginProofs!Join, Login!Load, LoginProofs!Load,
        Login!EnrollResume, LoginProofs!EnrollResume, Login!Submit, LoginProofs!Submit,
        Login!CompleteUnconfirmed, LoginProofs!CompleteUnconfirmed, Login!QueryAndComplete,
        LoginProofs!QueryAndComplete, Login!Leave, LoginProofs!Leave, Login!EnrollCancel,
        LoginProofs!EnrollCancel, Login!DeviceFrame, LoginProofs!DeviceFrame, Login!DeviceEnd,
        LoginProofs!DeviceEnd, Login!StartDevice, LoginProofs!StartDevice, Login!DeviceResume,
        LoginProofs!DeviceResume, Login!Certificate, LoginProofs!Certificate, Login!Renewed,
        LoginProofs!Renewed, Login!RecoveryScopeEndsAnySession,
        LoginProofs!RecoveryScopeEndsAnySession, Login!RecoveryScope, LoginProofs!RecoveryScope,
        Login!DeviceRestore, LoginProofs!DeviceRestore, Login!ScopeLapsed, LoginProofs!ScopeLapsed,
        Login!StoreStep, LoginProofs!StoreStep, Login!Fault, LoginProofs!Fault, Login!StoreFails,
        LoginProofs!StoreFails, Login!Forget, LoginProofs!Forget, Login!HelperLost,
        LoginProofs!HelperLost, Login!Crash, LoginProofs!Crash, Login!Rest, LoginProofs!Rest,
        Login!Init, LoginProofs!Init, Login!Next, LoginProofs!Next, Login!TypeOK,
        LoginProofs!TypeOK, Login!Identities, LoginProofs!Identities, Login!OneIdentity,
        LoginProofs!OneIdentity, Login!SpentIsResumable, LoginProofs!SpentIsResumable,
        Login!ResurrectionStep, LoginProofs!ResurrectionStep, Login!LoginStep, LoginProofs!LoginStep
<1> QED BY <1>1, <1>2, <1>3, <1>4, <1>5, <1>6, <1>7, <1>8

\* The invariant at the start of the logins, after each step of theirs, and
\* what it says.
LEMMA LoginKeeps ==
  /\ Login!Init => LoginProofs!IInv
  /\ LoginProofs!IInv /\ Login!Next => LoginProofs!IInv'
  /\ LoginProofs!IInv /\ Login!Next =>
       \/ UNCHANGED LoginProofs!vars
       \/ Login!ResurrectionStep /\ Login!LoginStep
  /\ LoginProofs!IInv /\ UNCHANGED LoginProofs!vars => LoginProofs!IInv'
  /\ LoginProofs!IInv => Login!TypeOK /\ Login!OneIdentity /\ Login!SpentIsResumable
<1>1. Login!Init => LoginProofs!IInv BY LoginIsProved, LoginProofs!InitIInv
<1>2. ASSUME LoginProofs!IInv, Login!Next
      PROVE  /\ LoginProofs!IInv'
             /\ [LoginProofs!ResurrectionStep]_(LoginProofs!vars)
             /\ [LoginProofs!LoginStep]_(LoginProofs!vars)
  <2>1. [LoginProofs!Next]_(LoginProofs!vars) BY <1>2, LoginIsProved
  <2> QED BY <1>2, <2>1, LoginIsProved, LoginProofs!NextKeeps
<1>3. LoginProofs!IInv /\ UNCHANGED LoginProofs!vars => LoginProofs!IInv' BY LoginProofs!StutterKeeps
<1>4. LoginProofs!IInv => Login!TypeOK /\ Login!OneIdentity /\ Login!SpentIsResumable
  BY LoginIsProved, LoginProofs!IInvImplies
<1> QED BY <1>1, <1>2, <1>3, <1>4, LoginIsProved

\* The invariant of whichever of the two the behaviour is about.
IdentityInv ==
  /\ part = "enrollment" => EnrollmentProofs!IInv
  /\ part = "login" => LoginProofs!IInv

\* It holds at the start.
LEMMA IdentityStarts == ASSUME Init PROVE IdentityInv
BY EnrollmentKeeps, LoginKeeps
   DEF IdentityInv, Init, ConnectionsInit, OperationsInit, RuntimeInit, ServiceEditsInit,
       CallsInit, CatalogInit, EnrollmentInit, LoginInit

\* The variables of the run are those of the identity.
LEMMA IdentityVars ==
  /\ UNCHANGED vars => UNCHANGED EnrollmentProofs!vars /\ UNCHANGED LoginProofs!vars
                       /\ UNCHANGED part
  /\ UNCHANGED part /\ (UNCHANGED EnrollmentProofs!vars \/ UNCHANGED LoginProofs!vars) =>
       UNCHANGED vars
BY DEF vars, EnrollmentProofs!vars, EnrollmentProofs!storeVars, EnrollmentProofs!accountVars,
       EnrollmentProofs!coordinator, LoginProofs!vars, LoginProofs!storeVars,
       LoginProofs!accountVars, LoginProofs!coordinator

\* A step of the run keeps it and takes nothing back.
LEMMA IdentitySteps ==
  ASSUME IdentityInv, [Next]_vars
  PROVE  /\ IdentityInv'
         /\ [part = "enrollment" => Enrollment!ResurrectionStep /\ Enrollment!LoginStep]_vars
         /\ [part = "login" => Login!ResurrectionStep /\ Login!LoginStep]_vars
<1>1. CASE EnrollmentStep
  <2>1. part = "enrollment" /\ part' = part /\ Enrollment!Next /\ EnrollmentProofs!IInv
    BY <1>1 DEF EnrollmentStep, IdentityInv
  <2>2. /\ EnrollmentProofs!IInv'
        /\ \/ UNCHANGED EnrollmentProofs!vars
           \/ Enrollment!ResurrectionStep /\ Enrollment!LoginStep
    BY <2>1, EnrollmentKeeps
  <2> QED BY <2>1, <2>2, IdentityVars DEF IdentityInv
<1>2. CASE LoginStep
  <2>1. part = "login" /\ part' = part /\ Login!Next /\ LoginProofs!IInv
    BY <1>2 DEF LoginStep, IdentityInv
  <2>2. /\ LoginProofs!IInv'
        /\ \/ UNCHANGED LoginProofs!vars
           \/ Login!ResurrectionStep /\ Login!LoginStep
    BY <2>1, LoginKeeps
  <2> QED BY <2>1, <2>2, IdentityVars DEF IdentityInv
<1>3. CASE UNCHANGED vars
  BY <1>3, IdentityVars, EnrollmentKeeps, LoginKeeps DEF IdentityInv
<1>4. CASE Next /\ ~EnrollmentStep /\ ~LoginStep
  <2>1. part \notin {"enrollment", "login"} /\ part' = part
    BY <1>4 DEF Next, ConnectionsStep, OperationsStep, RuntimeStep, ServiceEditsStep,
             CallsStep, CatalogStep
  <2> QED BY <2>1 DEF IdentityInv
<1> QED BY <1>1, <1>2, <1>3, <1>4

\* Through failed writes, lost helpers, crashes, renewals, migrations and second
\* enrollments, every place that holds a registration holds the same enrollment's,
\* and an enrollment token that was spent is resumed by the next load until the
\* coordinator removed the device (credentials.ts load, complete, replace, remove;
\* enrollment.ts submit).
THEOREM OneResumableIdentityHolds == Spec => []OneResumableIdentity
<1>1. Init => IdentityInv BY IdentityStarts
<1>2. IdentityInv /\ [Next]_vars => IdentityInv' BY IdentitySteps
<1>3. IdentityInv => OneResumableIdentity
  BY EnrollmentKeeps, LoginKeeps DEF IdentityInv, OneResumableIdentity
<1> QED BY <1>1, <1>2, <1>3, PTL DEF Spec

\* A registration that leave removed comes back only as a new pending enrollment,
\* a damaged file is not written over (credentials.ts), and a login the coordinator
\* accepts ends only in a logout, with a failure or with the registration
\* (accounts.ts, session-registry.ts): no late refusal or restoration ends it.
THEOREM NothingIsTakenBackHolds == Spec => NothingIsTakenBack
<1>1. Init => IdentityInv BY IdentityStarts
<1>2. IdentityInv /\ [Next]_vars => IdentityInv' BY IdentitySteps
<1>3. IdentityInv /\ [Next]_vars =>
        /\ [part = "enrollment" => Enrollment!ResurrectionStep /\ Enrollment!LoginStep]_vars
        /\ [part = "login" => Login!ResurrectionStep /\ Login!LoginStep]_vars
  BY IdentitySteps
<1> QED BY <1>1, <1>2, <1>3, PTL DEF Spec, NothingIsTakenBack
=============================================================================
