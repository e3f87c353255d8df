---------------------------- MODULE PeerServices ----------------------------
(***************************************************************************)
(* The boundary between the saved services and the core: electron/main/    *)
(* p2p/services.ts (add, updateConfig, activate, forget) with the callers  *)
(* in management.ts.  One service.  An edit reads the catalog, has the     *)
(* core verify the endpoints, and commits on the revision it started from; *)
(* an activation reads, verifies and reads again, and is not blocked by an *)
(* edit under way.                                                         *)
(***************************************************************************)
EXTENDS Naturals

CONSTANTS
  Endpoints,  \* addresses the service may be saved under
  MaxVer      \* revisions of the catalog

VARIABLES
  saved,      \* the endpoints in the catalog; "none"
  forgotten,  \* the service was removed by the user
  ver,        \* the catalog's revision
  core,       \* the endpoints the core is configured with; "none"
  active,     \* the binding this process believes active; "none"
  edit,       \* the add or update under way (#adding)
  act,        \* the activation under way (#activating)
  closed

vars == <<saved, forgotten, ver, core, active, edit, act, closed>>

Idle == [pc |-> "idle"]

\* service.configure in the core: one address per service while it runs
configures(ep) == core \in {"none", ep}

\* add and updateConfig are admitted one at a time; an update also waits for
\* the activation.  The caller's revision may be out of date.
Begin(kind, ep, v) ==
  /\ ~closed /\ edit = Idle
  /\ kind = "update" => act = Idle
  /\ edit' = [pc |-> "read", kind |-> kind, ep |-> ep, ver |-> v, forgot |-> FALSE]
  /\ UNCHANGED <<saved, forgotten, ver, core, active, act, closed>>

\* What the snapshot must allow; an update is refused for a busy computer too.
mayEdit(e) ==
  /\ ~closed /\ e.ver = ver
  /\ IF e.kind = "add" THEN saved = "none" ELSE saved # "none" /\ ~forgotten

EditRead ==
  /\ edit.pc = "read"
  /\ \/ mayEdit(edit) /\ edit' = [edit EXCEPT !.pc = "configure", !.forgot = forgotten]
     \/ edit' = Idle
  /\ UNCHANGED <<saved, forgotten, ver, core, active, act, closed>>

\* The core may already be configured when the edit is then cancelled.
EditConfigured ==
  /\ edit.pc = "configure"
  /\ \/ /\ configures(edit.ep) /\ core' = edit.ep
        /\ edit' = IF closed \/ edit.forgot THEN Idle ELSE [edit EXCEPT !.pc = "commit"]
     \/ configures(edit.ep) /\ core' = edit.ep /\ edit' = Idle
     \/ UNCHANGED core /\ edit' = Idle
  /\ UNCHANGED <<saved, forgotten, ver, active, act, closed>>

\* The commit and what follows it before anything else runs: an added service
\* is active at once, an updated one is activated anew.
EditCommitted ==
  /\ edit.pc = "commit"
  /\ IF edit.ver = ver /\ ver < MaxVer
     THEN /\ saved' = edit.ep /\ ver' = ver + 1
          /\ active' = IF edit.kind = "add" THEN edit.ep ELSE "none"
     ELSE UNCHANGED <<saved, ver, active>>
  /\ edit' = Idle
  /\ UNCHANGED <<forgotten, core, act, closed>>

requireSaved == ~closed /\ ~forgotten /\ saved # "none"

\* Callers of the same service share one activation.
activate ==
  /\ ~closed /\ act = Idle
  /\ act' = [pc |-> "read"]
  /\ UNCHANGED <<saved, forgotten, ver, core, active, edit, closed>>

ActivateRead ==
  /\ act.pc = "read"
  /\ act' = IF requireSaved /\ active # saved THEN [pc |-> "configure", ep |-> saved] ELSE Idle
  /\ UNCHANGED <<saved, forgotten, ver, core, active, edit, closed>>

ActivateConfigured ==
  /\ act.pc = "configure"
  /\ \/ /\ configures(act.ep) /\ core' = act.ep
        /\ act' = IF closed THEN Idle ELSE [act EXCEPT !.pc = "again"]
     \/ UNCHANGED core /\ act' = Idle
  /\ UNCHANGED <<saved, forgotten, ver, active, edit, closed>>

\* The saved service is not read again.
ActivateAsRead ==
  /\ act.pc = "again"
  /\ active' = IF closed THEN active ELSE act.ep
  /\ act' = Idle
  /\ UNCHANGED <<saved, forgotten, ver, core, edit, closed>>

\* The saved service is read again: it may have moved while the core verified it.
ActivateAgain ==
  /\ act.pc = "again"
  /\ active' = IF requireSaved /\ saved = act.ep THEN saved ELSE active
  /\ act' = Idle
  /\ UNCHANGED <<saved, forgotten, ver, core, edit, closed>>

\* removeService: the catalog first, which also ends the core's account, then
\* forget drops the binding here
forget ==
  /\ ~closed /\ saved # "none" /\ ~forgotten /\ ver < MaxVer
  /\ saved' = "none" /\ forgotten' = TRUE /\ ver' = ver + 1
  /\ core' = "none" /\ active' = "none"
  /\ UNCHANGED <<edit, act, closed>>

\* Another part of the catalog changes.
OtherEdit ==
  /\ ver < MaxVer /\ ver' = ver + 1
  /\ UNCHANGED <<saved, forgotten, core, active, edit, act, closed>>

\* The core restarts: its accounts are gone and so is this session.
Close ==
  /\ ~closed /\ closed' = TRUE
  /\ active' = "none" /\ core' = "none"
  /\ UNCHANGED <<saved, forgotten, ver, edit, act>>

Init ==
  /\ saved \in Endpoints \cup {"none"} /\ forgotten = FALSE /\ ver = 0
  /\ core = "none" /\ active = "none" /\ edit = Idle /\ act = Idle
  /\ closed = FALSE

Next ==
  \/ \E kind \in {"add", "update"}, ep \in Endpoints, v \in 0..ver : Begin(kind, ep, v)
  \/ EditRead \/ EditConfigured \/ EditCommitted
  \/ activate \/ ActivateRead \/ ActivateConfigured \/ ActivateAgain
  \/ forget \/ OtherEdit \/ Close

TypeOK ==
  /\ {saved, core, active} \subseteq Endpoints \cup {"none"}
  /\ ver \in 0..MaxVer /\ {forgotten, closed} \subseteq BOOLEAN
  /\ edit.pc \in {"idle", "read", "configure", "commit"}
  /\ act.pc \in {"idle", "read", "configure", "again"}

(* A service believed active is the saved one, under the address the core    *)
(* really uses: an activation overlapping an update or a removal never       *)
(* leaves an old address active (services.ts #activate, updateConfig).       *)
ActiveIsSaved ==
  ~closed /\ active # "none" => active = saved /\ core = active /\ ~forgotten
=============================================================================
