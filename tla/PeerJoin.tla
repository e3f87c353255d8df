------------------------------ MODULE PeerJoin ------------------------------
(***************************************************************************)
(* How this computer joins a network, as the page keeps it: p2pEnrollment  *)
(* holds the registration, P2PJoinPanel.vue and P2PEnrollmentPanel.vue     *)
(* offer the steps.  One call of the service at a time; the desktop        *)
(* process carries it out (its own steps are those of PeerIdentity, here   *)
(* one step with all their outcomes) and the answer may be lost at any     *)
(* point.  Behind the page the account panel may remove this computer, the *)
(* desktop process may register it on its own, and accounts come and go.   *)
(***************************************************************************)
EXTENDS Naturals

CONSTANTS
  Users,  \* accounts
  MaxRev, \* bound on the enrollments the desktop process stores
  None    \* JavaScript's undefined

VARIABLES
  page,    \* the renderer's enrollment state
  op,      \* the call under way, or None
  list,    \* the read of the account's devices under way, or None
  session, \* the account signed in
  stored,  \* the registration the desktop process keeps, or None
  held,    \* enrollment requests the coordinator has recorded
  bound,   \* accounts this computer is bound to at the coordinator
  known,   \* whether the core has read the directory of this session
  last     \* the newest enrollment revision

vars == <<page, op, list, session, stored, held, bound, known, last>>

Pending(n, u) == [kind |-> "pending", rev |-> n, user |-> u]
Registered(n, u) == [kind |-> "registered", rev |-> n, user |-> u]
Kind(r) == IF r = None THEN "none" ELSE r.kind

state == [reg |-> None, unconfirmed |-> FALSE, retry |-> None, devices |-> None]

Call(m) == [m |-> m, rev |-> IF page.reg = None THEN 0 ELSE page.reg.rev,
            code |-> None, data |-> None, effect |-> FALSE]

----------------------------------------------------------------------------
(* What the page offers. *)

Begin(m) ==
  /\ op = None
  /\ op' = Call(m)
  /\ UNCHANGED <<list, session, stored, held, bound, known, last>>

read == Begin("registration") /\ UNCHANGED page

canJoin == page.reg = None /\ ~page.unconfirmed /\ op = None

join == canJoin /\ Begin("join") /\ UNCHANGED page

canRegister == canJoin /\ session # None
register == canRegister /\ Begin("register") /\ UNCHANGED page

cancelJoin == Kind(page.reg) = "pending" /\ Begin("cancelJoin") /\ UNCHANGED page

\* Leaving needs the account's own word.
leave == Kind(page.reg) = "registered" /\ session # None /\ Begin("leave") /\ UNCHANGED page

recover ==
  /\ Kind(page.reg) = "pending"
  /\ Begin("recover")
  /\ page' = [page EXCEPT !.retry = None]

\* A request is sent again only after a recovery found no trace of it.
canSubmit ==
  /\ Kind(page.reg) = "pending" /\ ~page.unconfirmed
  /\ page.retry = page.reg.rev /\ session = page.reg.user

submit == canSubmit /\ Begin("submit") /\ page' = [page EXCEPT !.retry = None]

----------------------------------------------------------------------------
(* What the desktop process makes of the call. *)

Reply(code, data, effect) ==
  op' = [op EXCEPT !.code = code, !.data = data, !.effect = effect]

Served(m) == op # None /\ op.m = m /\ op.code = None
Kept == UNCHANGED <<stored, held, bound, last>>

\* An answer lost with nothing done.
LostBefore ==
  /\ op # None /\ op.code = None
  /\ Reply("lost", None, FALSE) /\ Kept
  /\ UNCHANGED <<page, list, session, known>>

inspect ==
  /\ Served("registration") \/ Served("cancelJoin")
  /\ IF stored = None THEN Reply("credential_unavailable", None, FALSE)
     ELSE Reply("ok", stored, FALSE)
  /\ Kept /\ UNCHANGED <<page, list, session, known>>

\* The coordinator records the request; the answer that completes the local
\* record comes through, or is lost before or after that record is written.
Enroll(n, u) ==
  /\ held' = held \cup {n} /\ bound' = bound \cup {u}
  /\ \/ stored' = Registered(n, u) /\ Reply("ok", stored', TRUE)
     \/ stored' \in {Pending(n, u), Registered(n, u)} /\ Reply("lost", None, TRUE)

\* Registering saves the request first and then sends it.
Register ==
  /\ Served("register") /\ last < MaxRev
  /\ CASE session = None -> Reply("user_login_required", None, FALSE) /\ Kept
       [] session # None /\ stored # None -> Reply("credential_conflict", None, FALSE) /\ Kept
       [] OTHER ->
            \/ /\ stored' = Pending(last + 1, session) /\ last' = last + 1
               /\ \E code \in {"lost", "user_login_required"} : Reply(code, None, FALSE)
               /\ UNCHANGED <<held, bound>>
            \/ Enroll(last + 1, session) /\ last' = last + 1
  /\ UNCHANGED <<page, list, session, known>>

\* Joining sends first and saves what the coordinator answered.
Join ==
  /\ Served("join") /\ last < MaxRev
  /\ \/ Reply("network_full", None, FALSE) /\ Kept
     \/ \E u \in Users :
          \/ /\ held' = held \cup {last + 1} /\ bound' = bound \cup {u} /\ last' = last + 1
             /\ Reply(IF stored = None THEN "lost" ELSE "credential_conflict", None, TRUE)
             /\ UNCHANGED stored
          \/ stored = None /\ Enroll(last + 1, u) /\ last' = last + 1
  /\ UNCHANGED <<page, list, session, known>>

\* Both resumptions demand the same stored revision and the same account.
Resumable == Kind(stored) = "pending" /\ stored.rev = op.rev /\ session = stored.user

Recover ==
  /\ Served("recover")
  /\ CASE ~Resumable -> Reply("mismatch", None, FALSE) /\ UNCHANGED stored
       [] Resumable /\ stored.rev \notin held ->
            Reply("enrollment_not_found", None, FALSE) /\ UNCHANGED stored
       [] OTHER -> /\ stored' = Registered(stored.rev, stored.user)
                   /\ Reply("ok", stored', TRUE) \/ Reply("lost", None, TRUE)
  /\ UNCHANGED <<page, list, session, known, held, bound, last>>

Submit ==
  /\ Served("submit")
  /\ IF Resumable THEN Enroll(stored.rev, stored.user) /\ UNCHANGED last
     ELSE Reply("mismatch", None, FALSE) /\ Kept
  /\ UNCHANGED <<page, list, session, known>>

\* The local credential goes only after the coordinator confirmed.
Leave ==
  /\ Served("leave")
  /\ CASE session = None -> Reply("user_login_required", None, FALSE) /\ Kept
       [] session # None /\ Kind(stored) # "registered" ->
            Reply("device_unregistered", None, FALSE) /\ Kept
       [] OTHER -> /\ bound' = bound \ {session}
                   /\ \/ stored' = None /\ Reply("ok", None, TRUE)
                      \/ stored' \in {stored, None} /\ Reply("lost", None, TRUE)
                   /\ UNCHANGED <<held, last>>
  /\ UNCHANGED <<page, list, session, known>>

----------------------------------------------------------------------------
(* What the answer does to the page. *)

\* Mutation of refusedBeforeEffect: a conflict met when the coordinator's
\* answer is saved counts as a refusal.
refusedBeforeEffectLate ==
  {"user_login_required", "network_full", "service_busy", "credential_conflict"}

refusedBeforeEffect == {"user_login_required", "network_full", "service_busy"}

shown(s, r) == [s EXCEPT !.reg = r, !.retry = None, !.unconfirmed = Kind(r) = "pending"]
forgotten(s) == [s EXCEPT !.reg = None, !.unconfirmed = FALSE, !.retry = None]
doubted(s, code) == [s EXCEPT !.unconfirmed = @ \/ code \notin refusedBeforeEffect]

registrationAnswered(s, o) == IF o.code = "ok" THEN shown(s, o.data) ELSE s

registerAnswered(s, o) ==
  IF o.code = "ok" THEN [s EXCEPT !.reg = o.data] ELSE doubted(s, o.code)

joinAnswered(s, o) == IF o.code = "ok" THEN shown(s, o.data) ELSE doubted(s, o.code)

cancelJoinAnswered(s, o) ==
  CASE o.code = "ok" -> shown(s, o.data)
    [] o.code = "credential_unavailable" -> forgotten(s)
    [] OTHER -> s

leaveAnswered(s, o) == IF o.code = "ok" THEN forgotten(s) ELSE doubted(s, o.code)

\* Mutation of recoverAnswered: any failed recovery permits a second sending.
recoverAnsweredAny(s, o) ==
  IF o.code = "ok" THEN [s EXCEPT !.reg = o.data, !.unconfirmed = FALSE]
  ELSE [s EXCEPT !.unconfirmed = FALSE, !.retry = o.rev]

recoverAnswered(s, o) ==
  CASE o.code = "ok" -> [s EXCEPT !.reg = o.data, !.unconfirmed = FALSE]
    [] o.code = "enrollment_not_found" -> [s EXCEPT !.unconfirmed = FALSE, !.retry = o.rev]
    [] OTHER -> [s EXCEPT !.unconfirmed = TRUE]

submitAnswered(s, o) ==
  IF o.code = "ok" THEN [s EXCEPT !.reg = o.data, !.unconfirmed = FALSE]
  ELSE [s EXCEPT !.unconfirmed = TRUE]

Answer ==
  /\ op # None /\ op.code # None
  /\ page' = CASE op.m = "registration" -> registrationAnswered(page, op)
               [] op.m = "register" -> registerAnswered(page, op)
               [] op.m = "join" -> joinAnswered(page, op)
               [] op.m = "cancelJoin" -> cancelJoinAnswered(page, op)
               [] op.m = "leave" -> leaveAnswered(page, op)
               [] op.m = "recover" -> recoverAnswered(page, op)
               [] op.m = "submit" -> submitAnswered(page, op)
  /\ op' = None
  /\ UNCHANGED <<list, session, stored, held, bound, known, last>>

----------------------------------------------------------------------------
(* The account's own list of devices, and the accounts. *)

\* Asked for whenever the account or the registration changes; a directory
\* the core has not read yet leaves the list as it is.
readAccountDevices ==
  /\ list = None /\ session # None /\ Kind(page.reg) = "registered"
  /\ list' = [user |-> session, answer |-> IF known THEN session \in bound ELSE None]
  /\ UNCHANGED <<page, op, session, stored, held, bound, known, last>>

DevicesAnswered ==
  /\ list # None
  /\ list' = None
  /\ page' = IF list.answer = None THEN page
             ELSE [page EXCEPT !.devices = [user |-> list.user, has |-> list.answer]]
  /\ UNCHANGED <<op, session, stored, held, bound, known, last>>

foreignIdentity ==
  /\ Kind(page.reg) = "registered" /\ session # None /\ session # page.reg.user
  /\ page.devices # None /\ ~page.devices.has

SignIn(u) ==
  /\ session = None /\ op = None
  /\ session' = u /\ known' = FALSE
  /\ UNCHANGED <<page, op, list, stored, held, bound, last>>

SignOut ==
  /\ session # None
  /\ session' = None /\ known' = FALSE
  /\ UNCHANGED <<page, op, list, stored, held, bound, last>>

\* External: the core reads the directory of the session it was given.
DirectoryRead ==
  /\ session # None /\ ~known
  /\ known' = TRUE
  /\ UNCHANGED <<page, op, list, session, stored, held, bound, last>>

\* The account panel removes this computer without telling this page.
removeDevice ==
  /\ op = None /\ session # None /\ Kind(stored) = "registered"
  /\ stored' = None /\ bound' = bound \ {session}
  /\ UNCHANGED <<page, op, list, session, held, known, last>>

\* The desktop process registers a computer that has no identity.
enrollWhenMissing ==
  /\ op = None /\ session # None /\ stored = None /\ last < MaxRev
  /\ last' = last + 1
  /\ stored' \in {Pending(last', session), Registered(last', session)}
  /\ held' = held \cup {last'} /\ bound' = bound \cup {session}
  /\ UNCHANGED <<page, op, list, session, known>>

----------------------------------------------------------------------------
Init ==
  /\ page = state /\ op = None /\ list = None /\ session = None /\ known = FALSE
  /\ held = {} /\ last = 0
  /\ \/ stored = None /\ bound = {}
     \/ \E u \in Users : stored = Registered(0, u) /\ bound \in {{u}, Users}

Page == read \/ join \/ register \/ cancelJoin \/ leave \/ recover \/ submit \/ Answer
Desktop == LostBefore \/ inspect \/ Register \/ Join \/ Recover \/ Submit \/ Leave
Accounts == (\E u \in Users : SignIn(u)) \/ SignOut \/ DirectoryRead \/ removeDevice
            \/ enrollWhenMissing \/ readAccountDevices \/ DevicesAnswered

Next == Page \/ Desktop \/ Accounts

Spec == Init /\ [][Next]_vars

----------------------------------------------------------------------------
\* The page, its calls and the stored registration are well formed.
TypeOK ==
  /\ Kind(page.reg) \in {"none", "pending", "registered"}
  /\ page.unconfirmed \in BOOLEAN
  /\ page.retry \in 0 .. MaxRev \cup {None}
  /\ op # None => op.rev \in 0 .. MaxRev /\ op.effect \in BOOLEAN
  /\ session \in Users \cup {None} /\ bound \subseteq Users /\ held \subseteq 1 .. MaxRev

\* A join, registration or second sending that took effect at the coordinator
\* is shown or doubted: the page never offers to join again as if nothing had
\* happened.
\* And a request is offered for a second sending only while the coordinator
\* holds no record of the first.
NothingIsForgotten ==
  /\ op # None /\ op.code # None /\ op.effect /\ op.m \in {"join", "register", "submit"}
     => LET s == CASE op.m = "join" -> joinAnswered(page, op)
                   [] op.m = "register" -> registerAnswered(page, op)
                   [] OTHER -> submitAnswered(page, op)
        IN s.reg # None \/ s.unconfirmed
  /\ op = None /\ canSubmit => page.reg.rev \notin held

\* P2PJoinPanel.vue reports a foreign identity only from the device list of
\* the account that is signed in.
ForeignIsProven == foreignIdentity => page.devices.user = session

=============================================================================
