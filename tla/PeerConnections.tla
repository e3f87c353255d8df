--------------------------- MODULE PeerConnections ---------------------------
(***************************************************************************)
(* The peer connections of the desktop process: electron/main/p2p/         *)
(* connections.ts (one connect or disconnect per pair, and the revision    *)
(* that fences a workbench address), runtime-host.ts (the state recorded   *)
(* for a pair, admitted in arrival order across an asynchronous            *)
(* authorization), helper-state.ts (what may follow what),                 *)
(* workbench-entry.ts (reading the address of a ready workbench) and the   *)
(* authority removals of management.ts and management-authority.ts.        *)
(*                                                                         *)
(* One service with one paired computer.  An action is what the process    *)
(* runs between two awaits.  The core (another process) dials, announces   *)
(* the states of its attempt and edits the device catalog by itself; its   *)
(* frames come from several goroutines, so frames in flight arrive in any  *)
(* order.                                                                  *)
(***************************************************************************)
EXTENDS Naturals, Sequences, FiniteSets

CONSTANTS
  MaxAttempt,   \* attempts the core makes
  MaxWire,      \* announced states in flight or waiting for admission
  MaxOps        \* operations the renderer starts

VARIABLES
  cat,       \* the pair in the saved catalog: active, revoked by the core, removed
             \* here, or its service forgotten here
  core,      \* the core's state of the pair; Nothing before the first attempt
  made,      \* attempts the core has made
  wire,      \* announced states in flight
  record,    \* the state recorded for the pair
  seen,      \* the attempts remembered, most recent last
  chain,     \* state admissions, in arrival order
  conn,      \* the connect or disconnect under way
  entry,     \* the read of a workbench address under way
  removal,   \* the removal of authority under way
  up,        \* the host's lifetime has not ended
  ops        \* operations left

vars == <<cat, core, made, wire, record, seen, chain, conn, entry, removal, up, ops>>

\* A state: its attempt, stage and runtime generation.  The attempt stands for
\* its generation too, which never changes inside an attempt.
Nothing == [a |-> 0, s |-> "none", r |-> 0]
Idle == [pc |-> "idle"]
Stages == {"punching", "starting-runtime", "connected", "ready", "suspended",
           "failed", "disconnected"}
States == [a : 1..MaxAttempt, s : Stages, r : 0..1]
Terminal == {"failed", "disconnected"}

\* What a frame must satisfy to be a state at all: a connected pair has no
\* runtime yet, a ready one has.
parseHelperState(st) ==
  /\ st.s = "connected" => st.r = 0
  /\ st.s = "ready" => st.r > 0

Rank(s) == CASE s = "punching" -> 0 [] s = "starting-runtime" -> 1
             [] s = "connected" -> 2 [] s \in {"ready", "suspended"} -> 3
             [] s \in Terminal -> 4

\* Inside one attempt a state never goes back; a suspension is left only to
\* what it interrupted or to an end; another attempt is a new lineage.
assertStateProgress(p, n) ==
  \/ n.a # p.a
  \/ IF "suspended" \in {n.s, p.s}
     THEN \/ p.s \in {"connected", "ready", "suspended"} /\ n.s = "suspended" /\ n.r = p.r
          \/ p.s = "suspended" /\ n.s \in Terminal
          \/ /\ p.s = "suspended" /\ n.r = p.r
             /\ n.s = (IF p.r = 0 THEN "connected" ELSE "ready")
     ELSE Rank(n.s) >= Rank(p.s) /\ (p.s = "failed" => n.s = "failed")

rememberAttempt(a) ==
  LET known == \E i \in DOMAIN seen : seen[i] = a
      all == Append(seen, a)
  IN IF known THEN seen
     ELSE IF Len(all) > 4 THEN SubSeq(all, Len(all) - 3, Len(all)) ELSE all

\* The record admits a state of an attempt the host has already left.
sawAttemptNever(a) == FALSE

sawAttempt(a) == \E i \in DOMAIN seen : seen[i] = a

\* The catalog as read authorizes the pair.
authorize(saved) == saved = "active"

-----------------------------------------------------------------------------
\* The read of an address that a revision, a refused authorization or a changed
\* identity has overtaken: it is refused at its next check.
Refused(op) == IF op = Idle THEN op ELSE [op EXCEPT !.ok = FALSE]

(* The core: its attempts, what it announces, its own catalog edits. *)

Announce(sts) == wire' = wire \cup sts

Room(n) == Cardinality(wire) + Len(chain) + n <= MaxWire

Ended(st, how) == IF st = Nothing \/ st.s \in Terminal THEN {} ELSE {[st EXCEPT !.s = how]}

\* The core begins an attempt of its own: the other computer dialled, or the
\* reconnection engine did.
CoreAttempt ==
  /\ up /\ made < MaxAttempt /\ Room(2)
  /\ core' = [a |-> made + 1, s |-> "punching", r |-> 0]
  /\ made' = made + 1
  /\ Announce(Ended(core, "disconnected") \cup {core'})
  /\ UNCHANGED <<cat, record, seen, chain, conn, entry, removal, up, ops>>

Moves == {<<"punching", "connected">>, <<"punching", "failed">>, <<"connected", "ready">>,
          <<"ready", "suspended">>, <<"suspended", "ready">>, <<"ready", "failed">>}

\* The state of the core's attempt moves and is announced.
CoreProgress ==
  /\ up /\ core # Nothing /\ Room(1)
  /\ \E move \in Moves :
       /\ core.s = move[1]
       /\ core' = [core EXCEPT !.s = move[2], !.r = IF move[2] = "ready" THEN 1 ELSE @]
       /\ assertStateProgress(core, core')
       /\ Announce({core'})
  /\ UNCHANGED <<cat, made, record, seen, chain, conn, entry, removal, up, ops>>

\* The core revokes the pair itself, or edits the identity of the service.
CoreEdits ==
  /\ up
  /\ \/ cat = "active" /\ cat' = "revoked" /\ UNCHANGED entry
     \/ cat' = cat /\ entry' = Refused(entry)
  /\ removal' = IF removal.pc = "saving" /\ removal.kind # "service"
                THEN [removal EXCEPT !.fresh = FALSE] ELSE removal
  /\ UNCHANGED <<core, made, wire, record, seen, chain, conn, up, ops>>

\* catalog.changed: the announcement fences authorizations already reading.
CatalogChanged ==
  /\ up /\ \E i \in DOMAIN chain : chain[i].ok
  /\ chain' = [i \in DOMAIN chain |-> [chain[i] EXCEPT !.ok = FALSE]]
  /\ UNCHANGED <<cat, core, made, wire, record, seen, conn, entry, removal, up, ops>>

-----------------------------------------------------------------------------
(* Recording a state. *)

Link(st, reply) == [st |-> st, reply |-> reply, ok |-> FALSE]

connCurrent == up /\ conn.pc # "idle" /\ conn.current

\* The head of the admissions reads the catalog; the others wait for it.
Begun(links) ==
  IF links = <<>> THEN links
  ELSE <<[Head(links) EXCEPT !.ok = authorize(cat) /\ (Head(links).reply => connCurrent)]>>
         \o Tail(links)

Join(link) == IF chain = <<>> THEN Begun(<<link>>) ELSE Append(chain, link)

\* peer.state arrives: it joins the admissions of its pair.
PeerState ==
  \E st \in wire :
    /\ wire' = wire \ {st}
    /\ chain' = IF parseHelperState(st) THEN Join(Link(st, FALSE)) ELSE chain
    /\ UNCHANGED <<cat, core, made, record, seen, conn, entry, removal, up, ops>>

\* invalidate: a connect that captured the revision before it is not current.
Fenced(op) == IF op = Idle THEN op ELSE [op EXCEPT !.current = FALSE]

\* A connect's reply whose attempt the callbacks already recorded only confirms.
Confirms(link) == link.reply /\ conn.moved # "no" /\ record.a = link.st.a

\* Another lineage than the one recorded at its dispatch was recorded since.
Superseded(link) == link.reply /\ conn.moved = "other"

Recordable(link) ==
  /\ ~Superseded(link)
  /\ record # Nothing =>
       /\ link.st.a # record.a => ~sawAttempt(link.st.a)
       /\ assertStateProgress(record, link.st)

\* The read is back: the state is recorded, only confirmed, or refused; a
\* connect waiting for its reply to be recorded ends with it.
AdmitEnd ==
  /\ chain # <<>>
  /\ LET link == Head(chain)
         ok == up /\ (link.reply => connCurrent) /\ link.ok
         records == ok /\ ~Confirms(link) /\ Recordable(link)
     IN /\ chain' = Begun(Tail(chain))
        /\ record' = IF records THEN link.st ELSE record
        /\ seen' = IF records THEN rememberAttempt(link.st.a) ELSE seen
        /\ conn' = IF link.reply THEN Idle
                   ELSE IF records /\ conn.pc \notin {"idle", "dropping"}
                        THEN [conn EXCEPT !.moved = IF link.st.a # record.a THEN "other"
                                                    ELSE IF @ = "no" THEN "same" ELSE @]
                        ELSE conn
  /\ UNCHANGED <<cat, core, made, wire, entry, removal, up, ops>>

-----------------------------------------------------------------------------
(* connect, disconnect *)

Start == ops > 0 /\ ops' = ops - 1

\* connect: retires the addresses handed out before, names a generation and
\* asks the core; what is recorded now is what its reply may replace.
Connect ==
  /\ up /\ conn = Idle /\ made < MaxAttempt /\ Start
  /\ entry' = Refused(entry)
  /\ conn' = [pc |-> "dialled", current |-> TRUE, a |-> 0, moved |-> "no"]
  /\ UNCHANGED <<cat, core, made, wire, record, seen, chain, removal, up>>

\* The core replaces its attempt by the one asked for, or refuses.
CoreDials ==
  /\ conn.pc = "dialled" /\ up
  /\ \/ /\ made < MaxAttempt /\ Room(2)
        /\ core' = [a |-> made + 1, s |-> "punching", r |-> 0]
        /\ made' = made + 1
        /\ Announce(Ended(core, "disconnected") \cup {core'})
        /\ conn' = [conn EXCEPT !.pc = "accepted", !.a = made']
     \/ conn' = Idle /\ UNCHANGED <<core, made, wire>>
  /\ UNCHANGED <<cat, record, seen, chain, entry, removal, up, ops>>

\* The core answers with the state it has; with an error, or with the state of
\* another generation, which the connect refuses.
CoreReplies ==
  /\ conn.pc = "accepted" /\ up
  /\ \/ /\ core.s \in {"connected", "ready"} /\ core.a = conn.a
        /\ conn' = [conn EXCEPT !.pc = IF core.s = "ready" THEN "ready" ELSE "connected"]
     \/ /\ core.s \in Terminal \/ core.a # conn.a
        /\ conn' = Idle
  /\ UNCHANGED <<cat, core, made, wire, record, seen, chain, entry, removal, up, ops>>

\* The reply is read: still current, it is published.
ConnectReply ==
  /\ conn.pc \in {"connected", "ready"}
  /\ IF connCurrent
     THEN /\ conn' = [conn EXCEPT !.pc = "publishing"]
          /\ chain' = Join(Link([a |-> conn.a, s |-> conn.pc,
                                 r |-> IF conn.pc = "ready" THEN 1 ELSE 0], TRUE))
     ELSE conn' = Idle /\ UNCHANGED chain
  /\ UNCHANGED <<cat, core, made, wire, record, seen, entry, removal, up, ops>>

Disconnect ==
  /\ up /\ conn = Idle /\ Start
  /\ entry' = Refused(entry)
  /\ conn' = [pc |-> "dropping", current |-> TRUE]
  /\ UNCHANGED <<cat, core, made, wire, record, seen, chain, removal, up>>

CoreDrops ==
  /\ conn.pc = "dropping" /\ up
  /\ conn' = Idle
  /\ \/ Room(1) /\ Announce(Ended(core, "disconnected"))
        /\ core' = IF core # Nothing /\ core.s \notin Terminal
                   THEN [core EXCEPT !.s = "disconnected"] ELSE core
     \/ UNCHANGED <<core, wire>>
  /\ UNCHANGED <<cat, made, record, seen, chain, entry, removal, up, ops>>

-----------------------------------------------------------------------------
(* Reading the address of a ready workbench. *)

\* owner.admit: the host lives, the pair's revision is the one captured and no
\* connect or disconnect of it is under way.
guardEntry == up /\ entry.ok /\ conn = Idle

\* currentReady: the recorded state is ready, at the generation asked for.
currentReady(a) == record.s = "ready" /\ record.a = a

assertSameReady(st, a) == st.s = "ready" /\ st.a = a

\* entry, asked for a connection shown as ready: captures the guard and reads
\* the catalog.
Entry ==
  /\ up /\ entry = Idle /\ conn = Idle /\ record.s = "ready" /\ Start
  /\ entry' = [pc |-> "authorizing", clean |-> TRUE,
               ok |-> authorize(cat), a |-> record.a]
  /\ UNCHANGED <<cat, core, made, wire, record, seen, chain, conn, removal, up>>

EntryAuthorized ==
  /\ entry.pc = "authorizing"
  /\ entry' = IF guardEntry /\ currentReady(entry.a)
              THEN [entry EXCEPT !.pc = "asking"] ELSE Idle
  /\ UNCHANGED <<cat, core, made, wire, record, seen, chain, conn, removal, up, ops>>

\* peer.entry: the core proves its current ready gateway.  An answer for the
\* same ready state makes the catalog be read again; any other is refused.
EntryAnswered ==
  /\ entry.pc = "asking" /\ up
  /\ entry' = IF guardEntry /\ assertSameReady(core, entry.a)
              THEN [entry EXCEPT !.pc = "confirming", !.ok = authorize(cat)]
              ELSE Idle
  /\ UNCHANGED <<cat, core, made, wire, record, seen, chain, conn, removal, up, ops>>

EntryConfirmed == guardEntry /\ currentReady(entry.a)

\* The address is handed out, or refused.
EntryReturns ==
  /\ entry.pc = "confirming"
  /\ entry' = Idle
  /\ UNCHANGED <<cat, core, made, wire, record, seen, chain, conn, removal, up, ops>>

-----------------------------------------------------------------------------
(* Removing the authority of the pair. *)

\* Once the lifetime has ended every continuation refuses at its next check,
\* and calls in flight are rejected; a catalog write already asked for remains.
Ends(kept) ==
  /\ up' = FALSE /\ record' = kept
  /\ conn' = Idle /\ entry' = Idle /\ chain' = <<>> /\ wire' = {}
  /\ removal' = IF removal.pc = "asking" THEN Idle ELSE removal

\* History: a removal begun here since the address was asked for.
Unclean(op) == IF op = Idle THEN op ELSE [op EXCEPT !.clean = FALSE]

\* The addresses are retired only once the removal is saved.
RevokeLate ==
  /\ up /\ removal = Idle /\ Start
  /\ \E kind \in {"pair", "service"} :
       /\ kind = "service" => cat # "forgotten"
       /\ removal' = [pc |-> IF kind = "pair" THEN "asking" ELSE "saving", kind |-> kind,
                      fresh |-> TRUE]
  /\ entry' = Unclean(entry)
  /\ UNCHANGED <<cat, core, made, wire, record, seen, chain, conn, up>>

\* revokePair and removeService retire the pair's addresses before they ask
\* anyone, and again once the removal is saved.
Revoke ==
  /\ up /\ removal = Idle /\ Start
  /\ \E kind \in {"pair", "service"} :
       /\ kind = "service" => cat # "forgotten"
       /\ removal' = [pc |-> IF kind = "pair" THEN "asking" ELSE "saving", kind |-> kind,
                      fresh |-> TRUE]
  /\ entry' = Unclean(Refused(entry)) /\ conn' = Fenced(conn)
  /\ UNCHANGED <<cat, core, made, wire, record, seen, chain, up>>

\* deleteNetwork asks the core to drop the network first.
DeleteNetwork ==
  /\ up /\ removal = Idle /\ Start
  /\ removal' = [pc |-> "asking", kind |-> "network", fresh |-> TRUE]
  /\ UNCHANGED <<cat, core, made, wire, record, seen, chain, conn, entry, up>>

\* The server (for a pair) or the core (for a network) has done its part: the
\* catalog is read; a network's pairs are fenced here.
RemovalConfirmed ==
  /\ removal.pc = "asking" /\ up
  /\ removal' = [removal EXCEPT !.pc = "saving", !.fresh = TRUE]
  /\ IF removal.kind = "network"
     THEN entry' = Refused(entry) /\ conn' = Fenced(conn) ELSE UNCHANGED <<entry, conn>>
  /\ UNCHANGED <<cat, core, made, wire, record, seen, chain, up, ops>>

\* It refuses.  A network whose cleanup is refused closes the whole host.
RemovalRefused ==
  /\ removal.pc = "asking" /\ up
  /\ \/ /\ removal.kind = "pair" /\ removal' = Idle
        /\ UNCHANGED <<record, chain, conn, entry, wire, up>>
     \/ removal.kind = "network" /\ Ends(Nothing)
  /\ UNCHANGED <<cat, core, made, seen, ops>>

\* The catalog serializes its operations: a read and what follows it are not
\* interrupted by a write of this process.
Reading ==
  \/ entry.pc \in {"authorizing", "confirming"}
  \/ chain # <<>>

\* The commit: refused when the catalog is no longer the one read.
RemovalSaved ==
  /\ removal.pc = "saving" /\ ~Reading
  /\ removal' = IF removal.kind = "network" THEN Idle ELSE [removal EXCEPT !.pc = "saved"]
  /\ IF removal.kind = "service"
     THEN cat' = "forgotten"
     ELSE cat' = IF removal.fresh /\ cat # "forgotten" THEN "removed" ELSE cat
  /\ UNCHANGED <<core, made, wire, record, seen, chain, conn, entry, up, ops>>

\* The removal of a pair or service retires its addresses once more.
RemovalDone ==
  /\ removal.pc = "saved"
  /\ removal' = Idle
  /\ entry' = Refused(entry) /\ conn' = Fenced(conn)
  /\ UNCHANGED <<cat, core, made, wire, record, seen, chain, up, ops>>

-----------------------------------------------------------------------------
\* The channel to the core is lost: every recorded state fails and the
\* session's services close.
Unavailable ==
  /\ up
  /\ Ends(IF record = Nothing THEN record ELSE [record EXCEPT !.s = "failed"])
  /\ UNCHANGED <<cat, core, made, seen, ops>>

\* close: the records are dropped with the host.
Close ==
  /\ up \/ record # Nothing
  /\ Ends(Nothing)
  /\ UNCHANGED <<cat, core, made, seen, ops>>

Init ==
  /\ cat = "active"
  /\ core = Nothing /\ made = 0 /\ wire = {} /\ record = Nothing /\ seen = <<>>
  /\ chain = <<>> /\ conn = Idle /\ entry = Idle /\ removal = Idle
  /\ up = TRUE /\ ops = MaxOps

Next ==
  \/ CoreAttempt \/ CoreProgress \/ CoreEdits \/ CatalogChanged
  \/ PeerState \/ AdmitEnd
  \/ Connect \/ CoreDials \/ CoreReplies \/ ConnectReply \/ Disconnect \/ CoreDrops
  \/ Entry \/ EntryAuthorized \/ EntryAnswered \/ EntryReturns
  \/ Revoke \/ DeleteNetwork \/ RemovalConfirmed \/ RemovalRefused \/ RemovalSaved
  \/ RemovalDone
  \/ Unavailable \/ Close

Spec == Init /\ [][Next]_vars

-----------------------------------------------------------------------------
\* Type correctness.
TypeOK ==
  /\ cat \in {"active", "revoked", "removed", "forgotten"}
  /\ core \in States \cup {Nothing} /\ made \in 0..MaxAttempt
  /\ wire \subseteq States /\ Cardinality(wire) + Len(chain) <= MaxWire + 1
  /\ record \in States \cup {Nothing}
  /\ seen \in Seq(1..MaxAttempt) /\ Len(seen) <= 4
  /\ up \in BOOLEAN /\ ops \in 0..MaxOps

\* The recorded state is always of the newest attempt the host remembers: a
\* late frame, or a connect's late reply, never brings back an attempt that was
\* left (runtime-host.ts #recordState, "a late replay, and is refused").
NewestAttempt == record # Nothing => record.a = seen[Len(seen)]

\* A workbench address is handed out only for the attempt recorded as ready,
\* and never when this process has begun to revoke the pair or to forget its
\* service since the address was asked for, or has done so before
\* (management.ts entry, revokePair, removeService; connections.ts guardEntry).
EntryHonoursRemoval ==
  entry.pc = "confirming" /\ EntryConfirmed =>
    /\ entry.clean
    /\ cat \notin {"removed", "forgotten"}
    /\ up /\ conn = Idle /\ record.s = "ready"

=============================================================================
