------------------------------ MODULE PeerTabs ------------------------------
(***************************************************************************)
(* The tabs of the run page: src/app/shell/runtimeBrowserState.ts with     *)
(* RuntimeTabsPanel.vue, RuntimeTabStrip.vue and p2pConnections.ts.  A     *)
(* paired computer's page is mounted from an address that the main process *)
(* hands over for one attempt; the catalog and the stages change while it  *)
(* is being asked for.  A step is what runs between two awaits, with the   *)
(* two watchers that every change of the catalog or of the stages queues.  *)
(***************************************************************************)
EXTENDS Naturals, Sequences, FiniteSets, SequencesExt, TLC

CONSTANTS
  MaxPairs,  \* paired computers, in the order of the catalog
  MaxRev,    \* bounds the revisions of a pair
  MaxGen,    \* bounds the attempts of a pair
  MaxMoved,  \* bounds the computers that get a second revision
  None

VARIABLES
  computers,  \* the catalog: the state and revision of each computer
  views,      \* the connections last read: stage and generation of each
  opened,     \* the computers whose tab is open
  active,     \* the tab in front
  entries,    \* the address held for a computer, by the identity that owns it
  admitted,   \* the identity whose guest page was let in
  nav,        \* the page a tab has navigated to, by the identity it belongs to
  fetches,    \* the identity being asked about
  refused,    \* history: the identity last asked about in vain, and who refused
  loops,      \* the passes of loadPeerEntries waiting for an answer
  busy        \* of: the service of each computer; op: the operation of a service
              \* under way, a question about a computer, another one, or None

vars == <<computers, views, opened, active, entries, admitted, nav,
          fetches, refused, loops, busy>>

\* Tabs in their order: the local workbench, then the paired computers
Local == 0
Computers == 1..MaxPairs
\* "starting" stands for punching, starting and connected, "over" for failed and ended.
Stages == {"starting", "ready", "suspended", "over"}

\* The catalog as one pass of loadPeerEntries goes through it
Listing(cs) ==
  SelectSeq([p \in Computers |-> [id |-> p] @@ cs[p]],
            LAMBDA c : c.state # "absent")

\* The catalog binding and the attempt jointly own an entry.
peerEntryIdentity(c, v) == <<c.rev, v.gen>>
Identity(p) == peerEntryIdentity(computers[p], views[p])

\* What the watchers and the answers change
Tabs ==
  [computers |-> computers, views |-> views, opened |-> opened, active |-> active,
   entries |-> entries, admitted |-> admitted, nav |-> nav, fetches |-> fetches,
   refused |-> refused, loops |-> loops, busy |-> busy, waits |-> None, rest |-> <<>>,
   again |-> FALSE]

\* What was asked in vain is remembered while the identity it was about is current.
StillRefused(S, p) ==
  IF S.refused[p] # None /\ S.refused[p].id = peerEntryIdentity(S.computers[p], S.views[p])
  THEN S.refused[p] ELSE None

Becomes(S) ==
  /\ computers' = S.computers /\ views' = S.views /\ opened' = S.opened
  /\ active' = S.active /\ entries' = S.entries /\ admitted' = S.admitted
  /\ nav' = S.nav /\ fetches' = S.fetches
  /\ refused' = [p \in Computers |-> StillRefused(S, p)]
  /\ loops' = S.loops /\ busy' = S.busy

\* The address goes, the page the tab had navigated to stays
dropEntry(S, p) == [S EXCEPT !.entries[p] = None, !.admitted[p] = None]
drop(S, p) == [S EXCEPT !.entries[p] = None, !.admitted[p] = None, !.nav[p] = None]

retainsSuspendedGuest(S, c) ==
  LET p == c.id IN
  /\ c.state = "active" /\ S.views[p].stage = "suspended"
  /\ S.entries[p] = peerEntryIdentity(c, S.views[p])
  /\ S.admitted[p] = S.entries[p]

\* The attempt a question was about has been replaced.
Outdated(S, p, id) ==
  \/ S.computers[p].state # "active" \/ S.views[p].stage # "ready"
  \/ peerEntryIdentity(S.computers[p], S.views[p]) # id

\* The question about a computer.  While another operation of its service is
\* under way it is refused within the page, as having no address, and the pass
\* goes on; else main is asked, and the pass waits.
ask(S, p, id) ==
  LET scope == S.busy.of[p] IN
  IF S.busy.op[scope] # None
  THEN [S EXCEPT !.refused[p] = [id |-> id, by |-> "busy"], !.again = @ \/ Outdated(S, p, id)]
  ELSE [S EXCEPT !.fetches[p] = id, !.busy.op[scope] = p, !.refused[p] = None, !.waits = p]

\* One computer of a pass.  The computer is as it was when the pass began, its stage
\* is as it is now.
visit(S, c) ==
  LET p == c.id
      id == peerEntryIdentity(c, S.views[p])
  IN CASE S.waits # None -> [S EXCEPT !.rest = Append(@, c)]
       [] S.waits = None /\ retainsSuspendedGuest(S, c) -> S
       [] S.waits = None /\ ~retainsSuspendedGuest(S, c)
          /\ (c.state # "active" \/ S.views[p].stage # "ready") -> drop(S, p)
       [] S.waits = None /\ c.state = "active" /\ S.views[p].stage = "ready" ->
            IF S.entries[p] = id
            THEN [S EXCEPT !.admitted[p] = IF p \in S.opened THEN id ELSE @]
            ELSE IF S.fetches[p] # None THEN drop(S, p)
            ELSE ask(drop(S, p), p, id)

pass(S, list) ==
  LET T == FoldLeft(visit, [S EXCEPT !.waits = None, !.rest = <<>>, !.again = FALSE], list)
  IN IF T.waits = None THEN T
     ELSE [T EXCEPT !.loops = @ \cup {[on |-> T.waits, rest |-> T.rest]}]

\* A pass that was refused for a replaced attempt makes another one.
resume(S, list) ==
  LET T == pass(S, list) IN IF T.again THEN pass(T, Listing(T.computers)) ELSE T

loadPeerEntries(S) == resume(S, Listing(S.computers))

IsTab(S, t) == t = Local \/ t \in S.opened

\* The second watcher: what is no longer usable loses its page, what is no longer
\* there loses its tab.
Reconcile(S) ==
  LET there(p) == S.computers[p].state # "absent"
      usable(p) ==
        /\ S.computers[p].state = "active"
        /\ \/ S.views[p].stage = "ready"
           \/ retainsSuspendedGuest(S, [id |-> p] @@ S.computers[p])
      gone == {p \in S.opened : ~there(p)}
      T == [S EXCEPT
              !.opened = @ \ gone,
              !.admitted = [p \in Computers |-> IF p \in gone THEN None ELSE @[p]],
              !.entries = [p \in Computers |-> IF p \in gone THEN None ELSE @[p]],
              !.nav = [p \in Computers |-> IF there(p) /\ usable(p) THEN @[p] ELSE None]]
  IN [T EXCEPT !.active = IF IsTab(T, @) THEN @ ELSE Local]

\* The catalog or the connections were read again.
Watched(S) == \E T \in {Reconcile(loadPeerEntries(S))} : Becomes(T)

\* A pair that was revoked does not come back: another pairing has another id.
CatalogRead(p, state, rev) ==
  /\ CASE computers[p].state = "active" ->
            IF state = "active"
            THEN /\ rev = computers[p].rev + 1
                 /\ Cardinality({q \in Computers \ {p} : computers[q].rev > 1}) < MaxMoved
            ELSE rev = computers[p].rev
       [] computers[p].state = "revoked" -> state = "absent" /\ rev = 0
       [] computers[p].state = "absent" ->
            state = "active" /\ rev # 0 /\ rev = computers[p].rev
  /\ Watched([Tabs EXCEPT !.computers[p] = [state |-> state, rev |-> rev]])

\* A read that finds nothing new runs the watchers too.
ConnectionsRead(p, stage, gen) ==
  /\ \/ <<stage, gen>> = <<views[p].stage, views[p].gen>>
     \/ gen = views[p].gen /\ views[p].stage # "over" /\ stage # "starting"
     \/ gen = views[p].gen + 1 /\ gen <= MaxGen /\ stage # "over"
  /\ Watched([Tabs EXCEPT !.views[p] = [stage |-> stage, gen |-> gen]])

\* The answer to a question: the attempt it is about may have been replaced, and the
\* change that replaced it found this question under way and left it alone.  The pass
\* that asked then goes on.
Stored(S, p, id, found) ==
  IF ~found THEN [S EXCEPT !.entries[p] = None]
  ELSE [S EXCEPT !.entries[p] = id, !.admitted[p] = IF p \in S.opened THEN id ELSE @]

\* A stale answer is dropped, and nothing is asked in its place
AnsweredDrops(S, p, id, found) ==
  IF Outdated(S, p, id) THEN S
  ELSE Stored(S, p, id, found)

Answered(S, p, id, found) ==
  IF Outdated(S, p, id) THEN loadPeerEntries(S)
  ELSE Stored(S, p, id, found)

entry(p, found) ==
  /\ fetches[p] # None
  /\ LET S == [Tabs EXCEPT !.fetches[p] = None, !.busy.op[busy.of[p]] = None,
                           !.refused[p] = IF found THEN None
                                          ELSE [id |-> fetches[p], by |-> "main"],
                           !.loops = {l \in loops : l.on # p}]
         T == Answered(S, p, fetches[p], found)
         L == CHOOSE l \in loops : l.on = p
     IN \E U \in {resume(T, L.rest)} : Becomes(U)

\* Another operation of a service begins (connect, disconnect, a pairing write,
\* a read), when none is under way, and ends.
OtherOperation(scope) ==
  /\ \/ busy.op[scope] = None /\ busy' = [busy EXCEPT !.op[scope] = Local]
     \/ busy.op[scope] = Local /\ busy' = [busy EXCEPT !.op[scope] = None]
  /\ UNCHANGED <<computers, views, opened, active, entries, admitted, nav,
                 fetches, refused, loops>>

\* A page belongs to the tab's own identity, and only while that is usable.
ownsEntry(p) ==
  /\ entries[p] # None /\ entries[p] = Identity(p)
  /\ views[p].stage = "ready" \/ admitted[p] = entries[p]

peerTabStatus(p) == IF computers[p].state = "revoked" THEN "over" ELSE views[p].stage

Page(p) ==
  IF p \in opened /\ peerTabStatus(p) \in {"ready", "suspended"} /\ ownsEntry(p)
  THEN IF nav[p] # None THEN nav[p] ELSE entries[p] ELSE None

\* Every tab with a page stays mounted, the one in front is the one that shows.
Mounted == {p \in Computers : Page(p) # None}

\* A mounted page of the tab in front navigates within its own workbench.
syncFrom(p) ==
  /\ p = active /\ p \in Mounted /\ nav[p] = None
  /\ nav' = [nav EXCEPT ![p] = Page(p)]
  /\ UNCHANGED <<computers, views, opened, active, entries, admitted,
                 fetches, refused, loops, busy>>

openRemoteTab(p) ==
  /\ computers[p].state # "absent"
  /\ opened' = opened \cup {p} /\ active' = p
  /\ admitted' = [admitted EXCEPT ![p] =
       IF /\ computers[p].state = "active" /\ views[p].stage = "ready"
          /\ entries[p] = Identity(p)
       THEN entries[p] ELSE @]
  /\ UNCHANGED <<computers, views, entries, nav, fetches, refused, loops, busy>>

\* The tab in front gives way to its right neighbour, or else to its left one.
Neighbour(p) ==
  LET right == {q \in opened : q > p}
      left == {q \in opened \cup {Local} : q < p}
  IN IF right # {} THEN Min(right) ELSE Max(left)

\* Closing that forgets only the page
closeKeepsAdmission(p) ==
  /\ p \in opened /\ opened' = opened \ {p}
  /\ nav' = [nav EXCEPT ![p] = None]
  /\ active' = IF active = p THEN Neighbour(p) ELSE active
  /\ UNCHANGED <<computers, views, entries, admitted, fetches, refused, loops, busy>>

closeRemoteTab(p) ==
  /\ p \in opened /\ opened' = opened \ {p}
  /\ nav' = [nav EXCEPT ![p] = None]
  /\ admitted' = [admitted EXCEPT ![p] = None]
  /\ active' = IF active = p THEN Neighbour(p) ELSE active
  /\ UNCHANGED <<computers, views, entries, fetches, refused, loops, busy>>

closeTab(p) == closeRemoteTab(p)

selectTab(t) ==
  /\ IsTab(Tabs, t) /\ t # active /\ active' = t
  /\ UNCHANGED <<computers, views, opened, entries, admitted, nav, fetches, refused,
                 loops, busy>>

Init ==
  /\ computers = [p \in Computers |-> [state |-> "absent", rev |-> 1]]
  /\ views = [p \in Computers |-> [stage |-> "over", gen |-> 0]]
  /\ opened = {} /\ active = Local
  /\ entries = [p \in Computers |-> None] /\ admitted = [p \in Computers |-> None]
  /\ nav = [p \in Computers |-> None]
  /\ fetches = [p \in Computers |-> None] /\ refused = [p \in Computers |-> None]
  /\ loops = {}
  /\ \E of \in {[p \in Computers |-> 1], [p \in Computers |-> p]} :
       busy = [of |-> of, op |-> [p \in Computers |-> None]]

Next ==
  \/ \E p \in Computers :
       \/ \E s \in {"absent", "active", "revoked"}, r \in 0..MaxRev : CatalogRead(p, s, r)
       \/ \E s \in Stages, g \in 0..MaxGen : ConnectionsRead(p, s, g)
       \/ \E found \in BOOLEAN : entry(p, found)
       \/ openRemoteTab(p) \/ closeTab(p) \/ syncFrom(p)
  \/ \E scope \in Range(busy.of) : OtherOperation(scope)
  \/ \E t \in {Local} \cup Computers : selectTab(t)

Spec == Init /\ [][Next]_vars

Identities == (1..MaxRev) \X (0..MaxGen)
TypeOK ==
  /\ opened \subseteq Computers /\ IsTab(Tabs, active)
  /\ entries \in [Computers -> Identities \cup {None}]
  /\ admitted \in [Computers -> Identities \cup {None}]
  /\ fetches \in [Computers -> Identities \cup {None}]
  /\ \A l \in loops : busy.op[busy.of[l.on]] = l.on /\ fetches[l.on] # None

(* A mounted page belongs to the pair, revision and attempt its tab stands   *)
(* for now, not to one it has navigated to before (runtimeBrowserState.ts).  *)
PageIsCurrent == \A p \in Mounted : Page(p) = Identity(p)

(* A ready computer does not stay without a page: it is held, being asked    *)
(* for, or will be - unless main had no address for this very attempt, or    *)
(* the page turned the question away because another operation of the        *)
(* service was under way (runtimeBrowserState.ts loadPeerEntries,            *)
(* p2pManagement.ts run).                                                    *)
ServedOrAsked(p) ==
  \/ entries[p] = Identity(p) \/ fetches[p] # None
  \/ refused[p] = [id |-> Identity(p), by |-> "main"]
  \/ \E l \in loops : \E i \in DOMAIN l.rest : l.rest[i].id = p
TurnedAway(p) == refused[p] = [id |-> Identity(p), by |-> "busy"]
ReadyIsServed ==
  \A p \in Computers :
    (computers[p].state = "active" /\ views[p].stage = "ready") =>
      ServedOrAsked(p) \/ TurnedAway(p)

(* The same with main's refusal alone as excuse.  Refuted: a question turned *)
(* away is asked again by the next read of the catalog or the connections,   *)
(* and nothing makes one once the other operation has ended.                 *)
ReadyIsServedByMain ==
  \A p \in Computers :
    (computers[p].state = "active" /\ views[p].stage = "ready") => ServedOrAsked(p)

(* The page of a suspended computer is there until its tab is closed, the    *)
(* pair changes, or the connection leaves this attempt or the suspension -   *)
(* unless a pass that began before the pair last changed still has this      *)
(* computer to visit; and one that was not there before is not adopted       *)
(* (runtimeBrowserState.ts 249-257).                                         *)
Retains(p) ==
  (/\ views[p].stage = "suspended" /\ Page(p) # None
   /\ p \in opened' /\ computers'[p] = computers[p] /\ views'[p] = views[p])
    => Page(p)' = Page(p)
OldPass(p) ==
  \E l \in loops : \E i \in DOMAIN l.rest :
    l.rest[i].id = p /\ l.rest[i].rev # computers[p].rev
RetainedStep ==
  \A p \in Computers :
    /\ OldPass(p) \/ Retains(p)
    /\ (views'[p].stage = "suspended" /\ Page(p)' # None) => Page(p) = Page(p)'

(* Without the exception.  Refuted: a pass goes on, after an answer, over    *)
(* the catalog it began with, takes the page of the pair's newer revision    *)
(* for a stranger's and drops it (runtimeBrowserState.ts:246-262).           *)
SuspendedIsRetained == [][\A p \in Computers : Retains(p)]_vars
=============================================================================
