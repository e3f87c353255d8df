------------------------------ MODULE RemoteSSH ------------------------------
(***************************************************************************)
(* One computer reached over SSH: the page's list and editor               *)
(* (useRemoteConnections.ts, useRemoteConnectionEditor.ts and their        *)
(* panels), the launcher's service (electron/main/remote/service.ts over   *)
(* electron/main/core/remote-route.ts) and the core's catalog and route    *)
(* (networking/internal/remoteconnections, remoteroute), which the service *)
(* drives by calls that are served concurrently, may outlive the shell's   *)
(* 30-second budget and are never withdrawn from the core.                 *)
(*                                                                         *)
(* A step is what runs between two awaits.  A read of the catalog or of    *)
(* the route and the continuation that uses it are one step; a call that   *)
(* changes the core is sent, served and resumed in three.                  *)
(*                                                                         *)
(* A configuration is a number and its SSH parameters are Ssh of it, so    *)
(* that two configurations may differ in the display name alone; the       *)
(* revision the core derives from a configuration is the configuration.    *)
(***************************************************************************)
EXTENDS Naturals, FiniteSets

CONSTANTS
  Configs,   \* the configurations of the computer, positive numbers
  Slots,     \* how many operations may be in flight at once
  MaxCalls,  \* how many operations the person starts
  MaxLate    \* how many abandoned calls the core may still be serving

VARIABLES
  core,  \* the catalog entry and whether the route holds a generation
  late,  \* the calls the shell gave up on and the core still serves
  shell, \* the service's maps: status, test result, and the three marks
  op,    \* the operations in flight
  page   \* what the page shows, the editor holds, and whether the last thing
         \* the person was told is that the computer is disconnected; and how
         \* many operations were started

vars == <<core, late, shell, op, page>>

Gone == 0
Ssh(c) == c \div 2
Idle == [kind |-> "none", pc |-> "idle", want |-> Gone, seen |-> Gone,
         expected |-> Gone, changes |-> FALSE, ans |-> "none"]

Kinds == {"test", "connect", "disconnect", "remove", "update", "create"}
Pcs == {"idle", "find", "announce", "core", "down", "settle", "readback"}
Entry == Configs \cup {Gone}
Op == [kind : Kinds \cup {"none"}, pc : Pcs, want : Entry, seen : Entry,
       expected : Entry, changes : BOOLEAN, ans : {"none", "ok", "refused", "lost"}]
Late == [call : {"connect", "disconnect", "update", "remove", "create"},
         want : Entry, seen : Entry, expected : Entry]

TypeOK ==
  /\ core \in [config : Entry, live : BOOLEAN]
  /\ late \subseteq Late
  /\ Cardinality(late) <= MaxLate
  /\ shell \in [status : {"disconnected", "connecting", "ready", "failed"},
                test : {"untested", "testing", "passed", "failed"},
                editing : BOOLEAN, busy : BOOLEAN, disconnecting : BOOLEAN]
  /\ op \in [Slots -> Op]
  /\ page \in [shown : Entry,
               status : {"disconnected", "connecting", "ready", "failed"},
               pending : Kinds \cup {"none"}, loading : BOOLEAN,
               addOpen : BOOLEAN, original : Entry, draft : Entry,
               discardRequested : BOOLEAN, stopped : BOOLEAN, calls : 0..MaxCalls]

Init ==
  /\ core \in [config : Configs, live : {FALSE}]
  /\ late = {}
  /\ shell = [status |-> "disconnected", test |-> "untested", editing |-> FALSE,
              busy |-> FALSE, disconnecting |-> FALSE]
  /\ op = [s \in Slots |-> Idle]
  /\ page = [shown |-> core.config, status |-> "disconnected", pending |-> "none",
             loading |-> FALSE, addOpen |-> FALSE, original |-> Gone,
             draft |-> Gone, discardRequested |-> FALSE, stopped |-> FALSE,
             calls |-> 0]

----------------------------------------------------------------------------
\* The core: one catalog entry and at most one recorded generation

\* Store.Update: the whole entry, and only over the configuration expected
catalogUpdate(c, call) ==
  IF c.config # Gone /\ c.config = call.expected
    THEN [c EXCEPT !.config = call.want] ELSE c
catalogUpdateServed(c, call) == c.config # Gone /\ c.config = call.expected

\* what each call leaves in the core, and whether it is answered or refused
served(c, call) ==
  CASE call.call = "connect" -> [c EXCEPT !.live = TRUE]
    [] call.call = "disconnect" -> [c EXCEPT !.live = FALSE]
    [] call.call = "update" -> catalogUpdate(c, call)
    [] call.call = "remove" -> [c EXCEPT !.config = Gone]
    [] call.call = "create" -> c   \* another computer, with an identity of its own
accepts(c, call) ==
  CASE call.call = "connect" -> ~c.live
    [] call.call = "disconnect" -> c.live
    [] call.call = "update" -> catalogUpdateServed(c, call)
    [] call.call = "remove" -> c.config # Gone
    [] call.call = "create" -> TRUE

\* The call an operation has outstanding at the core
callOf(o) == [call |-> IF o.pc = "down" THEN "disconnect"
                       ELSE IF o.kind = "test" THEN "connect" ELSE o.kind,
              want |-> o.want, seen |-> o.seen, expected |-> o.expected]
Outstanding(s) == op[s].pc \in {"core", "down"} /\ op[s].ans = "none"

\* A call is served: it has its effect and an answer, or it is refused.  A
\* connection attempt and the entry of another computer may fail whatever the
\* core holds of this one.
CoreServes(s) ==
  /\ Outstanding(s)
  /\ \/ /\ accepts(core, callOf(op[s]))
        /\ core' = served(core, callOf(op[s]))
        /\ op' = [op EXCEPT ![s].ans = "ok"]
     \/ /\ ~accepts(core, callOf(op[s])) \/ callOf(op[s]).call \in {"connect", "create"}
        /\ op' = [op EXCEPT ![s].ans = "refused"]
        /\ UNCHANGED core
  /\ UNCHANGED <<late, shell, page>>

\* The shell's budget runs out first; the core is not told and serves it later
budget(s) ==
  /\ Outstanding(s)
  /\ Cardinality(late \cup {callOf(op[s])}) <= MaxLate
  /\ late' = late \cup {callOf(op[s])}
  /\ op' = [op EXCEPT ![s].ans = "lost"]
  /\ UNCHANGED <<core, shell, page>>
LateServed ==
  /\ \E call \in late :
       /\ late' = late \ {call}
       /\ core' = IF accepts(core, call) THEN served(core, call) ELSE core
  /\ UNCHANGED <<shell, op, page>>
\* A forward that dies is retired by the core, which tells nobody
retire ==
  /\ core.live
  /\ core' = [core EXCEPT !.live = FALSE]
  /\ UNCHANGED <<late, shell, op, page>>

----------------------------------------------------------------------------
\* The service in the launcher's main process

assertNotEditing == ~shell.editing /\ ~shell.disconnecting
admitted(kind) ==
  CASE kind \in {"connect", "test"} ->
         /\ assertNotEditing
         /\ shell.status \notin {"connecting", "ready"}
         /\ ~shell.busy
    [] kind \in {"disconnect", "update", "remove"} -> assertNotEditing
    [] OTHER -> TRUE
\* The marks an operation takes before its first await
entered(kind) ==
  [shell EXCEPT !.editing = @ \/ kind \in {"update", "remove"},
                !.disconnecting = @ \/ kind = "disconnect"]

\* #connections: the status follows the generation the core reports
connections(sh) ==
  IF core.config = Gone THEN sh
  ELSE [sh EXCEPT !.status = IF core.live THEN "ready"
                             ELSE IF @ = "ready" THEN "disconnected" ELSE @]
\* #project and #emit, as the page receives them: its publish
publish(p, sh) == [p EXCEPT !.shown = core'.config, !.status = sh.status]

\* An operation's `finally`, and the page's: the mark goes if it is its own
released(o, sh) ==
  CASE o.kind \in {"connect", "test"} -> [sh EXCEPT !.busy = FALSE]
    [] o.kind = "disconnect" -> [sh EXCEPT !.disconnecting = FALSE]
    [] o.kind \in {"update", "remove"} -> [sh EXCEPT !.editing = FALSE]
    [] OTHER -> sh
settled(o, p) ==
  IF o.kind = "create" THEN [p EXCEPT !.loading = FALSE]
  ELSE IF o.kind = "update" \/ p.pending = o.kind THEN [p EXCEPT !.pending = "none"]
  ELSE p
clear(p) == [p EXCEPT !.original = Gone, !.draft = Gone, !.discardRequested = FALSE]
\* What a confirmed answer lets the page do beyond showing the state
accepted(o, p) ==
  CASE o.kind = "update" -> clear(p)
    [] o.kind = "create" -> [p EXCEPT !.addOpen = FALSE]
    [] o.kind = "disconnect" -> [p EXCEPT !.stopped = TRUE]
    [] OTHER -> p

Ends(s) == op' = [op EXCEPT ![s] = Idle]
\* The operation answers with the state, or is refused and leaves it as it was
Answers(s, sh) ==
  /\ Ends(s)
  /\ shell' = released(op[s], sh)
  /\ page' = accepted(op[s], settled(op[s], publish(page, sh)))
Refuses(s, sh) ==
  /\ Ends(s)
  /\ shell' = released(op[s], sh)
  /\ page' = settled(op[s], page)

\* #find: the entry is read; connect and test take their mark only now, and
\* an update or a removal is admitted against the marks of this moment
changedConnectionParameters(o) == Ssh(core.config) # Ssh(o.want)
maySend(o) ==
  CASE o.kind = "update" -> changedConnectionParameters(o)
                              => ~shell.busy /\ shell.status = "disconnected"
    [] o.kind = "remove" -> ~shell.busy /\ shell.status = "disconnected"
    [] OTHER -> TRUE
find(s) ==
  /\ op[s].pc = "find"
  /\ UNCHANGED <<core, late>>
  /\ \/ /\ core.config # Gone /\ maySend(op[s])
        /\ op' = [op EXCEPT
                    ![s].pc = IF op[s].kind \in {"connect", "test"}
                                THEN "announce" ELSE "core",
                    ![s].changes = op[s].kind = "update"
                                     /\ changedConnectionParameters(op[s])]
        /\ shell' = CASE op[s].kind = "connect" ->
                           [shell EXCEPT !.busy = TRUE, !.status = "connecting"]
                     [] op[s].kind = "test" ->
                           [shell EXCEPT !.busy = TRUE, !.test = "testing"]
                     [] OTHER -> shell
        /\ UNCHANGED page
     \/ Refuses(s, shell)   \* not found, not admitted, or the read failed

\* The state is announced before the call is made.  The await stands outside
\* the try: a failed read ends the operation and its mark stays.
announce(s) ==
  /\ op[s].pc = "announce"
  /\ UNCHANGED <<core, late>>
  /\ \/ /\ shell' = connections(shell)
        /\ page' = publish(page, shell')
        /\ op' = [op EXCEPT ![s].pc = "core"]
     \/ /\ Ends(s)
        /\ page' = settled(op[s], page)
        /\ UNCHANGED shell

\* connect resumed; its failure is recorded in both maps
connectFailed(sh) == [sh EXCEPT !.status = "failed", !.test = "failed"]
connectResumed(s) ==
  /\ op[s].kind = "connect" /\ op[s].pc = "core" /\ op[s].ans # "none"
  /\ UNCHANGED <<core, late, page>>
  /\ shell' = IF op[s].ans = "ok"
                THEN [shell EXCEPT !.status = "ready", !.test = "passed"]
                ELSE connectFailed(shell)
  /\ op' = [op EXCEPT ![s].pc = "settle"]
\* test resumed: a connection that came up is closed again before it passes
testResumed(s) ==
  /\ op[s].kind = "test" /\ op[s].pc \in {"core", "down"} /\ op[s].ans # "none"
  /\ UNCHANGED <<core, late, page>>
  /\ IF op[s].pc = "core" /\ op[s].ans = "ok"
       THEN /\ op' = [op EXCEPT ![s].pc = "down", ![s].ans = "none"]
            /\ UNCHANGED shell
       ELSE /\ shell' = [shell EXCEPT !.test = IF op[s].ans = "ok" THEN "passed"
                                              ELSE "failed"]
            /\ op' = [op EXCEPT ![s].pc = "settle"]
\* disconnect resumed: nothing being connected is as good as disconnected
disconnectResumed(s) ==
  /\ op[s].kind = "disconnect" /\ op[s].pc = "core" /\ op[s].ans # "none"
  /\ UNCHANGED <<core, late>>
  /\ IF op[s].ans = "lost" THEN Refuses(s, shell)
     ELSE /\ shell' = [shell EXCEPT
                         !.status = "disconnected",
                         !.test = IF @ = "testing" THEN "untested" ELSE @]
          /\ op' = [op EXCEPT ![s].pc = "settle", ![s].ans = "ok"]
          /\ UNCHANGED page

\* The last read of connect, test and disconnect.  An operation that failed
\* announces the state it left and is refused all the same.
settle(s) ==
  /\ op[s].pc = "settle"
  /\ UNCHANGED <<core, late>>
  /\ \/ op[s].ans = "ok" /\ Answers(s, connections(shell))
     \/ /\ op[s].ans # "ok"
        /\ Ends(s)
        /\ shell' = released(op[s], connections(shell))
        /\ page' = settled(op[s], publish(page, connections(shell)))
     \/ \* the read fails: connect and test record a failure first
        Refuses(s, CASE op[s].kind = "connect" -> connectFailed(shell)
                     [] op[s].kind = "test" -> [shell EXCEPT !.test = "failed"]
                     [] OTHER -> shell)

\* update, remove and create resumed: the answer is the catalog itself
forgotten(sh) == [sh EXCEPT !.status = "disconnected", !.test = "untested"]
changed(o) ==
  IF o.kind = "remove" \/ o.changes THEN forgotten(shell) ELSE shell
writeResumed(s) ==
  /\ op[s].kind \in {"update", "remove", "create"}
  /\ op[s].pc = "core" /\ op[s].ans # "none"
  /\ UNCHANGED <<core, late>>
  /\ \/ op[s].ans = "ok" /\ Answers(s, changed(op[s]))
     \/ op[s].ans # "ok" /\ Refuses(s, shell)
     \/ \* the page loses the answer of an update and reads the state back
        /\ op[s].kind = "update"
        /\ shell' = released(op[s], IF op[s].ans = "ok" THEN changed(op[s]) ELSE shell)
        /\ op' = [op EXCEPT ![s].pc = "readback"]
        /\ UNCHANGED page

\* The page's reading of an update whose answer it lost: the save is taken as
\* done only when the entry read back is the one that was sent
confirmedAnyway(o) == core.config # Gone
confirmed(o) == core.config = o.want

readback(s) ==
  /\ op[s].pc = "readback"
  /\ UNCHANGED <<core, late>>
  /\ Ends(s)
  /\ \/ /\ shell' = connections(shell)
        /\ page' = LET read == settled(op[s], publish(page, shell'))
                   IN IF confirmed(op[s]) THEN clear(read) ELSE read
     \/ page' = settled(op[s], page) /\ UNCHANGED shell

----------------------------------------------------------------------------
\* The page

idle == {s \in Slots : op[s] = Idle}
slot == CHOOSE s \in idle : \A t \in idle : s <= t

\* What the row of the computer offers
canConnect == page.status \in {"disconnected", "failed"} /\ page.pending = "none"
canDisconnect == page.status \in {"connecting", "ready"}
canRemove == page.status = "disconnected" /\ page.pending = "none"
offers(kind) ==
  /\ page.shown # Gone
  /\ CASE kind \in {"connect", "test"} -> canConnect
       [] kind = "disconnect" -> canDisconnect
       [] kind = "remove" -> canRemove

\* The call reaches the service, which takes it or refuses it at once
Invoke(o, p0) ==
  LET p == [p0 EXCEPT !.calls = @ + 1] IN
  /\ idle # {} /\ page.calls < MaxCalls
  /\ UNCHANGED <<core, late>>
  /\ IF admitted(o.kind)
       THEN /\ op' = [op EXCEPT ![slot] = o]
            /\ shell' = entered(o.kind)
            /\ page' = p
       ELSE page' = settled(o, p) /\ UNCHANGED <<op, shell>>

\* One mark per computer; disconnect is let through and replaces it
runIdentityOperation(kind) ==
  /\ offers(kind)
  /\ page.pending = "none" \/ kind = "disconnect"
  /\ Invoke([Idle EXCEPT !.kind = kind, !.pc = "find"],
            [page EXCEPT !.pending = kind,
                         !.stopped = @ /\ kind \notin {"connect", "test"}])

create ==
  /\ page.addOpen /\ ~page.loading
  /\ Invoke([Idle EXCEPT !.kind = "create", !.pc = "core"],
            [page EXCEPT !.loading = TRUE])
openAdd ==
  /\ ~page.addOpen
  /\ page' = [page EXCEPT !.addOpen = TRUE]
  /\ UNCHANGED <<core, late, shell, op>>
closeAdd ==
  /\ page.addOpen /\ ~page.loading
  /\ page' = [page EXCEPT !.addOpen = FALSE]
  /\ UNCHANGED <<core, late, shell, op>>

\* The editor keeps the entry it was opened on beside the draft
editing == page.original # Gone
dirty == editing /\ page.draft # page.original
editorBusy == page.pending # "none"
open ==
  /\ ~editing /\ page.shown # Gone /\ ~editorBusy
  /\ page' = [page EXCEPT !.original = page.shown, !.draft = page.shown]
  /\ UNCHANGED <<core, late, shell, op>>
type(c) ==
  /\ editing /\ ~editorBusy
  /\ page' = [page EXCEPT !.draft = c]
  /\ UNCHANGED <<core, late, shell, op>>
close ==
  /\ editing /\ ~editorBusy
  /\ page' = IF dirty THEN [page EXCEPT !.discardRequested = TRUE] ELSE clear(page)
  /\ UNCHANGED <<core, late, shell, op>>
discard ==
  /\ page.discardRequested
  /\ page' = clear(page)
  /\ UNCHANGED <<core, late, shell, op>>
keep ==
  /\ page.discardRequested
  /\ page' = [page EXCEPT !.discardRequested = FALSE]
  /\ UNCHANGED <<core, late, shell, op>>

\* The revision sent with a save is that of the entry the editor was opened on
expectedConfigRevisionShown == page.shown
expectedConfigRevision == page.original

save ==
  /\ editing /\ ~editorBusy
  /\ Invoke([Idle EXCEPT !.kind = "update", !.pc = "find", !.want = page.draft,
                         !.seen = page.original,
                         !.expected = expectedConfigRevision],
            [page EXCEPT !.pending = "update"])

Next ==
  \/ \E s \in Slots :
       \/ CoreServes(s) \/ budget(s) \/ find(s) \/ announce(s)
       \/ connectResumed(s) \/ testResumed(s) \/ disconnectResumed(s)
       \/ settle(s) \/ writeResumed(s) \/ readback(s)
  \/ LateServed \/ retire
  \/ \E kind \in {"connect", "test", "disconnect", "remove"} :
       runIdentityOperation(kind)
  \/ \E c \in Configs : type(c)
  \/ create \/ openAdd \/ closeAdd \/ open \/ close \/ discard \/ keep \/ save

Spec == Init /\ [][Next]_vars

----------------------------------------------------------------------------
EditStep ==
  core.config # Gone /\ core'.config \notin {Gone, core.config}
     => \/ \E s \in Slots : op[s].kind = "update" /\ op[s].ans = "none"
                             /\ op'[s].ans = "ok" /\ op[s].seen = core.config
        \/ \E call \in late \ late' : call.seen = core.config

\* An edit is never written over a configuration its author has not seen: an
\* entry that changes from one configuration to another was the one in the
\* editor when the save was made, whichever earlier save the shell gave up on
\* and the core serves late
EditsWhatWasSeen == [][EditStep]_vars

CloseStep ==
  \A s \in Slots :
     (op[s].kind = "update" /\ op'[s] = Idle /\ page.original # Gone
        /\ page'.original = Gone)
     => (op[s].ans = "ok" /\ op[s].pc = "core") \/ core'.config = op[s].want

\* The editor closes after a save only when the save is known to be done: the
\* service answered it, or the answer was lost and the catalog holds the draft
ClosedIsSaved == [][CloseStep]_vars

\* "WHEN the user disconnects a connecting, ready, or failed computer THEN the
\* Launcher stops its SSH process trees ... and retains the computer record ...
\* as disconnected": until the person connects again the computer is not shown
\* as ready
DisconnectStops == page.stopped => page.status # "ready"

\* A computer refused as busy has an operation in progress
BusyIsReal == shell.busy => \E s \in Slots : op[s].kind \in {"connect", "test"}
=============================================================================
