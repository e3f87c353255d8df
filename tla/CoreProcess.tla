---------------------------- MODULE CoreProcess ----------------------------
(***************************************************************************)
(* The launcher's hold on the core's process: electron/main/core/          *)
(* supervisor.ts with p2p/supervisor.ts, p2p/bootstrap.ts and              *)
(* p2p/private-channel.ts.  A core is spawned over a private channel, or   *)
(* the autostarted one is attached to; every step may fail or exceed its   *)
(* budget, and the process may end by itself.  Sessions are served over    *)
(* the connection one after the other.                                     *)
(***************************************************************************)
EXTENDS Naturals

CONSTANT MaxServes  \* sessions that install a handler

VARIABLES
  pc,       \* how far start is, or "ready", "failed"
  child,    \* the spawned process: "none", "running", "exited"
  channel,  \* the private channel's directory exists
  sock,     \* the connection: "none", "open", "closed"
  stop,     \* close: "no", "handoff", "stopping", "done", "failed"
  handler,  \* dispatch.handler: the session that serves, 0 for none
  last,     \* the sessions that have served, counted
  owners    \* sessions whose remover has not been called

vars == <<pc, child, channel, sock, stop, handler, last, owners>>

\* verifyCoreExecutable and the checks of the roots
verifyCoreExecutable(ok) ==
  /\ pc = "verify" /\ pc' = IF ok THEN "registered" ELSE "failed"
  /\ UNCHANGED <<child, channel, sock, stop, handler, last, owners>>

\* registeredHeadlessCore: an autostart entry of these roots is attached to; one
\* of other roots, or an unreadable one, is refused.
registeredHeadlessCore(answer) ==
  /\ pc = "registered"
  /\ pc' = CASE answer = "installed" -> "endpoint"
             [] answer = "none" -> "channel"
             [] answer = "refused" -> "failed"
  /\ UNCHANGED <<child, channel, sock, stop, handler, last, owners>>

\* createPeerChannel, then the process
spawn(ok) ==
  /\ pc = "channel"
  /\ IF ok THEN pc' = "announced" /\ child' = "running" /\ channel' = TRUE
     ELSE pc' = "failed" /\ UNCHANGED <<child, channel>>
  /\ UNCHANGED <<sock, stop, handler, last, owners>>

\* readPeerLine on the child's output: a ready line, or none in time
readPeerLine(ok) ==
  /\ pc = "announced" /\ pc' = IF ok /\ child = "running" THEN "authenticate" ELSE "undo"
  /\ UNCHANGED <<child, channel, sock, stop, handler, last, owners>>

\* A socket that does not authenticate is destroyed at once.
authenticatePeer(ok) ==
  /\ pc \in {"authenticate", "endpoint"}
  /\ IF ok /\ (pc = "authenticate" => child = "running")
     THEN sock' = "open" /\ pc' = (IF pc = "authenticate" THEN "version" ELSE "attach")
     ELSE UNCHANGED sock /\ pc' = (IF pc = "authenticate" THEN "undo" ELSE "failed")
  /\ UNCHANGED <<child, channel, stop, handler, last, owners>>

\* core.version, and core.desktop_attach before it for an attached core
assertCoreVersion(ok) ==
  /\ pc \in {"version", "attach"}
  /\ IF ok /\ sock = "open" THEN pc' = "ready" /\ UNCHANGED sock
     ELSE /\ sock' = "closed"
          /\ pc' = IF pc = "version" THEN "undo" ELSE "failed"
  /\ UNCHANGED <<child, channel, stop, handler, last, owners>>

\* The channel is removed although the child was not seen to end.
undoEarly ==
  /\ pc = "undo" /\ pc' = "failed" /\ channel' = FALSE
  /\ UNCHANGED <<child, sock, stop, handler, last, owners>>

\* A failed start stops the child it spawned and removes the channel; a child
\* that survives SIGKILL keeps both.
undoStart ==
  /\ pc = "undo" /\ pc' = "failed"
  /\ \/ child' = "exited" /\ channel' = FALSE
     \/ child = "running" /\ UNCHANGED <<child, channel>>
  /\ UNCHANGED <<sock, stop, handler, last, owners>>

\* The connection drops under a running supervisor.
Disconnect ==
  /\ sock = "open" /\ sock' = "closed"
  /\ UNCHANGED <<pc, child, channel, stop, handler, last, owners>>

\* The process ends by itself: a ready supervisor closes with it.
ChildExits ==
  /\ child = "running" /\ child' = "exited"
  /\ sock' = IF sock = "open" THEN "closed" ELSE sock
  /\ stop' = IF pc = "ready" /\ stop = "no" THEN "stopping" ELSE stop
  /\ UNCHANGED <<pc, channel, handler, last, owners>>

\* close, shared by its callers: an attached core is told first
close ==
  /\ pc = "ready" /\ stop = "no"
  /\ IF child = "none" THEN stop' = "handoff" /\ UNCHANGED sock
     ELSE stop' = "stopping" /\ sock' = "closed"
  /\ UNCHANGED <<pc, child, channel, handler, last, owners>>

\* The handed back core answered, or is gone; any other error leaves the
\* connection to the process's end.
handoff(ok) ==
  /\ stop = "handoff"
  /\ IF ok THEN stop' = "done" /\ sock' = "closed" ELSE stop' = "failed" /\ UNCHANGED sock
  /\ UNCHANGED <<pc, child, channel, handler, last, owners>>

\* stopChild: a grace, SIGTERM, SIGKILL; then removePeerChannel
stopChild(ok) ==
  /\ stop = "stopping" /\ sock' = "closed"
  /\ IF ok \/ child = "exited" THEN stop' = "done" /\ child' = "exited" /\ channel' = FALSE
     ELSE stop' = "failed" /\ UNCHANGED <<child, channel>>
  /\ UNCHANGED <<pc, handler, last, owners>>

serve ==
  /\ pc = "ready" /\ stop = "no" /\ last < MaxServes
  /\ last' = last + 1 /\ handler' = last' /\ owners' = owners \cup {last'}
  /\ UNCHANGED <<pc, child, channel, sock, stop>>

\* The remover clears whatever is installed.
unserveAny(h) ==
  /\ h \in owners /\ owners' = owners \ {h} /\ handler' = 0
  /\ UNCHANGED <<pc, child, channel, sock, stop, last>>

\* The remover serve returned, called late or early
unserve(h) ==
  /\ h \in owners /\ owners' = owners \ {h}
  /\ handler' = IF handler = h THEN 0 ELSE handler
  /\ UNCHANGED <<pc, child, channel, sock, stop, last>>

Init ==
  /\ pc = "verify" /\ child = "none" /\ channel = FALSE /\ sock = "none" /\ stop = "no"
  /\ handler = 0 /\ last = 0 /\ owners = {}

Next ==
  \/ undoStart \/ Disconnect \/ ChildExits \/ close \/ serve
  \/ \E ok \in BOOLEAN :
       \/ verifyCoreExecutable(ok) \/ spawn(ok) \/ readPeerLine(ok) \/ authenticatePeer(ok)
       \/ assertCoreVersion(ok) \/ handoff(ok) \/ stopChild(ok)
  \/ \E a \in {"installed", "none", "refused"} : registeredHeadlessCore(a)
  \/ \E h \in 1..MaxServes : unserve(h)

Spec == Init /\ [][Next]_vars

TypeOK ==
  /\ pc \in {"verify", "registered", "channel", "announced", "authenticate", "version",
             "endpoint", "attach", "undo", "ready", "failed"}
  /\ child \in {"none", "running", "exited"} /\ channel \in BOOLEAN
  /\ sock \in {"none", "open", "closed"}
  /\ stop \in {"no", "handoff", "stopping", "done", "failed"}
  /\ handler \in 0..MaxServes /\ last \in 0..MaxServes /\ owners \subseteq 1..MaxServes

(* Neither a failed start nor a close leaves half of the core behind: a      *)
(* process outside its channel, a connection to a core that was given up, or *)
(* a channel whose process was stopped.                                      *)
NoHalfCore ==
  /\ pc = "failed" => sock # "open"
  /\ child = "running" => channel
  /\ stop = "done" => sock = "closed" /\ child # "running" /\ ~channel

(* The session that serves is never put out by the late leave of one before  *)
(* it: the newest installed handler serves until its own remover is called.  *)
NewestServes == last \in owners => handler = last
=============================================================================
