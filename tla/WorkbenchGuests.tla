-------------------------- MODULE WorkbenchGuests --------------------------
(***************************************************************************)
(* Requests to an embedded workbench page: electron/main/workbench-        *)
(* guests.ts on one side, electron/workbench-preload.ts and the client in  *)
(* packages/dshker-workbench-client on the other, with the ordered         *)
(* messages between them.  One page, whose documents follow one another as *)
(* it navigates; at most one request is pending.                           *)
(***************************************************************************)
EXTENDS Naturals, Sequences

CONSTANTS
  MaxSeq,   \* requests
  MaxDocs,  \* documents the page shows
  MaxWait   \* messages of the page that wait when it binds or unbinds

VARIABLES
  registered, \* the page is registered with its scope
  ready,      \* the page said it is available
  sequence,   \* requests sent so far; the request's id too
  pending,    \* the request pending, 0 for none
  done,       \* how each request ended
  doc,        \* the document shown, by number
  home,       \* the document shown is of the registered origin
  bound,      \* its client is bound to the bridge
  current,    \* the request its client works on, 0 for none
  lastSeq,    \* the client's lastSequence
  toGuest,    \* messages to the document
  toMain      \* messages from the documents

main == <<registered, ready, sequence, pending, done>>
page == <<doc, home, bound, current, lastSeq>>
vars == <<main, page, toGuest, toMain>>

register ==
  /\ ~registered /\ home /\ registered' = TRUE
  /\ ready' = FALSE /\ pending' = 0
  /\ UNCHANGED <<sequence, done, page, toGuest, toMain>>

\* finish: only the request pending now is answered
finish(n, how) ==
  IF pending = n /\ n # 0 THEN pending' = 0 /\ done' = [done EXCEPT ![n] = how]
  ELSE UNCHANGED <<pending, done>>

cancelGuest(n) ==
  IF n = 0 THEN toGuest ELSE Append(toGuest, [op |-> "cancel", n |-> n])

\* A request in the registered scope, to a page that is ready and at home
request ==
  /\ registered /\ ready /\ home /\ pending = 0 /\ sequence < MaxSeq
  /\ sequence' = sequence + 1 /\ pending' = sequence'
  /\ toGuest' = Append(toGuest, [op |-> "navigate", n |-> sequence'])
  /\ UNCHANGED <<registered, ready, done, page, toMain>>

\* The timer or the caller's signal, without telling the page
TimeoutOnly(how) ==
  /\ pending # 0 /\ finish(pending, how)
  /\ UNCHANGED <<registered, ready, sequence, page, toGuest, toMain>>

\* The timer or the caller's signal
TimeoutOrAbort(how) ==
  /\ pending # 0 /\ toGuest' = cancelGuest(pending) /\ finish(pending, how)
  /\ UNCHANGED <<registered, ready, sequence, page, toMain>>

\* A navigation of the main frame starts; its old document and what was sent to
\* it are gone, what it sent may still arrive.
navigate(h) ==
  /\ doc < MaxDocs /\ doc' = doc + 1 /\ home' = h
  /\ bound' = FALSE /\ current' = 0 /\ lastSeq' = 0 /\ toGuest' = <<>>
  /\ IF registered THEN ready' = FALSE /\ finish(pending, "cancelled")
     ELSE UNCHANGED <<ready, pending, done>>
  /\ UNCHANGED <<registered, sequence, toMain>>

\* The registration's remover
remove ==
  /\ registered /\ registered' = FALSE
  /\ ready' = FALSE /\ toGuest' = cancelGuest(pending) /\ finish(pending, "cancelled")
  /\ UNCHANGED <<sequence, page, toMain>>

\* bindWorkbench over the preload's bridge, and its disposal
Bind ==
  /\ ~bound /\ Len(toMain) < MaxWait /\ bound' = TRUE /\ current' = 0 /\ lastSeq' = 0
  /\ toMain' = Append(toMain, [kind |-> "ready", available |-> TRUE, doc |-> doc])
  /\ UNCHANGED <<main, doc, home, toGuest>>

Dispose ==
  /\ bound /\ Len(toMain) < MaxWait /\ bound' = FALSE /\ current' = 0
  /\ toMain' = Append(toMain, [kind |-> "ready", available |-> FALSE, doc |-> doc])
  /\ UNCHANGED <<main, doc, home, lastSeq, toGuest>>

Reply(n, code) == Append(toMain, [kind |-> "reply", n |-> n, code |-> code, doc |-> doc])

\* The client receives a cancel or a request.  An aborted operation answers
\* before the next message is looked at.
onRequest ==
  /\ toGuest # <<>> /\ toGuest' = Tail(toGuest)
  /\ LET m == Head(toGuest)
     IN IF ~bound THEN UNCHANGED <<current, lastSeq, toMain>>
        ELSE IF m.op = "cancel"
        THEN /\ current' = IF current = m.n THEN 0 ELSE current
             /\ toMain' = Reply(m.n, IF current = m.n THEN "cancelled" ELSE "stale")
             /\ UNCHANGED lastSeq
        ELSE IF m.n <= lastSeq THEN toMain' = Reply(m.n, "stale") /\ UNCHANGED <<current, lastSeq>>
        ELSE /\ lastSeq' = m.n
             /\ IF current # 0 THEN toMain' = Reply(m.n, "busy") /\ UNCHANGED current
                ELSE current' = m.n /\ UNCHANGED toMain
  /\ UNCHANGED <<main, doc, home, bound>>

\* navigateWorkbench ends: the sessions are refreshed, the target awaited and
\* opened, and what is then selected is read back; or it fails on the way.
navigateWorkbench(code) ==
  /\ current # 0 /\ current' = 0 /\ toMain' = Reply(current, code)
  /\ UNCHANGED <<main, doc, home, bound, lastSeq, toGuest>>

\* The reply's number is not compared.
replyOfAny(r) ==
  IF pending # 0 THEN finish(pending, r.code) ELSE UNCHANGED <<pending, done>>

\* A reply counts only for the pending request it names.
reply(r) == finish(r.n, r.code)

\* #admit, then #ready or #reply
Admit ==
  /\ toMain # <<>> /\ toMain' = Tail(toMain)
  /\ LET m == Head(toMain)
     IN IF ~(registered /\ home) THEN UNCHANGED <<ready, pending, done>>
        ELSE IF m.kind = "reply" THEN reply(m) /\ UNCHANGED ready
        ELSE /\ ready' = m.available
             /\ IF m.available THEN UNCHANGED <<pending, done>> ELSE finish(pending, "unavailable")
  /\ UNCHANGED <<registered, sequence, page, toGuest>>

Init ==
  /\ registered = FALSE /\ ready = FALSE /\ sequence = 0 /\ pending = 0
  /\ done = [n \in 1..MaxSeq |-> "open"]
  /\ doc = 1 /\ home \in BOOLEAN /\ bound = FALSE /\ current = 0 /\ lastSeq = 0
  /\ toGuest = <<>> /\ toMain = <<>>

Codes == {"selected", "unconfirmed"}

Next ==
  \/ register \/ remove \/ request \/ Bind \/ Dispose \/ onRequest \/ Admit
  \/ \E how \in {"timeout", "cancelled"} : TimeoutOrAbort(how)
  \/ \E h \in BOOLEAN : navigate(h)
  \/ \E code \in Codes : navigateWorkbench(code)

Spec == Init /\ [][Next]_vars

Ends == Codes \cup {"timeout", "cancelled", "unavailable", "stale", "busy"}

TypeOK ==
  /\ registered \in BOOLEAN /\ ready \in BOOLEAN /\ sequence \in 0..MaxSeq
  /\ pending \in 0..sequence /\ done \in [1..MaxSeq -> Ends \cup {"open"}]
  /\ doc \in 1..MaxDocs /\ home \in BOOLEAN /\ bound \in BOOLEAN
  /\ current \in 0..sequence /\ lastSeq \in 0..sequence
  /\ toGuest \in Seq([op : {"navigate", "cancel"}, n : 1..MaxSeq])
  /\ \A i \in DOMAIN toMain : toMain[i].doc \in 1..doc

ConfirmedStep ==
  /\ \A n \in 1..MaxSeq : done[n] = "open" /\ done'[n] = "selected" =>
       Head(toMain).n = n /\ Head(toMain).doc = doc
  /\ \A n \in 1..MaxSeq : done'[n] = "busy" =>
       \E k \in 1..n : done[k] = "unavailable"

(* A request is confirmed by the document that was asked, while it is still  *)
(* the page: the late reply of an earlier request or of a document navigated *)
(* away from confirms nothing.  And a page whose request timed out or was    *)
(* cancelled is free for the next one: busy is answered only after a client  *)
(* that unbound took a request with it (that one is not cancelled).          *)
ConfirmedByItsDocument == [][ConfirmedStep]_vars
=============================================================================
