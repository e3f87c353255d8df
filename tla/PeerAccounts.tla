---------------------------- MODULE PeerAccounts ----------------------------
(***************************************************************************)
(* The account page of one coordinator as the renderer keeps it: who is    *)
(* signed in, which networks the account owns.  p2pAccounts.ts holds the   *)
(* state, P2PAccountPanel.vue offers the controls, p2pManagement.ts        *)
(* serializes the calls: one call of the service at a time, reads queue    *)
(* behind one another, anything that meets a write in flight is refused as *)
(* busy.  The desktop process and the coordinator behind it may answer,    *)
(* refuse, lose an answer after the write took effect, end the session or  *)
(* restore it after start-up.  The device directory is a call of a scope   *)
(* of its own and is left out, as are the texts the panel shows.           *)
(***************************************************************************)
EXTENDS Naturals, Sequences, FiniteSets, TLC

CONSTANTS
  Users,   \* accounts of the coordinator
  Nets,    \* network ids
  MaxRev,  \* bound on the session revisions of one page
  MaxNews, \* bound on the session announcements of the desktop process
  Null,    \* JavaScript's null: confirmed signed out
  None     \* JavaScript's undefined: not known

VARIABLES
  page,    \* the renderer's account state, its fences, its calls
  session, \* whom the desktop process is signed in as, and may restore
  server,  \* the coordinator's networks: owner and contents of each
  news,    \* session announcements left, and whether one is under way
  owed     \* an announcement was heard that no later read has answered

vars == <<page, session, server, news, owed>>

Blank == [code |-> "", user |-> Null, list |-> << >>, pref |-> None]

\* A call in flight: its method and argument, the session revision and the
\* current-user entry it belongs to, what the page knew when it began.
Call(m, arg, rev, entry, was) ==
  [m |-> m, arg |-> arg, rev |-> rev, entry |-> entry, was |-> was, res |-> Blank]

Reads == {"currentUser", "networks", "accountSelection", "otherRead"}
busy(p) == p.op # None
writing(p) == p.op # None /\ p.op.m \notin Reads

\* What the coordinator lists for an account.
Listed(u) == [n \in {m \in Nets : server[m].owner = u} |-> server[n].value]

state ==
  [user |-> None, status |-> "unknown", nets |-> None,
   selected |-> None, unconfirmed |-> FALSE,
   rev |-> 0, reading |-> None, again |-> FALSE, retry |-> FALSE,
   explicit |-> FALSE, deletion |-> None, unsure |-> FALSE,
   op |-> None, queue |-> << >>, started |-> FALSE]

----------------------------------------------------------------------------
(* The scope of the service: one call at a time, reads in a queue. *)

\* A read waits for the reads before it; the caller has ruled out a write.
runRead(p, c) ==
  IF busy(p) THEN [p EXCEPT !.queue = Append(@, c)] ELSE [p EXCEPT !.op = c]

\* The call has settled and the next queued read runs.
settle(p) ==
  LET q == [p EXCEPT !.unsure = p.op.res.code = "unsure"] IN
  IF p.queue = << >> THEN [q EXCEPT !.op = None]
  ELSE [q EXCEPT !.op = Head(p.queue), !.queue = Tail(@)]

----------------------------------------------------------------------------
(* The session. *)

\* The list of another account goes with it, and an open deletion with both.
acceptUser(p, u) ==
  LET kept == [p EXCEPT !.user = u, !.status = "signedIn"] IN
  IF p.user = u THEN kept
  ELSE [kept EXCEPT !.nets = None, !.selected = None, !.unconfirmed = FALSE,
                    !.deletion = None]

signedOut(p) ==
  [p EXCEPT !.user = Null, !.status = "signedOut", !.nets = None,
            !.selected = None, !.unconfirmed = FALSE, !.deletion = None]

invalidateSessionRead(p) == [p EXCEPT !.rev = @ + 1, !.again = FALSE]

\* One read serves everyone who asks under the same revision; a write in
\* flight refuses it at once, which only marks the account for a retry.
currentUser(p) ==
  LET q == [p EXCEPT !.status = IF @ = "signedIn" THEN @ ELSE "restoring"] IN
  IF p.reading = p.rev THEN p
  ELSE IF writing(p)
       THEN [p EXCEPT !.retry = TRUE, !.reading = None,
                      !.status = IF @ = "signedIn" THEN @ ELSE "unknown"]
       ELSE runRead([q EXCEPT !.reading = p.rev],
                    Call("currentUser", None, p.rev, p.rev, p.status = "signedIn"))

\* Mutation of finished: the announcement heard meanwhile is absorbed.
finishedForgets(p, entry) ==
  IF entry = None \/ p.reading # entry THEN p
  ELSE [p EXCEPT !.reading = None, !.again = FALSE]

\* The read's entry is over; an announcement heard meanwhile asks again.
finished(p, entry) ==
  LET q == [p EXCEPT !.reading = None, !.again = FALSE] IN
  IF entry = None \/ p.reading # entry THEN p
  ELSE IF p.again /\ ~p.explicit THEN currentUser(q) ELSE q

readNetworks(p, entry) == runRead(p, Call("networks", None, p.rev, entry, FALSE))

----------------------------------------------------------------------------
(* What each answer does to the page. *)

currentUserAnswered(p, c) ==
  LET ok == [p EXCEPT !.rev = IF p.user \in Users /\ p.user # c.res.user THEN @ + 1 ELSE @,
                      !.retry = FALSE, !.explicit = FALSE]
      accepted == acceptUser(ok, c.res.user)
  IN CASE p.rev # c.rev -> finished(p, c.entry)
       [] p.rev = c.rev /\ c.res.code = "ok" ->
            IF accepted.nets = None THEN readNetworks(accepted, c.entry)
            ELSE finished(accepted, c.entry)
       [] p.rev = c.rev /\ c.res.code = "signedOut" ->
            finished([signedOut(p) EXCEPT !.rev = @ + 1, !.retry = ~p.explicit], c.entry)
       [] OTHER ->
            finished([p EXCEPT !.retry = TRUE,
                               !.status = IF c.was THEN "signedIn" ELSE "unknown"], c.entry)

\* A single network needs no choice.
onlyOne(list) == IF Cardinality(DOMAIN list) = 1 THEN CHOOSE n \in DOMAIN list : TRUE ELSE None

listed(p, list) ==
  [p EXCEPT !.nets = list, !.unconfirmed = FALSE,
            !.selected = IF @ \in DOMAIN list THEN @ ELSE None,
            !.deletion = IF @ \in DOMAIN list THEN @ ELSE None]

\* A list read under this revision replaces the old one; with nothing
\* selected the remembered choice is asked for.
networksAnswered(p, c) ==
  LET q == listed(p, c.res.list) IN
  IF p.rev # c.rev \/ c.res.code # "ok" THEN finished(p, c.entry)
  ELSE IF q.selected # None THEN finished(q, c.entry)
  ELSE IF q.user \in Users
       THEN runRead(q, Call("accountSelection", None, p.rev, c.entry, FALSE))
       ELSE finished([q EXCEPT !.selected = onlyOne(c.res.list)], c.entry)

accountSelectionAnswered(p, c) ==
  IF p.rev # c.rev THEN finished(p, c.entry)
  ELSE finished([p EXCEPT !.selected = IF c.res.pref \in DOMAIN p.nets THEN c.res.pref
                                       ELSE onlyOne(p.nets)], c.entry)

\* A confirmed login is the session; one whose answer is lost, or that is
\* refused because it already happened, is read back.
loginAnswered(p, c) ==
  LET q == [invalidateSessionRead(p) EXCEPT !.explicit = FALSE] IN
  CASE c.res.code = "ok" ->
         currentUser(acceptUser([q EXCEPT !.retry = FALSE], c.res.user))
    [] c.m = "login" /\ c.res.code \in {"exists", "unsure"} ->
         currentUser([q EXCEPT !.retry = TRUE])
    [] OTHER -> p

logoutAnswered(p, c) ==
  CASE c.res.code = "busy" ->
         [p EXCEPT !.explicit = c.was,
                   !.status = IF @ = "restoring" THEN "unknown" ELSE @]
    [] c.res.code \in {"ok", "signedOut"} -> signedOut(p)
    [] OTHER -> [signedOut(p) EXCEPT !.user = None, !.status = "unknown"]

\* Mutation of networkFailure: a lost answer is taken for a refusal.
networkFailureForgets(p, code) == p

\* Only these refusals prove that no write was admitted.
networkFailure(p, code) ==
  [p EXCEPT !.unconfirmed = @ \/ code \notin {"busy", "refused", "signedOut"}]

createAnswered(p, c) ==
  IF c.res.code # "ok" THEN networkFailure(p, c.res.code)
  ELSE [p EXCEPT !.nets = IF @ = None THEN @ ELSE c.res.list @@ @]

\* Rename and raise: the row the coordinator answered replaces the listed one.
changeAnswered(p, c) ==
  IF c.res.code # "ok" THEN networkFailure(p, c.res.code)
  ELSE [p EXCEPT !.nets = IF @ = None THEN @
                          ELSE [n \in DOMAIN @ |-> IF n = c.arg THEN c.res.list[n] ELSE @[n]]]

deleteAnswered(p, c) ==
  IF c.res.code # "ok" THEN networkFailure(p, c.res.code)
  ELSE [p EXCEPT !.nets = IF @ = None THEN @
                          ELSE [n \in DOMAIN @ \ {c.arg} |-> @[n]],
                 !.selected = IF @ = c.arg THEN None ELSE @,
                 !.deletion = None]

answered(p, c) ==
  CASE c.m = "currentUser" -> currentUserAnswered(p, c)
    [] c.m = "networks" -> networksAnswered(p, c)
    [] c.m = "accountSelection" -> accountSelectionAnswered(p, c)
    [] c.m \in {"login", "register"} -> loginAnswered(p, c)
    [] c.m = "logout" -> logoutAnswered(p, c)
    [] c.m = "createNetwork" -> createAnswered(p, c)
    [] c.m = "changeNetwork" -> changeAnswered(p, c)
    [] c.m = "deleteNetwork" -> deleteAnswered(p, c)
    [] OTHER -> p

----------------------------------------------------------------------------
(* The desktop process and the coordinator. *)

\* An answer, and the state it leaves behind it.
Reply(c, code, s, nets) ==
  /\ session' = [user |-> s, stored |-> IF s = session.user THEN session.stored ELSE Null]
  /\ server' = nets
  /\ page' = [page EXCEPT !.op.res =
       [Blank EXCEPT !.code = code,
                     !.user = IF code = "ok" THEN s ELSE @,
                     !.list = IF code # "ok" \/ c.m \in {"currentUser", "login"} THEN @
                              ELSE [n \in {m \in Nets : nets[m].owner = s} |-> nets[n].value]]]

\* A network write: admitted or not, and if not the answer says so or leaves
\* it open.
Written(c, nets) ==
  \/ Reply(c, "ok", session.user, nets)
  \/ \E after \in {nets, server} : Reply(c, "unsure", session.user, after)
  \/ \E code \in {"refused", "busy"} : Reply(c, code, session.user, server)

ServeRead(c) ==
  /\ c.m \in Reads
  /\ \/ c.m = "otherRead" /\ Reply(c, "ok", session.user, server)
     \/ c.m = "accountSelection" /\ \E n \in Nets \cup {None} :
          /\ page' = [page EXCEPT !.op.res = [Blank EXCEPT !.code = "ok", !.pref = n]]
          /\ UNCHANGED <<session, server>>
     \/ /\ c.m \in {"currentUser", "networks"}
        /\ \/ Reply(c, IF session.user = Null THEN "signedOut" ELSE "ok", session.user, server)
           \/ Reply(c, "transient", session.user, server)
  /\ owed' = (owed /\ c.m # "currentUser")

\* A second login is refused while the session stands; logging out drops it
\* before the coordinator is told.
ServeSession(c) ==
  \/ /\ c.m \in {"login", "register"} /\ session.user = Null
     /\ \/ Reply(c, "ok", c.arg, server)
        \/ \E s \in {c.arg, Null} : Reply(c, "unsure", s, server)
        \/ Reply(c, "refused", Null, server)
  \/ c.m \in {"login", "register"} /\ session.user # Null /\ Reply(c, "exists", session.user, server)
  \/ /\ c.m = "logout"
     /\ \/ Reply(c, "ok", Null, server)
        \/ \E s \in {Null, session.user} : Reply(c, "unsure", s, server)
        \/ Reply(c, "busy", session.user, server)

ServeNetwork(c) ==
  /\ c.m \in {"createNetwork", "changeNetwork", "deleteNetwork", "leaveNetwork"}
  /\ IF session.user = Null THEN Reply(c, "signedOut", session.user, server)
     ELSE CASE c.m = "createNetwork" ->
                 \E n \in {m \in Nets : server[m].owner = Null} :
                   Written(c, [server EXCEPT ![n] = [owner |-> session.user, value |-> 0]])
            [] c.m = "changeNetwork" ->
                 Written(c, IF server[c.arg].owner = session.user
                            THEN [server EXCEPT ![c.arg].value = 1] ELSE server)
            [] c.m = "deleteNetwork" ->
                 Written(c, IF server[c.arg].owner = session.user
                            THEN [server EXCEPT ![c.arg].owner = Null] ELSE server)
            [] OTHER -> Written(c, server)

Serve ==
  /\ page.op # None /\ page.op.res.code = ""
  /\ \/ ServeRead(page.op)
     \/ (ServeSession(page.op) \/ ServeNetwork(page.op)) /\ UNCHANGED owed
     \/ /\ page.op.m = "otherWrite" /\ Reply(page.op, "ok", session.user, server)
        /\ UNCHANGED owed
  /\ UNCHANGED news

----------------------------------------------------------------------------
(* Events of the page. *)

Answer ==
  /\ page.op # None /\ page.op.res.code # ""
  /\ page' = answered(settle(page), page.op)
  /\ UNCHANGED <<session, server, news, owed>>

\* The shell starts the domain once.
Start ==
  /\ ~page.started
  /\ page' = currentUser([page EXCEPT !.started = TRUE])
  /\ UNCHANGED <<session, server, news, owed>>

\* The desktop process restores the stored session after the window exists,
\* or the coordinator ends it; a session of the device comes and goes with an
\* announcement too.
Restore ==
  /\ session.user = Null /\ session.stored # Null
  /\ session' = [user |-> session.stored, stored |-> Null]
  /\ news' = [news EXCEPT !.sent = TRUE]
  /\ UNCHANGED <<page, server, owed>>
Expire ==
  /\ session.user # Null /\ session' = [user |-> Null, stored |-> Null]
  /\ UNCHANGED <<page, server, news, owed>>
DeviceSession ==
  /\ news.left > 0
  /\ news' = [left |-> news.left - 1, sent |-> TRUE]
  /\ UNCHANGED <<page, session, server, owed>>

\* An announcement asks again unless the user signed out by hand; one that
\* meets a read in flight asks after it.
SessionsChanged ==
  /\ news.sent /\ page.started
  /\ news' = [news EXCEPT !.sent = FALSE]
  /\ LET heard == ~page.explicit /\ (page.user # Null \/ page.retry) IN
       /\ page' = IF ~heard THEN page
                  ELSE IF page.reading # None THEN [page EXCEPT !.again = TRUE]
                  ELSE currentUser(page)
       /\ owed' = (owed \/ ~page.explicit)
  /\ UNCHANGED <<session, server>>

----------------------------------------------------------------------------
(* The panel's controls. *)

Acts == UNCHANGED <<session, server, news, owed>>
uncertain(p) ==
  \/ p.user \in Users /\ p.status # "signedIn"
  \/ p.unconfirmed
  \/ ~busy(p) /\ p.unsure
fieldsDisabled(p) == busy(p) \/ uncertain(p)
Begin(p, m, arg, was) == [p EXCEPT !.op = Call(m, arg, p.rev, None, was)]

\* Opening the page reads the account.
Mounted ==
  /\ page.started /\ page.rev < MaxRev
  /\ page' = currentUser(page)
  /\ Acts

\* The form exists only after a confirmed sign-out.
SubmitForm ==
  /\ page.status = "signedOut" /\ ~fieldsDisabled(page) /\ page.rev < MaxRev
  /\ \E u \in Users, m \in {"login", "register"} : page' = Begin(page, m, u, FALSE)
  /\ Acts

ReadAccount ==
  /\ page.status # "signedOut" /\ ~busy(page) /\ page.started /\ page.rev < MaxRev
  /\ page' = currentUser(page)
  /\ Acts

Logout ==
  /\ page.user \in Users /\ ~busy(page) /\ page.rev < MaxRev
  /\ page' = Begin([invalidateSessionRead(page) EXCEPT !.explicit = TRUE, !.retry = FALSE],
                   "logout", None, page.explicit)
  /\ owed' = FALSE
  /\ UNCHANGED <<session, server, news>>

shown(p) == p.status # "signedOut" /\ p.user \in Users
ReadNetworks ==
  /\ shown(page) /\ ~busy(page)
  /\ page' = readNetworks(page, None)
  /\ Acts

NetworkWrite ==
  /\ shown(page) /\ page.nets # None /\ ~fieldsDisabled(page)
  /\ \/ page' = Begin(page, "createNetwork", None, FALSE)
     \/ page.selected # None /\ page' = Begin(page, "changeNetwork", page.selected, FALSE)
  /\ Acts

\* Deleting asks first; the question closes when its network or user goes.
AskDelete ==
  /\ shown(page) /\ page.selected # None /\ ~fieldsDisabled(page)
  /\ page' = [page EXCEPT !.deletion = page.selected]
  /\ Acts
ConfirmDelete ==
  /\ page.deletion # None /\ ~fieldsDisabled(page)
  /\ page' = Begin(page, "deleteNetwork", page.deletion, FALSE)
  /\ Acts

Select(n) ==
  /\ shown(page) /\ page.nets # None /\ n \in DOMAIN page.nets /\ ~fieldsDisabled(page)
  /\ page' = Begin([page EXCEPT !.selected = n], "rememberAccountSelection", n, FALSE)
  /\ Acts

RemoveDevice ==
  /\ page.selected # None /\ ~fieldsDisabled(page) /\ page.status = "signedIn"
  /\ page' = Begin(page, "leaveNetwork", page.selected, FALSE)
  /\ Acts

\* The panels beside this one use the same scope.
OtherPanel ==
  /\ ~busy(page)
  /\ \E m \in {"otherRead", "otherWrite"} : page' = Begin(page, m, None, FALSE)
  /\ Acts

----------------------------------------------------------------------------
Init ==
  /\ page = state
  /\ \E u \in Users \cup {Null} : session = [user |-> Null, stored |-> u]
  /\ \E u \in Users, n \in Nets :
       server = [m \in Nets |-> [owner |-> IF m = n THEN u ELSE Null, value |-> 0]]
  /\ news = [left |-> MaxNews, sent |-> FALSE]
  /\ owed = FALSE

Next ==
  \/ Start \/ Serve \/ Answer
  \/ Restore \/ Expire \/ DeviceSession \/ SessionsChanged
  \/ Mounted \/ SubmitForm \/ ReadAccount \/ Logout \/ ReadNetworks \/ NetworkWrite
  \/ AskDelete \/ ConfirmDelete \/ (\E n \in Nets : Select(n)) \/ RemoveDevice
  \/ OtherPanel

Spec == Init /\ [][Next]_vars

----------------------------------------------------------------------------
TypeOK ==
  /\ page.user \in Users \cup {Null, None}
  /\ page.status \in {"unknown", "restoring", "signedIn", "signedOut"}
  /\ page.selected \in Nets \cup {None}
  /\ Len(page.queue) <= 1 + Cardinality(Reads)
  /\ session.user \in Users \cup {Null}

(* Between calls the list a signed-in page shows is the coordinator's own,   *)
(* through refused, lost and half-answered writes, unless the page says the  *)
(* last write is unconfirmed (p2pAccounts.ts #networkFailure).               *)
ListIsTrue ==
  page.op = None /\ shown(page) /\ page.nets # None /\ ~page.unconfirmed =>
    page.nets = Listed(page.user)

(* A session announcement is never dropped: once the calls have settled it   *)
(* was followed by a fresh read, or the account is marked to be read at the  *)
(* next one, unless the user signs out by hand (p2pAccounts.ts subscribe,    *)
(* #readAfterCurrent).                                                       *)
AnnouncedIsRead == page.op = None /\ owed => page.explicit \/ page.retry
=============================================================================
