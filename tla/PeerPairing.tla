---------------------------- MODULE PeerPairing ----------------------------
(***************************************************************************)
(* Pairs of this computer with others, from the page to the coordinator:   *)
(* p2pPairing.ts and P2PPairingPanel.vue ask, pairing.ts runs one          *)
(* operation of a service at a time as a sequence of calls through the     *)
(* core, each of which may fail or lose its answer, and reads the pair     *)
(* back after each write.  The user may cancel; a cancelled write is       *)
(* answered as unconfirmed.  The other side of a pair acts at any time and *)
(* may replace its key.  A pair the coordinator made active is pinned in   *)
(* the local catalog by the core's maintenance loop.  Keys stand for the   *)
(* fingerprints computed from them.                                        *)
(***************************************************************************)
EXTENDS Naturals, FiniteSets, TLC

CONSTANTS
  Pairs,    \* pair ids
  Mine,     \* the pairs this computer initiates: it accepts their invitation
  Keys,     \* device keys of the other computer
  MaxKeys,  \* bound on the key replacements of the other side
  None      \* JavaScript's undefined

VARIABLES
  page,   \* the renderer's pairing state
  op,     \* the operation under way, or None
  srv,    \* the coordinator's pairs
  local,  \* pairs pinned as active in the local catalog
  left    \* key replacements left to the other side

vars == <<page, op, srv, local, left>>

PAIR_STATES == {"invited", "approved", "active", "rejected", "revoked"}
Writes == {"accept", "approve", "reject", "revoke"}

\* What the page and the desktop process learn of a pair.
View(p) == [pair |-> p, state |-> srv[p].state, key |-> srv[p].key]
Views == [pair : Pairs, state : PAIR_STATES, key : Keys]

Operation(m, p, key) ==
  [m |-> m, pair |-> p, key |-> key, at |-> "local", before |-> None,
   acted |-> FALSE, answered |-> FALSE, aborted |-> FALSE, code |-> None, data |-> None]

\* Codes that the page takes as proof that the write had no effect.
rejectedBeforeEffect ==
  {"invite_invalid", "pair_not_found", "pair_state_mismatch", "pair_fingerprint_mismatch",
   "user_login_required", "device_unregistered", "request_cancelled", "service_busy"}

----------------------------------------------------------------------------
(* The page. *)

state == [pairs |-> None, reviewing |-> None, draft |-> None,
          unconfirmed |-> FALSE, revoking |-> None]

canWrite == op = None /\ ~page.unconfirmed

closeReview(s) == [s EXCEPT !.reviewing = None, !.draft = None]

\* The list is what the local catalog holds; reading it ends an unconfirmed
\* result.
read ==
  /\ op = None
  /\ page' = [page EXCEPT !.pairs = local, !.unconfirmed = FALSE]
  /\ UNCHANGED <<op, srv, local, left>>

Start(m, p, key) ==
  /\ op' = Operation(m, p, key)
  /\ UNCHANGED <<page, srv, local, left>>

review(p) == op = None /\ Start("identity", p, None)

TypeFingerprint(k) ==
  /\ page.reviewing # None /\ page.draft = None
  /\ page' = [page EXCEPT !.draft = k]
  /\ UNCHANGED <<op, srv, local, left>>

CloseReview ==
  /\ page.reviewing # None
  /\ page' = closeReview(page)
  /\ UNCHANGED <<op, srv, local, left>>

acceptInvite(p) == canWrite /\ p \in Mine /\ Start("accept", p, None)

approve ==
  /\ canWrite /\ page.reviewing # None /\ page.draft # None
  /\ Start("approve", page.reviewing.pair, page.draft)

reject(p) == canWrite /\ Start("reject", p, None)

\* A listed pair is revoked in two clicks.
AskRevoke(p) ==
  /\ page.pairs # None /\ p \in page.pairs /\ page.revoking # p /\ op = None
  /\ page' = [page EXCEPT !.revoking = p]
  /\ UNCHANGED <<op, srv, local, left>>

CancelRevoke ==
  /\ page.revoking # None
  /\ page' = [page EXCEPT !.revoking = None]
  /\ UNCHANGED <<op, srv, local, left>>

confirmRevoke ==
  /\ page.revoking # None /\ op = None
  /\ page' = [page EXCEPT !.revoking = None]
  /\ op' = IF page.unconfirmed THEN op ELSE Operation("revoke", page.revoking, None)
  /\ UNCHANGED <<srv, local, left>>

\* The user, a navigation or the time limit aborts the request.
cancel ==
  /\ op # None /\ ~op.aborted
  /\ op' = [op EXCEPT !.aborted = TRUE]
  /\ UNCHANGED <<page, srv, local, left>>

recordWriteOutcome(s, code) ==
  [s EXCEPT !.unconfirmed = @ \/ code \notin rejectedBeforeEffect]

\* What the answer of each operation does to the page; a confirmed write is
\* followed by a read of the list.
identityAnswered(s, o, code) ==
  IF code = "ok" THEN [s EXCEPT !.reviewing = o.data, !.draft = None] ELSE s

acceptAnswered(s, o, code) ==
  IF code = "ok" THEN [s EXCEPT !.reviewing = o.data, !.pairs = local, !.unconfirmed = FALSE]
  ELSE recordWriteOutcome(s, code)

approveAnswered(s, o, code) ==
  CASE code = "ok" ->
         [s EXCEPT !.reviewing = IF o.data.state = "active" THEN None ELSE o.data,
                   !.draft = None, !.pairs = local, !.unconfirmed = FALSE]
    [] code = "pair_fingerprint_mismatch" -> [s EXCEPT !.unconfirmed = FALSE]
    [] OTHER -> recordWriteOutcome(s, code)

endAnswered(s, o, code) ==
  IF code = "ok"
  THEN [s EXCEPT !.reviewing = IF @ # None /\ @.pair = o.pair THEN None ELSE @,
                 !.pairs = local, !.unconfirmed = FALSE]
  ELSE recordWriteOutcome(s, code)

----------------------------------------------------------------------------
(* The operation in the desktop process. *)

\* An aborted signal fails the next call; a failure ends the operation.
Live(stage) == op # None /\ op.at = stage /\ ~op.aborted
Fail(code) == op' = [op EXCEPT !.at = "done", !.code = code]
Proceed(stage) == op' = [op EXCEPT !.at = stage]

Aborted ==
  /\ op # None /\ op.aborted /\ op.at \notin {"done", "cleanup"}
  /\ Fail("request_cancelled")
  /\ UNCHANGED <<page, srv, local, left>>

\* A call that failed without reaching the coordinator, or was refused there.
Refused ==
  /\ op # None /\ ~op.aborted /\ op.at \notin {"done", "cleanup"}
  /\ \E code \in {"device_unregistered", "user_login_required", "helper_lost"} : Fail(code)
  /\ UNCHANGED <<page, srv, local, left>>

localDeviceId ==
  /\ Live("local")
  /\ Proceed(CASE op.m = "identity" -> "after"
               [] op.m = "approve" -> "before"
               [] OTHER -> "act")
  /\ UNCHANGED <<page, srv, local, left>>

\* The coordinator's word on the pair, compared with what the user typed.
identityBefore ==
  LET p == op.pair IN
  /\ Live("before")
  /\ CASE srv[p] = None -> Fail("pair_not_found")
       [] srv[p] # None /\ srv[p].key # op.key -> Fail("pair_fingerprint_mismatch")
       [] srv[p] # None /\ srv[p].key = op.key ->
            IF srv[p].state # (IF p \in Mine THEN "approved" ELSE "invited")
            THEN Fail("pair_state_mismatch")
            ELSE op' = [op EXCEPT !.at = "act", !.before = View(p)]
  /\ UNCHANGED <<page, srv, local, left>>

\* External: what the coordinator does with an action on a pair.
Effect(m, p) ==
  CASE m = "accept" -> [state |-> "invited", key |-> CHOOSE k \in Keys : TRUE]
    [] m = "approve" -> [srv[p] EXCEPT !.state = IF p \in Mine THEN "active" ELSE "approved"]
    [] m = "reject" -> [srv[p] EXCEPT !.state = "rejected"]
    [] m = "revoke" -> [srv[p] EXCEPT !.state = "revoked"]

Admits(m, p) ==
  CASE m = "accept" -> srv[p] = None
    [] m = "approve" -> /\ srv[p] # None
                        /\ srv[p].state = IF p \in Mine THEN "approved" ELSE "invited"
    [] m = "reject" -> srv[p] # None /\ srv[p].state \in {"invited", "approved"}
    [] m = "revoke" -> srv[p] # None /\ srv[p].state = "active"

\* The write at the coordinator; its answer may be lost on the way back.
Act ==
  LET p == op.pair IN
  /\ Live("act") /\ op.m \in Writes
  /\ IF Admits(op.m, p)
     THEN /\ srv' = [srv EXCEPT ![p] = Effect(op.m, p)]
          /\ \/ op' = [op EXCEPT !.at = "after", !.acted = TRUE, !.answered = TRUE]
             \/ op' = [op EXCEPT !.at = "done", !.acted = TRUE, !.code = "helper_lost"]
     ELSE Fail(IF op.m = "accept" THEN "invite_invalid" ELSE "pair_state_mismatch") /\ UNCHANGED srv
  /\ UNCHANGED <<page, local, left>>

\* Mutation of readBack: the key read back after an approval is not compared
\* with the one the user typed.
readBackUnread ==
  LET p == op.pair IN
  /\ Live("after")
  /\ IF srv[p] = None THEN Fail("pair_not_found")
     ELSE op' = [op EXCEPT !.at = IF op.m = "revoke" THEN "cleanup" ELSE "done",
                           !.code = "ok", !.data = View(p)]
  /\ UNCHANGED <<page, srv, local, left>>

\* The pair read back; an approval must still be of the same key.
readBack ==
  LET p == op.pair IN
  /\ Live("after")
  /\ IF srv[p] = None THEN Fail("pair_not_found")
     ELSE IF op.m = "approve" /\ srv[p].key # op.key THEN Fail("identity_mismatch")
     ELSE op' = [op EXCEPT !.at = IF op.m = "revoke" THEN "cleanup" ELSE "done",
                           !.code = "ok", !.data = View(p)]
  /\ UNCHANGED <<page, srv, local, left>>

\* The local authority of a revoked pair goes.
onPairRevoked ==
  /\ op # None /\ op.at = "cleanup"
  /\ local' = local \ {op.pair}
  /\ Proceed("done")
  /\ UNCHANGED <<page, srv, left>>

\* Mutation of Outcome: an aborted write is answered with the reason it ended.
OutcomeOfAny == op.code

\* An aborted write is unconfirmed, whatever it returned; an aborted read
\* reports why it ended.
Outcome ==
  IF ~op.aborted THEN op.code
  ELSE IF op.m \in Writes THEN "management_result_unconfirmed" ELSE "request_cancelled"

Answer ==
  /\ op # None /\ op.at = "done"
  /\ page' = CASE op.m = "identity" -> identityAnswered(page, op, Outcome)
               [] op.m = "accept" -> acceptAnswered(page, op, Outcome)
               [] op.m = "approve" -> approveAnswered(page, op, Outcome)
               [] op.m \in {"reject", "revoke"} -> endAnswered(page, op, Outcome)
  /\ op' = None
  /\ UNCHANGED <<srv, local, left>>

----------------------------------------------------------------------------
(* The other side and the core. *)

RemoteActs(p) ==
  /\ \/ p \notin Mine /\ srv[p] = None
        /\ \E k \in Keys : srv' = [srv EXCEPT ![p] = [state |-> "invited", key |-> k]]
     \/ p \in Mine /\ srv[p] # None /\ srv[p].state = "invited"
        /\ srv' = [srv EXCEPT ![p].state = "approved"]
     \/ p \notin Mine /\ srv[p] # None /\ srv[p].state = "approved"
        /\ srv' = [srv EXCEPT ![p].state = "active"]
     \/ srv[p] # None /\ srv[p].state = "active"
        /\ srv' = [srv EXCEPT ![p].state = "revoked"]
  /\ UNCHANGED <<page, op, local, left>>

ReplaceKey(p) ==
  /\ left > 0 /\ srv[p] # None
  /\ \E k \in Keys \ {srv[p].key} : srv' = [srv EXCEPT ![p].key = k]
  /\ left' = left - 1
  /\ UNCHANGED <<page, op, local>>

\* External: the core's maintenance loop pins what the coordinator lists.
Maintain ==
  /\ local' = {p \in Pairs : srv[p] # None /\ srv[p].state = "active"}
  /\ UNCHANGED <<page, op, srv, left>>

----------------------------------------------------------------------------
Init ==
  /\ page = state /\ op = None /\ local = {} /\ left = MaxKeys
  /\ srv = [p \in Pairs |-> None]

Ask == \E p \in Pairs : review(p) \/ acceptInvite(p) \/ reject(p) \/ AskRevoke(p)
Type == \E k \in Keys : TypeFingerprint(k)
Remote == \E p \in Pairs : RemoteActs(p) \/ ReplaceKey(p)

Next ==
  \/ read \/ Ask \/ Type \/ CloseReview \/ approve \/ CancelRevoke \/ confirmRevoke \/ cancel
  \/ Aborted \/ Refused \/ localDeviceId \/ identityBefore \/ Act \/ readBack
  \/ onPairRevoked \/ Answer \/ Remote \/ Maintain

Spec == Init /\ [][Next]_vars

----------------------------------------------------------------------------
\* The page, the operation and the coordinator's pairs are well formed.
TypeOK ==
  /\ page.pairs = None \/ page.pairs \subseteq Pairs
  /\ page.reviewing = None \/ page.reviewing \in Views
  /\ page.draft \in Keys \cup {None}
  /\ page.revoking \in Pairs \cup {None}
  /\ page.unconfirmed \in BOOLEAN
  /\ op # None => /\ op.m \in Writes \cup {"identity"}
                  /\ op.at \in {"local", "before", "act", "after", "cleanup", "done"}
                  /\ op.at \in {"cleanup", "done"} <=> op.code # None
  /\ local \subseteq Pairs
  /\ left \in 0 .. MaxKeys

\* The write was carried out and answered, and the read of the pair after it
\* was refused with a code that is taken as proof of no effect.
ReadBackRefused == op.answered /\ ~op.aborted /\ op.code \in rejectedBeforeEffect

\* A write that took effect at the coordinator ends as done or leaves the page
\* unconfirmed, so that no second write is offered before a read: when it was
\* cancelled, when its answer was lost, when the pair read back has another key
\* or could not be read - unless that read was refused as one before an effect
\* is.  An approval answered as done shows the key the user typed, whatever the
\* other side replaced meanwhile (p2pPairing.ts, pairing.ts).
AccountedStep ==
  op # None /\ op' = None
   => /\ op.acted => page'.unconfirmed \/ Outcome = "ok" \/ ReadBackRefused
      /\ op.m = "approve" /\ Outcome = "ok" => op.data.key = op.key

WriteIsAccounted == [][AccountedStep]_vars

\* p2pPairing.ts:189, "Codes that prove the request never took effect leave
\* state clean".  Refuted: the read of the pair that follows a write
\* (pairing.ts:98, 138, 161, 182) is refused with device_unregistered or
\* user_login_required, and the page offers the write again as if it had not
\* been made.
EffectIsNeverDenied ==
  [][op # None /\ op' = None /\ op.acted => page'.unconfirmed \/ Outcome = "ok"]_vars

\* pairing.ts: once the coordinator accepted a revocation the local authority
\* is cleaned up even if the caller cancelled.
RevokedIsCleaned ==
  [][ op # None /\ op' = None /\ op.m = "revoke" /\ op.answered => op.pair \notin local' ]_vars

=============================================================================
