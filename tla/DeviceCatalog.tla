---------------------------- MODULE DeviceCatalog ----------------------------
(***************************************************************************)
(* What the device catalog promises its readers, whoever writes the files. *)
(* The catalog holds one service with at most one paired computer.  A      *)
(* readable catalog changes only by steps that keep the identity and the   *)
(* authority it records: what was forgotten stays forgotten, what was      *)
(* revoked is never active again, a pair's revision never goes back.  Only *)
(* a catalog that cannot be read is replaced by a fresh one.               *)
(***************************************************************************)
EXTENDS Naturals

CONSTANTS MaxId, MaxRev

VARIABLES
  last,      \* the catalog as it was last readable; NoCatalog before
  readable   \* whether it can be read now

vars == <<last, readable>>

\* A catalog: which one it is, its service's endpoints, whether the service was
\* forgotten, and the pair with its revision.
Catalogs == {c \in [id : 1..MaxId, svc : {"none", "e1", "e2"}, forgot : BOOLEAN,
                    pair : {"none", "active", "revoked"}, rev : 0..MaxRev] :
               /\ c.pair = "none" <=> c.rev = 0
               /\ c.pair # "none" => c.svc # "none"}
Fresh(id) == [id |-> id, svc |-> "none", forgot |-> FALSE, pair |-> "none", rev |-> 0]
NoCatalog == Fresh(0)

\* c may become d
Keeps(c, d) ==
  /\ d.id = c.id
  /\ c.forgot => d.forgot /\ d.svc \in {c.svc, "none"} /\ d.pair \in {c.pair, "none"}
  /\ c.pair = "revoked" => d.pair # "active"
  /\ c.pair # "none" /\ d.pair # "none" => d.rev >= c.rev
  /\ c.svc # "none" /\ d.svc = "none" => d.forgot
  /\ c.pair = "active" /\ d.pair = "none" => d.forgot

Init ==
  \/ last = NoCatalog /\ readable = FALSE
  \/ last \in Catalogs /\ readable = TRUE

Edit == readable /\ readable' = TRUE /\ last' \in Catalogs /\ Keeps(last, last')
Lose == readable /\ readable' = FALSE /\ UNCHANGED last
Restore == /\ ~readable /\ readable' = TRUE
           /\ last' \in Catalogs
           /\ last # NoCatalog => Keeps(last, last')
Replace == ~readable /\ readable' = TRUE /\ \E id \in 1..MaxId : last' = Fresh(id)

Next == Edit \/ Lose \/ Restore \/ Replace

Spec == Init /\ [][Next]_vars
=============================================================================
