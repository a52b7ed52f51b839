---------------------------- MODULE MCAdmission -----------------------------
(* Two people: an author of the identity provider, and one whom it calls a *)
(* reviewer.  A third token is forged.                                     *)
EXTENDS Admission, TLC
CONSTANTS s1, s2, s3, ann, bea, k1, ta, tb, tx, b1, b2

MCPeerOf == (s1 :> ann) @@ (s2 :> bea) @@ (s3 :> bea)
MCTokenOf == (s1 :> ta) @@ (s2 :> tb) @@ (s3 :> tx)
MCKeyOf == (ta :> k1) @@ (tb :> k1) @@ (tx :> k1)
MCExpOf == (ta :> 3) @@ (tb :> 9) @@ (tx :> 9)
MCSubjectOf == (ta :> ann) @@ (tb :> bea) @@ (tx :> bea)
MCRolesIn == (ta :> {"author", "read-only"}) @@ (tb :> {"reviewer"}) @@ (tx :> {})

Update(x, review) == [op |-> "update", text |-> x, review |-> review]
Heartbeat == [op |-> "heartbeat"]

(* Keys are withdrawn, refreshes fail and tokens expire. *)
Rotation == [sessions |-> {s1, s2, s3}, frames |-> {Heartbeat}, roles |-> {"author"},
             bodies |-> {b1}, keys |-> TRUE, until |-> 6]

(* Memberships change under open sessions. *)
Revocation == [sessions |-> {s1, s2}, frames |-> {Heartbeat, Update(b2, FALSE)},
               roles |-> {"author", "reviewer", NoRole},
               bodies |-> {b1}, keys |-> FALSE, until |-> 0]

(* Every membership, one session at a time. *)
Reading == [Revocation EXCEPT !.sessions = {s1}, !.roles = Roles \cup {NoRole}]

(* An author and a reviewer push to an empty document. *)
Reviewing == [sessions |-> {s1, s2},
              frames |-> {Update(b1, FALSE), Update(b2, FALSE), Update(Same, TRUE), Update(b2, TRUE)},
              roles |-> {"author"}, bodies |-> {b1, b2}, keys |-> FALSE, until |-> 1]

MCScenes == {Rotation, Revocation, Reading, Reviewing}
=============================================================================
