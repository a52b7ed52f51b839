---------------------------- MODULE MCSyncRoom ----------------------------
(* Instances of SyncRoom for TLC. *)
EXTENDS SyncRoom, TLC
CONSTANTS p1, p2, c1, c2, c3, u1, u2

(* Two clients, of which the first may connect twice. *)
PeerOfTwo == (c1 :> p1 @@ c2 :> p1 @@ c3 :> p2)

(* Two clients that connect once each. *)
PeerOfPair == (c1 :> p1 @@ c3 :> p2)

(* u2 follows u1 in the same replica. *)
AuthorChain == (u1 :> p1 @@ u2 :> p1)
DepsChain   == (u1 :> {} @@ u2 :> {u1})

(* One update from either replica, independent of each other. *)
AuthorBoth == (u1 :> p1 @@ u2 :> p2)
DepsFree   == (u1 :> {} @@ u2 :> {})

(* A single update. *)
AuthorOne == (u1 :> p1)
DepsOne   == (u1 :> {})
====
