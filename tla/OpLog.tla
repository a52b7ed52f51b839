------------------------------- MODULE OpLog -------------------------------
(***************************************************************************)
(* What OpLogStore (services/sync/src/op_log.rs) promises for one          *)
(* document: a log that grows at its end.  A record becomes part of the    *)
(* log, or not, before its append reports success or failure.  A record    *)
(* whose append failed may remain in the log; as long as it is the last    *)
(* one, the next record may take its place.                                *)
(***************************************************************************)
EXTENDS Naturals, Sequences

CONSTANT Records        \* appends, each of which has its own record

VARIABLES log, acked, failed

vars == <<log, acked, failed>>

Logged == {log[i] : i \in DOMAIN log}
Fresh(r) == r \notin Logged \cup acked \cup failed

Init == log = << >> /\ acked = {} /\ failed = {}

Extend(r) ==
    /\ Fresh(r)
    /\ log' = Append(log, r)
    /\ UNCHANGED <<acked, failed>>

TakePlace(r) ==
    /\ Fresh(r)
    /\ log # << >> /\ log[Len(log)] \in failed
    /\ log' = [log EXCEPT ![Len(log)] = r]
    /\ UNCHANGED <<acked, failed>>

Ack(r) ==
    /\ r \in Logged /\ r \notin acked \cup failed
    /\ acked' = acked \cup {r}
    /\ UNCHANGED <<log, failed>>

Fail(r) ==
    /\ r \notin acked \cup failed
    /\ failed' = failed \cup {r}
    /\ UNCHANGED <<log, acked>>

Next == \E r \in Records : Extend(r) \/ TakePlace(r) \/ Ack(r) \/ Fail(r)

Spec == Init /\ [][Next]_vars
-----------------------------------------------------------------------------
(* Every variable has its type. *)
TypeOK == log \in Seq(Records) /\ acked \subseteq Records /\ failed \subseteq Records

(* Once the append of a record has returned Ok, the record stays at its place *)
(* in what read_all returns.                                                  *)
AckedKept ==
    [][\A i \in DOMAIN log : log[i] \in acked =>
            i \in DOMAIN log' /\ log'[i] = log[i]]_vars
====
