------------------------------ MODULE Recovery ------------------------------
(***************************************************************************)
(* The recovery of a document from files: the op log of FsOpLog together   *)
(* with the snapshots of FsSnapshotStore (services/sync/src/snapshot.rs),  *)
(* which a room writes (snapshot_now in room.rs) and reads when it is      *)
(* opened.                                                                 *)
(*                                                                         *)
(* An update is the append that logged it.  The authority is the set of    *)
(* the updates it has imported; a version vector names such a set.  A put  *)
(* is one call of snapshot_now, by the update path or by maintenance; the  *)
(* calls run on different threads and none takes a lock.                   *)
(***************************************************************************)
EXTENDS FsOpLog, FiniteSets, Functions

CONSTANT Puts       \* calls of snapshot_now

VARIABLES
    authority,      \* what the open room has imported
    snaps,          \* the files: from sequence numbers to [vv, bytes]
    settled,        \* the numbers whose rename a crash can no longer undo
    step,           \* per put: where it is
    vv, bytes, seq, \* per put: what it writes, and under which number
    gone            \* history: puts that returned Ok and whose file is no more

snapVars == <<snaps, settled, step, vv, bytes, seq, gone>>
recoveryVars == <<vars, authority, snapVars>>

RecoveryInit ==
    /\ Init /\ authority = {} /\ snaps = << >> /\ settled = {}
    /\ step = [q \in Puts |-> "idle"]
    /\ vv = [q \in Puts |-> {}] /\ bytes = [q \in Puts |-> {}] /\ seq = [q \in Puts |-> 0]
    /\ gone = {}

-----------------------------------------------------------------------------
(* pick_newer: the greater vector; of two that cannot be compared the one  *)
(* with more operations; otherwise the first.                              *)
PickNewer(a, b) ==
    IF a.vv \subseteq b.vv /\ a.vv # b.vv THEN b
    ELSE IF b.vv \subseteq a.vv THEN a
    ELSE IF Cardinality(b.vv) > Cardinality(a.vv) THEN b ELSE a

(* Mutant: the file with the highest number is the latest. *)
LatestByNumber(files) ==
    {files[n].bytes : n \in {n \in DOMAIN files : \A m \in DOMAIN files : m <= n}}

(* pick_latest_by_vv: pick_newer over the files in the order given ...     *)
PickLatest(files, order) ==
    LET best[i \in 1 .. Len(order)] ==
            IF i = 1 THEN files[order[1]] ELSE PickNewer(best[i - 1], files[order[i]])
    IN  best[Len(order)]

(* ... which is the one the directory is listed in, and so any order.      *)
Latest(files) ==
    IF DOMAIN files = {} THEN {{}}
    ELSE {PickLatest(files, order).bytes : order \in SetToSeqs(DOMAIN files)}

(* Room::open: the latest snapshot, then every record of the log that can  *)
(* be imported.                                                            *)
Logged(f) == {w \in Writers : \E i \in DOMAIN ReadRecords(f) : ReadRecords(f)[i] = Body(w)}

Recovered(f, files) == {held \cup Logged(f) : held \in Latest(files)}

-----------------------------------------------------------------------------
(* The log; an update is imported once its append has returned. *)
LogStep ==
    \/ \E w \in Writers : Sync(w) /\ authority' = authority \cup {w} /\ UNCHANGED snapVars
    \/ /\ \/ \E w \in Writers : Write(w) \/ SyncFails(w)
          \/ \E w \in Writers : \E n \in 0 .. (Header + Size[w]) : WriteShort(w, n)
          \/ Close
       /\ UNCHANGED <<authority, snapVars>>

(* snapshot_now: the bytes are exported, then the version is read. *)
Export(q) ==
    /\ step[q] = "idle"
    /\ bytes' = [bytes EXCEPT ![q] = authority] /\ step' = [step EXCEPT ![q] = "exported"]
    /\ UNCHANGED <<vars, authority, snaps, settled, vv, seq, gone>>

Label(q) ==
    /\ step[q] = "exported"
    /\ vv' = [vv EXCEPT ![q] = authority] /\ step' = [step EXCEPT ![q] = "listing"]
    /\ UNCHANGED <<vars, authority, snaps, settled, bytes, seq, gone>>

(* put_atomic: the next number after those in the directory ... *)
NextSeq(used) == IF used = {} THEN 0 ELSE 1 + (CHOOSE n \in used : \A m \in used : m <= n)

ExistingSeqs(q) ==
    /\ step[q] = "listing"
    /\ seq' = [seq EXCEPT ![q] = NextSeq(DOMAIN snaps)] /\ step' = [step EXCEPT ![q] = "testing"]
    /\ UNCHANGED <<vars, authority, snaps, settled, vv, bytes, gone>>

(* ... unless a file has it by now; else a temporary file is written and   *)
(* synced, which may fail.                                                 *)
WriteTemp(q) ==
    /\ step[q] = "testing"
    /\ step' \in {[step EXCEPT ![q] = s] :
                    s \in IF seq[q] \in DOMAIN snaps THEN {"listing"} ELSE {"renaming", "failed"}}
    /\ UNCHANGED <<vars, authority, snaps, settled, vv, bytes, seq, gone>>

(* rename(2) replaces a file that has the name. *)
Holders(n) == {q \in Puts : step[q] = "ok" /\ seq[q] = n}

Rename(q) ==
    /\ step[q] = "renaming"
    /\ snaps' = [n \in DOMAIN snaps \cup {seq[q]} |->
                   IF n = seq[q] THEN [vv |-> vv[q], bytes |-> bytes[q]] ELSE snaps[n]]
    /\ gone' = gone \cup Holders(seq[q])
    /\ step' = [step EXCEPT ![q] = "ok"]
    /\ UNCHANGED <<vars, authority, settled, vv, bytes, seq>>

(* The service dies and the room is opened again.  The directory was never *)
(* synced, so a rename since the last start may be undone.                 *)
Restart ==
    \E n \in 0 .. Len(file), kept \in SUBSET DOMAIN snaps :
        /\ settled \subseteq kept
        /\ Crash(n)
        /\ snaps' = Restrict(snaps, kept) /\ settled' = kept
        /\ gone' = gone \cup UNION {Holders(m) : m \in DOMAIN snaps \ kept}
        /\ step' = [q \in Puts |-> IF step[q] \in {"idle", "ok", "failed"} THEN step[q] ELSE "failed"]
        /\ authority' \in Recovered(file', snaps')
        /\ UNCHANGED <<vv, bytes, seq>>

RecoveryNext ==
    \/ LogStep
    \/ \E q \in Puts : Export(q) \/ Label(q) \/ ExistingSeqs(q) \/ WriteTemp(q) \/ Rename(q)
    \/ Restart

RecoverySpec == RecoveryInit /\ [][RecoveryNext]_recoveryVars
-----------------------------------------------------------------------------
(* A room that is opened has every acknowledged update, except one that    *)
(* was appended behind a torn record and is in no snapshot that was        *)
(* written and is still there, or that is hidden by one whose version is   *)
(* ahead of its bytes: neither a stale export under a higher number nor a  *)
(* put that was overtaken loses anything else (Room::open, latest,         *)
(* put_atomic).                                                            *)
RecoveryComplete ==
    \A held \in Recovered(file, snaps) : \A w \in acked \ held :
        /\ w \in stranded
        /\ \/ \A q \in Puts : step[q] = "ok" /\ w \in bytes[q] => q \in gone
           \/ \E n \in DOMAIN snaps : snaps[n].vv # snaps[n].bytes
=============================================================================
