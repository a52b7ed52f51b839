------------------------------ MODULE FsOpLog ------------------------------
(***************************************************************************)
(* The op log of one document as an append-only file: FsOpLogStore and     *)
(* read_records in services/sync/src/op_log.rs.                            *)
(*                                                                         *)
(* The file is a sequence of cells; a cell knows the record it was written *)
(* for and its place in that record, the length header first.  An append   *)
(* runs under the handle map's mutex without an await, so one is under way *)
(* at a time; a crash may still cut it off between its system calls and    *)
(* keep any part of what was not synced.                                   *)
(***************************************************************************)
EXTENDS Naturals, Sequences, SequencesExt

CONSTANTS
    Writers,        \* calls of append, each with its own record
    Size,           \* the length of a record's body, in cells
    MaxUpdate,      \* MAX_UPDATE_BYTES, in cells
    Misread,        \* what header cells read out of place decode to
    Env,            \* what may go wrong, see Events
    NoWriter        \* sentinel

Header == 2         \* cells of the length header (four bytes in the code)

Events == {"short",     \* write_vectored takes only part of the record
           "sync",      \* fsync fails
           "crash",     \* the service dies
           "close"}     \* the room is evicted and the log closed

ASSUME FsAssumption ==
    /\ Size \in [Writers -> 1 .. MaxUpdate] /\ MaxUpdate \in Nat
    /\ Misread \in Nat /\ NoWriter \notin Writers /\ Env \subseteq Events

VARIABLES
    file,           \* the cells
    synced,         \* how many of them an fsync has covered
    writing,        \* the append that has written and not yet synced
    done,           \* appends that have returned
    acked,          \* those that returned Ok
    torn,           \* history: a record was left incomplete
    stranded        \* history: appends made after that

vars == <<file, synced, writing, done, acked, torn, stranded>>

Cells(w) == [i \in 1 .. (Header + Size[w]) |-> [of |-> w, at |-> i]]
Body(w)  == SubSeq(Cells(w), Header + 1, Header + Size[w])

Init ==
    /\ file = << >> /\ synced = 0 /\ writing = NoWriter
    /\ done = {} /\ acked = {} /\ torn = FALSE /\ stranded = {}

-----------------------------------------------------------------------------
(* The length that the header at position p stands for. *)
Decode(f, p) ==
    IF f[p].at = 1 /\ f[p + 1] = [of |-> f[p].of, at |-> 2]
    THEN Size[f[p].of] ELSE Misread

(* read_records: header by header until the end of the file, a length that    *)
(* cannot be, or a body that is cut short.                                    *)
NextHeader(f, p) == p + Header + Decode(f, p)

Stops(f, p) ==
    \/ p + Header > Len(f) + 1
    \/ Decode(f, p) > MaxUpdate
    \/ NextHeader(f, p) > Len(f) + 1

ReadRecords(f) ==
    LET from[p \in 1 .. (Len(f) + 1)] ==
            IF Stops(f, p) THEN << >>
            ELSE <<SubSeq(f, p + Header, NextHeader(f, p) - 1)>> \o from[NextHeader(f, p)]
    IN  from[1]

-----------------------------------------------------------------------------
Idle(w) == writing = NoWriter /\ w \notin done

Strand(w) == stranded' = IF torn THEN stranded \cup {w} ELSE stranded

(* append: header and body in one write_vectored that takes everything. *)
Write(w) ==
    /\ Idle(w)
    /\ file' = file \o Cells(w)
    /\ writing' = w
    /\ Strand(w)
    /\ UNCHANGED <<synced, done, acked, torn>>

(* It takes n cells only, and append returns an error; n = 0 is a plain error. *)
WriteShort(w, n) ==
    /\ "short" \in Env /\ Idle(w) /\ n < Len(Cells(w))
    /\ file' = file \o SubSeq(Cells(w), 1, n)
    /\ done' = done \cup {w}
    /\ torn' = (torn \/ n > 0)
    /\ UNCHANGED <<synced, writing, acked, stranded>>

(* Mutant: append returns without the fsync. *)
SyncSkipped(w) ==
    /\ writing = w
    /\ writing' = NoWriter
    /\ done' = done \cup {w} /\ acked' = acked \cup {w}
    /\ UNCHANGED <<file, synced, torn, stranded>>

(* sync_all, and append returns Ok. *)
Sync(w) ==
    /\ writing = w
    /\ synced' = Len(file)
    /\ writing' = NoWriter
    /\ done' = done \cup {w} /\ acked' = acked \cup {w}
    /\ UNCHANGED <<file, torn, stranded>>

(* sync_all fails: the record stays in the file. *)
SyncFails(w) ==
    /\ "sync" \in Env /\ writing = w
    /\ writing' = NoWriter
    /\ done' = done \cup {w}
    /\ UNCHANGED <<file, synced, acked, torn, stranded>>

(* close: the handle is synced and dropped. *)
Close ==
    /\ "close" \in Env /\ writing = NoWriter /\ synced < Len(file)
    /\ synced' = Len(file)
    /\ UNCHANGED <<file, writing, done, acked, torn, stranded>>

(* The service dies; n cells are still there when it starts again.  Nothing   *)
(* repairs the file: the next append opens it at its end.                     *)
Crash(n) ==
    /\ "crash" \in Env /\ n \in synced .. Len(file)
    /\ file' = SubSeq(file, 1, n) /\ synced' = n
    /\ writing' = NoWriter
    /\ done' = IF writing = NoWriter THEN done ELSE done \cup {writing}
    /\ torn' = (torn \/ (n > 0 /\ file[n].at # Header + Size[file[n].of]))
    /\ UNCHANGED <<acked, stranded>>

Next ==
    \/ \E w \in Writers : Write(w) \/ Sync(w) \/ SyncFails(w)
    \/ \E w \in Writers : \E n \in 0 .. (Header + Size[w]) : WriteShort(w, n)
    \/ Close
    \/ \E n \in 0 .. Len(file) : Crash(n)

Spec == Init /\ [][Next]_vars
-----------------------------------------------------------------------------
(***************************************************************************)
(* Properties.                                                             *)
(***************************************************************************)
Replay == ReadRecords(file)
ReadBack(w) == \E i \in DOMAIN Replay : Replay[i] = Body(w)

(* Acknowledged records that were appended to an intact file are read back,   *)
(* after any later crash, failed sync or torn record.                         *)
AckedBeforeTearKept == \A w \in acked \ stranded : ReadBack(w)

(* As long as no record was torn, a read returns whole records only, each at  *)
(* most once.                                                                 *)
CleanReplay ==
    ~torn /\ writing = NoWriter =>
        /\ \A i \in DOMAIN Replay : \E w \in done : Replay[i] = Body(w)
        /\ \A i, j \in DOMAIN Replay : Replay[i] = Replay[j] => i = j
        /\ FlattenSeq([i \in DOMAIN Replay |-> Cells(Replay[i][1].of)]) = file

(* What read_records makes of the file is neither less nor more. *)
ReadExact == AckedBeforeTearKept /\ CleanReplay

(* "The oplog records up to the last ACK are guaranteed to survive a crash." *)
AckedKept == \A w \in acked : ReadBack(w)
====
