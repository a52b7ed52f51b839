------------------------------ MODULE S3OpLog ------------------------------
(***************************************************************************)
(* The op log of one document as numbered S3 objects: S3OpLogStore in      *)
(* services/sync/src/s3.rs.                                                *)
(*                                                                         *)
(* A writer is one call of append, whose record is the writer itself.      *)
(* Several calls may be in flight at once: a room can be evicted and       *)
(* opened again while an append of its first incarnation still waits for   *)
(* its PUT.  read_all, the other operation, is one reader that starts      *)
(* over and over.                                                          *)
(***************************************************************************)
EXTENDS Integers, Sequences, FiniteSets

CONSTANTS
    Writers,            \* calls of append
    Env,                \* what may go wrong, see Events
    NoNumber, NoWriter  \* sentinels

Events ==
    {"error",   \* a request is reported failed, whether or not it took effect
     "close",   \* the room is evicted and the log closed
     "crash"}   \* the service dies

ASSUME SentinelAssumption == NoNumber \notin Nat /\ NoWriter \notin Writers
ASSUME EnvAssumption == Env \subseteq Events

VARIABLES
    parts,          \* the objects: a function from numbers to records
    nextPart,       \* the cached next number, or NoNumber
    holder,         \* who holds the document's lock
    pc, part,       \* per writer: where it is, and the number it was given
    acked, failed,  \* writers whose append returned Ok, or an error
    reading, out,   \* read_all: how many parts it fetches, those it has
    owed            \* what was acknowledged when read_all began

storeVars  == <<parts, nextPart, holder>>
writerVars == <<pc, part, acked, failed>>
readerVars == <<reading, out, owed>>
vars == <<storeVars, writerVars, readerVars>>

Holding == {"listing", "putting", "landed"}

Init ==
    /\ parts = << >> /\ nextPart = NoNumber /\ holder = NoWriter
    /\ pc = [w \in Writers |-> "idle"] /\ part = [w \in Writers |-> 0]
    /\ acked = {} /\ failed = {}
    /\ reading = NoNumber /\ out = << >> /\ owed = {}

(* next_number: one more than the highest number there is. *)
NextNumber(S) ==
    IF S = {} THEN 0 ELSE 1 + (CHOOSE n \in S : \A m \in S : m <= n)

(* contiguous_prefix_len: the length of the leading run 0, 1, 2, ... *)
ContiguousPrefixLen(S) ==
    CHOOSE n \in 0 .. Cardinality(S) : n \notin S /\ \A m \in 0 .. (n - 1) : m \in S

(* PutObject: the object is there, whole, and replaces one of the same key. *)
Stored(n, w) ==
    [m \in DOMAIN parts \cup {n} |-> IF m = n THEN w ELSE parts[m]]

Release(w) == holder' = IF holder = w THEN NoWriter ELSE holder

-----------------------------------------------------------------------------
(* append: take the document's lock, and the cached number if there is one. *)
Allocate(w) ==
    /\ pc[w] = "idle" /\ holder = NoWriter
    /\ holder' = w
    /\ IF nextPart = NoNumber
       THEN pc' = [pc EXCEPT ![w] = "listing"] /\ UNCHANGED part
       ELSE /\ pc' = [pc EXCEPT ![w] = "putting"]
            /\ part' = [part EXCEPT ![w] = nextPart]
    /\ UNCHANGED <<parts, nextPart, acked, failed, readerVars>>

(* next_part_for: seed the cache from a listing. *)
List(w) ==
    /\ pc[w] = "listing"
    /\ pc' = [pc EXCEPT ![w] = "putting"]
    /\ part' = [part EXCEPT ![w] = NextNumber(DOMAIN parts)]
    /\ nextPart' = NextNumber(DOMAIN parts)
    /\ UNCHANGED <<parts, holder, acked, failed, readerVars>>

(* The PUT takes effect. *)
Land(w) ==
    /\ pc[w] = "putting"
    /\ pc' = [pc EXCEPT ![w] = "landed"]
    /\ parts' = Stored(part[w], w)
    /\ UNCHANGED <<nextPart, holder, part, acked, failed, readerVars>>

(* The PUT is answered: the number is used up and the append returns. *)
PutOk(w) ==
    /\ pc[w] = "landed"
    /\ pc' = [pc EXCEPT ![w] = "done"]
    /\ nextPart' = part[w] + 1
    /\ Release(w)
    /\ acked' = acked \cup {w}
    /\ UNCHANGED <<parts, part, failed, readerVars>>

(* A request is given up: a PUT that has not taken effect is lost. *)
GiveUp(l) == IF l = "putting" THEN "lost" ELSE "done"

(* Mutant: a failed PUT uses its number up. *)
RequestFailsConsuming(w) ==
    /\ "error" \in Env /\ pc[w] \in Holding
    /\ pc' = [pc EXCEPT ![w] = GiveUp(@)]
    /\ nextPart' = IF pc[w] = "listing" THEN nextPart ELSE part[w] + 1
    /\ Release(w)
    /\ failed' = failed \cup {w}
    /\ UNCHANGED <<parts, part, acked, readerVars>>

(* The listing or the PUT fails: the number stays to be used. *)
RequestFails(w) ==
    /\ "error" \in Env /\ pc[w] \in Holding
    /\ pc' = [pc EXCEPT ![w] = GiveUp(@)]
    /\ Release(w)
    /\ failed' = failed \cup {w}
    /\ UNCHANGED <<parts, nextPart, part, acked, readerVars>>

(* Mutant: close drops the lock too, so that the next append makes a new one. *)
CloseWithLock ==
    /\ "close" \in Env /\ nextPart # NoNumber
    /\ nextPart' = NoNumber /\ holder' = NoWriter
    /\ UNCHANGED <<parts, writerVars, readerVars>>

(* close: only the cached number is dropped. *)
Close ==
    /\ "close" \in Env /\ nextPart # NoNumber
    /\ nextPart' = NoNumber
    /\ UNCHANGED <<parts, holder, writerVars, readerVars>>

Crash ==
    /\ "crash" \in Env
    /\ nextPart # NoNumber \/ holder # NoWriter \/ reading # NoNumber
    /\ nextPart' = NoNumber /\ holder' = NoWriter
    /\ pc' = [w \in Writers |-> IF pc[w] \in Holding THEN GiveUp(pc[w]) ELSE pc[w]]
    /\ reading' = NoNumber /\ out' = << >> /\ owed' = {}
    /\ UNCHANGED <<parts, part, acked, failed>>

-----------------------------------------------------------------------------
(* Mutant: the last part of the listing is left out. *)
ReadBeginShort ==
    /\ reading = NoNumber
    /\ reading' = IF parts = << >> THEN 0 ELSE ContiguousPrefixLen(DOMAIN parts) - 1
    /\ owed' = acked
    /\ UNCHANGED <<out, storeVars, writerVars>>

(* read_all takes no lock: it lists, then fetches part by part. *)
ReadBegin ==
    /\ reading = NoNumber
    /\ reading' = ContiguousPrefixLen(DOMAIN parts)
    /\ owed' = acked
    /\ UNCHANGED <<out, storeVars, writerVars>>

ReadPart ==
    /\ reading # NoNumber /\ Len(out) < reading
    /\ out' = Append(out, parts[Len(out)])
    /\ UNCHANGED <<reading, owed, storeVars, writerVars>>

ReadEnd ==
    /\ reading # NoNumber /\ Len(out) = reading
    /\ reading' = NoNumber /\ out' = << >> /\ owed' = {}
    /\ UNCHANGED <<storeVars, writerVars>>

-----------------------------------------------------------------------------
WriterStep(w) ==
    Allocate(w) \/ List(w) \/ Land(w) \/ PutOk(w) \/ RequestFails(w)

Next ==
    \/ \E w \in Writers : WriterStep(w)
    \/ Close \/ Crash
    \/ ReadBegin \/ ReadPart \/ ReadEnd

Spec == Init /\ [][Next]_vars

(***************************************************************************)
(* The same store when a PUT that was given up may still take effect.      *)
(***************************************************************************)
LandLate(w) ==
    /\ pc[w] = "lost"
    /\ pc' = [pc EXCEPT ![w] = "done"]
    /\ parts' = Stored(part[w], w)
    /\ UNCHANGED <<nextPart, holder, part, acked, failed, readerVars>>

LateNext == Next \/ \E w \in Writers : LandLate(w)

LateSpec == Init /\ [][LateNext]_vars
-----------------------------------------------------------------------------
(***************************************************************************)
(* Properties.                                                             *)
(***************************************************************************)

(* Every variable has its type. *)
TypeOK ==
    /\ DOMAIN parts \subseteq Nat /\ \A n \in DOMAIN parts : parts[n] \in Writers
    /\ nextPart \in Nat \cup {NoNumber} /\ holder \in Writers \cup {NoWriter}
    /\ pc \in [Writers -> {"idle", "lost", "done"} \cup Holding]
    /\ part \in [Writers -> Nat]
    /\ acked \subseteq Writers /\ failed \subseteq Writers
    /\ reading \in Nat \cup {NoNumber} /\ out \in Seq(Writers)
    /\ owed \subseteq Writers

(* "Replay never observes a gap": failed appends, evictions and crashes     *)
(* leave the numbers in use contiguous from 0.                              *)
NoGap == \A n \in DOMAIN parts : 0 .. n \subseteq DOMAIN parts

(* A read that has fetched its parts returns every record whose append had  *)
(* succeeded before the read began, each at its own number, although other  *)
(* appends, failures and evictions go on under it.                          *)
ReadComplete ==
    reading # NoNumber /\ Len(out) = reading =>
        \A w \in owed : part[w] + 1 \in DOMAIN out /\ out[part[w] + 1] = w

(* The log that read_all makes of a set of objects. *)
Replay(objects) ==
    [i \in 1 .. ContiguousPrefixLen(DOMAIN objects) |-> objects[i - 1]]

Abstract == INSTANCE OpLog WITH Records <- Writers, log <- Replay(parts)

(* The objects implement the append-only log of OpLogStore. *)
ImplementsOpLog == Abstract!Spec
====
