---------------------------- MODULE CoreDocument ----------------------------
(***************************************************************************)
(* The document of nisaba-core (document.rs) and the review operations on  *)
(* it (review.rs, validation.rs): adding marks, resolving one change or a  *)
(* batch, and the comment threads that are anchored at marks.              *)
(***************************************************************************)
EXTENDS CoreMarks, SequencesExt

CONSTANTS
    Texts,          \* texts a document may be given
    FirstMarks,     \* marks a document may be loaded with
    NewMarks,       \* marks that may be added to it
    Anchors         \* the mark ids that may anchor a thread

ASSUME DocumentAssumption ==
    /\ \A t \in Texts : t \in Seq(Range(t))
    /\ FirstMarks \cup NewMarks \subseteq Mark /\ Anchors \subseteq MarkIds

VARIABLES
    text, marks,    \* the text and mark layers
    threads,        \* per mark id: the state of the thread anchored there, "none"
    done            \* the last operation, as the caller sees it

coreVars == <<text, marks, threads, done>>

Idle == [op |-> "none"]

CoreInit ==
    /\ text \in Texts /\ marks \in [MarkIds -> FirstMarks \cup {NoMark}]
    /\ threads = [id \in MarkIds |-> "none"] /\ done = Idle

(* MarkSet::insert: a mark of the same id is replaced. *)
AddMark(id, m) ==
    /\ marks' = [marks EXCEPT ![id] = m] /\ done' = Idle /\ UNCHANGED <<text, threads>>

RemoveMark(id) ==
    /\ marks[id] # NoMark
    /\ marks' = [marks EXCEPT ![id] = NoMark] /\ done' = Idle /\ UNCHANGED <<text, threads>>

(* Replacing the text invalidates every anchor. *)
SetText(t) ==
    /\ text' = t /\ marks' = NoMarks /\ done' = Idle /\ UNCHANGED threads

ResolveOne(id, how) ==
    /\ Resolvable(marks, id)
    /\ LET r == Resolve(text, marks, id, how) IN
       /\ text' = r.text /\ marks' = r.marks
       /\ done' = [op |-> "resolve", how |-> how, ids |-> {id}, emptied |-> r.emptied]
    /\ UNCHANGED threads

-----------------------------------------------------------------------------
(* review.rs *)

(* occurrence_order: timestamp, then id (one author). *)
Precedes(a, b) ==
    \/ marks[a].at < marks[b].at
    \/ marks[a].at = marks[b].at /\ a <= b

(* resolve_bulk: the selected marks one after the other in occurrence      *)
(* order; an id that is no change ends it with an error and no effect.     *)
Earliest(ids) == CHOOSE id \in ids : \A other \in ids : Precedes(id, other)

BulkOutcome(ids, how) ==
    LET selected == {id \in ids : marks[id] # NoMark}
        after[n \in 0..Cardinality(selected)] ==
            IF n = 0 THEN [text |-> text, marks |-> marks, emptied |-> {}, left |-> selected]
            ELSE LET r == after[n - 1]
                     id == Earliest(r.left)
                     next == Resolve(r.text, r.marks, id, how)
                 IN  [text |-> next.text, marks |-> next.marks,
                      emptied |-> r.emptied \cup next.emptied, left |-> r.left \ {id}]
    IN  after[Cardinality(selected)]

ResolveBulk(ids, how) ==
    /\ \A id \in ids : marks[id] # NoMark => IsChange(marks[id])
    /\ LET r == BulkOutcome(ids, how) IN
       /\ text' = r.text /\ marks' = r.marks
       /\ done' = [op |-> "bulk", how |-> how, ids |-> ids, emptied |-> r.emptied]
    /\ UNCHANGED threads

(* Mutant: the sweep steps over gaps. *)
RangeDeletedToItsEnd(m, deletes) ==
    LET parts == {x \in {Intersect(d, m) : d \in deletes} : ~IsEmpty(x)}
    IN  ~IsEmpty(m) /\ \E x \in parts : x.end >= m.end

(* The order of the sweep: by start, then by end. *)
Leftmost(ranges) ==
    CHOOSE x \in ranges :
        \A y \in ranges : x.start < y.start \/ (x.start = y.start /\ x.end <= y.end)

(* is_range_fully_deleted: a sweep over the parts of the range that the    *)
(* deletions cover, from the left.                                         *)
RangeFullyDeleted(m, deletes) ==
    LET covered == {x \in {Intersect(d, m) : d \in deletes} : ~IsEmpty(x)}
        sweep[n \in 0..Cardinality(covered)] ==
            IF n = 0 THEN [cursor |-> m.start, left |-> covered]
            ELSE LET s == sweep[n - 1]
                     x == Leftmost(s.left)
                 IN  [cursor |-> IF x.start > s.cursor THEN s.cursor ELSE Larger(s.cursor, x.end),
                      left |-> s.left \ {x}]
    IN  ~IsEmpty(m) /\ covered # {} /\ sweep[Cardinality(covered)].cursor >= m.end

DeleteMarks == {marks[id] : id \in OfKind(marks, "delete")}

NewThread(id) ==
    /\ threads[id] = "none"
    /\ threads' = [threads EXCEPT ![id] = "open"] /\ done' = Idle /\ UNCHANGED <<text, marks>>

(* CommentThread::resolve and reopen: the caller's. *)
SetThread(id, state) ==
    /\ threads[id] # "none"
    /\ threads' = [threads EXCEPT ![id] = state] /\ done' = Idle /\ UNCHANGED <<text, marks>>

(* refresh_comment_threads *)
Anchored(id) ==
    /\ marks[id] # NoMark /\ marks[id].kind = "comment"
    /\ ~IsEmpty(marks[id]) /\ ~RangeFullyDeleted(marks[id], DeleteMarks)

RefreshCommentThreads ==
    /\ threads' = [id \in MarkIds |->
                    CASE threads[id] = "none" -> "none"
                      [] threads[id] # "none" /\ ~Anchored(id) -> "orphaned"
                      [] OTHER -> IF threads[id] = "orphaned" THEN "open" ELSE threads[id]]
    /\ done' = [op |-> "refresh"] /\ UNCHANGED <<text, marks>>

-----------------------------------------------------------------------------
(* validation.rs: what validate reports, by kind of issue. *)

OutOfBounds ==
    {id \in MarkIds : marks[id] # NoMark /\ marks[id].start <= marks[id].end /\ marks[id].end > Len(text)}

(* Mutant: the ranges are compared as they were sent. *)
OverlapsAnywhere ==
    LET flags == CharFlags(text, marks)
    IN  {p \in OfKind(marks, "insert") \X OfKind(marks, "delete") :
            /\ \E i \in DOMAIN flags : {"insert", "delete"} \subseteq flags[i]
            /\ ~IsEmpty(Intersect(marks[p[1]], marks[p[2]]))}

(* Pairs of an insertion and a deletion that overlap within the text; only *)
(* looked for when some character has both flags.                          *)
InsertDeleteConflicts ==
    LET flags == CharFlags(text, marks)
        clamp(m) == [m EXCEPT !.start = Smaller(@, Len(text)), !.end = Smaller(@, Len(text))]
    IN  IF \E i \in DOMAIN flags : {"insert", "delete"} \subseteq flags[i]
        THEN {p \in OfKind(marks, "insert") \X OfKind(marks, "delete") :
                LET a == clamp(marks[p[1]])
                    b == clamp(marks[p[2]])
                IN  ~IsEmpty(a) /\ ~IsEmpty(b) /\ ~IsEmpty(Intersect(a, b))}
        ELSE {}

OrphanedComments ==
    {id \in OfKind(marks, "comment") : RangeFullyDeleted(marks[id], DeleteMarks)}

CoreNext ==
    \/ \E id \in MarkIds, m \in NewMarks : AddMark(id, m)
    \/ \E id \in Anchors : NewThread(id)
    \/ \E id \in MarkIds :
         \/ RemoveMark(id)
         \/ \E state \in {"open", "resolved"} : SetThread(id, state)
         \/ \E how \in {"accept", "reject"} : ResolveOne(id, how)
    \/ \E ids \in SUBSET MarkIds, how \in {"accept", "reject"} : ResolveBulk(ids, how)
    \/ \E t \in Texts : SetText(t)
    \/ RefreshCommentThreads

CoreSpec == CoreInit /\ [][CoreNext]_coreVars
-----------------------------------------------------------------------------
(* Properties. *)

InText(m, t) == m.start <= Len(t) /\ m.end <= Len(t)

(* A resolution never leaves a mark outside the text that was inside it    *)
(* ("resolve never produces an out-of-bounds mark"), alone or in a batch   *)
(* whose earlier steps clip the ranges of the later ones (resolve).        *)
ResolutionsKeepBounds ==
    [][\A id \in MarkIds :
         done'.op \in {"resolve", "bulk"} /\ marks[id] # NoMark /\ marks'[id] # NoMark /\ InText(marks[id], text)
           => InText(marks'[id], text')]_coreVars

(* Accepting changes leaves the proposed text as it is, rejecting changes  *)
(* leaves the baseline as it is, whatever else is pending, overlaps or is  *)
(* anchored in what is removed.                                            *)
ResolutionsKeepViews ==
    [][done'.op \in {"resolve", "bulk"} =>
         LET view == IF done'.how = "accept" THEN "proposed" ELSE "baseline"
         IN  Project(text', marks', view) = Project(text, marks, view)]_coreVars

(* A character of the text that the anchor covers is in no pending deletion. *)
Survives(id) ==
    /\ marks[id] # NoMark /\ marks[id].kind = "comment"
    /\ \E i \in marks[id].start..marks[id].end - 1 :
         i < Len(text) /\ \A d \in DeleteMarks : ~(d.start <= i /\ i < d.end)

(* The anchor goes on past the end of the text. *)
Overhangs(id) ==
    /\ marks[id] # NoMark /\ marks[id].kind = "comment"
    /\ ~IsEmpty(marks[id]) /\ marks[id].end > Len(text)

(* After a refresh a thread is orphaned only when no character of its      *)
(* anchor survives the pending deletions, and then always, unless its      *)
(* anchor overhangs the text: the positions past the end have no character *)
(* and count as one that survives (refresh_comment_threads,                *)
(* is_range_fully_deleted).  A refresh never resolves or reopens another.  *)
ThreadsFollowAnchors ==
    [][done'.op = "refresh" =>
         \A id \in MarkIds : threads[id] # "none" =>
            /\ threads'[id] = "orphaned" => ~Survives(id)
            /\ ~Survives(id) /\ ~Overhangs(id) => threads'[id] = "orphaned"
            /\ threads[id] \in {"open", "resolved"} => threads'[id] \in {threads[id], "orphaned"}]_coreVars

(* The comments on text of which nothing survives. *)
VanishedComments == {id \in OfKind(marks, "comment") : ~IsEmpty(marks[id]) /\ ~Survives(id)}

(* validate names a conflict for exactly the pairs of marks that share a   *)
(* character of the text, an orphan only for a comment that vanishes, and  *)
(* leaves no comment that vanishes unreported: one that is not named an    *)
(* orphan is named out of bounds.                                          *)
ValidationExact ==
    /\ InsertDeleteConflicts =
         {p \in OfKind(marks, "insert") \X OfKind(marks, "delete") :
            \E i \in 0..Len(text) - 1 : \A j \in {p[1], p[2]} : marks[j].start <= i /\ i < marks[j].end}
    /\ OrphanedComments \subseteq VanishedComments
    /\ VanishedComments \subseteq OrphanedComments \cup OutOfBounds

(* "This is the orphan predicate: a comment whose entire span would vanish *)
(* from the `proposed` view" (validation.rs:203-204).  The code does not   *)
(* hold it for a comment that overhangs the text.                          *)
OrphansVanish == OrphanedComments = VanishedComments
=============================================================================
