---------------------------- MODULE ReviewState -----------------------------
(***************************************************************************)
(* From the review items of a document's synced state to the text that is  *)
(* compiled: services/app/src/review_state.rs, projected_source of         *)
(* services/app/src/lib.rs and the same function of nisaba-core-wasm.  An  *)
(* item is what a client wrote: [kind, status, orphaned, change, from, to, *)
(* fromCursor, toCursor, at]; a cursor is the offset it resolves to, or    *)
(* NoCursor.  A mark's id is its timestamp.                                *)
(***************************************************************************)
EXTENDS CoreMarks

CONSTANT NoCursor

(* Mutant: a suggestion counts whether or not it is still open. *)
AnySuggestion(item) == item.kind = "suggestion" /\ item.change \in {"insert", "delete"}

(* mark_from_item gives a mark. *)
OpenSuggestion(item) ==
    /\ item.kind = "suggestion" /\ item.status = "open" /\ ~item.orphaned
    /\ item.change \in {"insert", "delete"}

Resolved(cursor, offset) == IF cursor = NoCursor THEN offset ELSE cursor

MarkFromItem(item, len) ==
    [start |-> Resolved(item.fromCursor, item.from),
     end |-> Smaller(Resolved(item.toCursor, item.to), len),
     kind |-> item.change, at |-> item.at]

(* review_marks_from_snapshot: by start, end and timestamp. *)
MarkBefore(a, b) ==
    \/ a.start < b.start
    \/ a.start = b.start /\ a.end < b.end
    \/ a.start = b.start /\ a.end = b.end /\ a.at < b.at

(* The sort is stable: of marks it does not tell apart, the one read first *)
(* stays first.                                                            *)
AddedBefore(items, len, j, k) ==
    LET a == MarkFromItem(items[j], len)
        b == MarkFromItem(items[k], len)
    IN  MarkBefore(a, b) \/ (~MarkBefore(b, a) /\ j < k)

(* projected_source: a mark without an id is known by its timestamp, and   *)
(* add_mark replaces a mark of the same id, so the last of them stays.     *)
ReviewMarks(items, len) ==
    LET open(id) == {k \in DOMAIN items : OpenSuggestion(items[k]) /\ items[k].at = id}
        last(id) == CHOOSE k \in open(id) : \A j \in open(id) \ {k} : AddedBefore(items, len, j, k)
    IN  [id \in MarkIds |-> IF open(id) = {} THEN NoMark ELSE MarkFromItem(items[last(id)], len)]
=============================================================================
