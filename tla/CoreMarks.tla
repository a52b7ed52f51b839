----------------------------- MODULE CoreMarks ------------------------------
(***************************************************************************)
(* The marks of nisaba-core (crates/nisaba-core/src/mark.rs, position.rs,  *)
(* projection.rs, resolution.rs, validation.rs): ranges of characters that *)
(* annotate a text, the views computed from them, and what accepting or    *)
(* rejecting one does.  A text is a sequence of characters; positions      *)
(* count characters from 0, so the character at position i is text[i + 1]. *)
(* A mark set is a function from ids to marks, NoMark where there is none. *)
(***************************************************************************)
EXTENDS Integers, Sequences, FiniteSets

CONSTANTS
    MarkIds,        \* MarkId is a number
    MaxPosition,    \* bound on the positions of a mark
    NoMark

MarkKinds == {"insert", "delete", "comment", "secret"}

ASSUME CoreAssumption ==
    /\ MarkIds \subseteq Nat /\ IsFiniteSet(MarkIds) /\ MaxPosition \in Nat
    /\ NoMark \notin [start : Nat, end : Nat, kind : MarkKinds, at : Nat]

(* A mark is what its client sent: nothing orders or bounds its ends. *)
Mark == [start : 0..MaxPosition, end : 0..MaxPosition, kind : MarkKinds, at : Nat]

MarkSets == [MarkIds -> Mark \cup {NoMark}]

NoMarks == [id \in MarkIds |-> NoMark]

IsChange(m) == m.kind \in {"insert", "delete"}

-----------------------------------------------------------------------------
(* Ranges: position.rs. *)

Smaller(a, b) == IF a <= b THEN a ELSE b
Larger(a, b) == IF a >= b THEN a ELSE b

IsEmpty(m) == m.start >= m.end
Intersect(m, n) == [start |-> Larger(m.start, n.start), end |-> Smaller(m.end, n.end)]

(* Marks by kind, in whatever order. *)
OfKind(marks, kind) == {id \in MarkIds : marks[id] # NoMark /\ marks[id].kind = kind}

-----------------------------------------------------------------------------
(* Projection: projection.rs. *)

(* char_flags: the kinds of the marks that cover a character.  A range     *)
(* past the end of the text covers nothing there.                          *)
CharFlags(text, marks) ==
    [i \in 0..Len(text) - 1 |->
        {kind \in MarkKinds \ {"comment"} :
            \E id \in OfKind(marks, kind) : marks[id].start <= i /\ i < marks[id].end}]

Hidden == [baseline |-> {"insert"}, proposed |-> {"delete"}, public |-> {"delete", "secret"},
           editor |-> {}]

(* filter: the characters none of whose flags the view hides. *)
Project(text, marks, view) ==
    LET flags == CharFlags(text, marks)
        out[n \in 0..Len(text)] ==
            CASE n = 0 -> <<>>
              [] n > 0 /\ flags[n - 1] \cap Hidden[view] = {} -> Append(out[n - 1], text[n])
              [] OTHER -> out[n - 1]
    IN  out[Len(text)]

-----------------------------------------------------------------------------
(* Resolution: resolution.rs. *)

(* Mutant: the removed range is one character too short. *)
RemapPositionShort(pos, from, to) ==
    CASE pos <= from -> pos
      [] pos > from /\ pos >= to -> pos - (to - from) + 1
      [] OTHER -> from

RemapPosition(pos, from, to) ==
    CASE pos <= from -> pos
      [] pos > from /\ pos >= to -> pos - (to - from)
      [] OTHER -> from

RemapRange(m, from, to) ==
    [m EXCEPT !.start = RemapPosition(m.start, from, to), !.end = RemapPosition(m.end, from, to)]

RemoveCharRange(text, from, to) == SubSeq(text, 1, from) \o SubSeq(text, to + 1, Len(text))

(* Mutant: a deletion removes its text however it is resolved. *)
RemovesDeleted(m, how) == m.kind = "delete" \/ (m.kind = "insert" /\ how = "reject")

RemovesText(m, how) ==
    \/ m.kind = "insert" /\ how = "reject"
    \/ m.kind = "delete" /\ how = "accept"

(* resolve: the text and marks after a change is accepted or rejected.     *)
(* What is removed is the part of the range that is in the text; every     *)
(* other mark moves along.                                                 *)
Resolve(text, marks, id, how) ==
    LET m == marks[id]
        from == Smaller(m.start, Len(text))
        to == Smaller(m.end, Len(text))
        others == [marks EXCEPT ![id] = NoMark]
    IN  IF ~RemovesText(m, how) \/ from >= to
        THEN [text |-> text, marks |-> others, emptied |-> {}]
        ELSE LET moved == [j \in MarkIds |->
                             IF others[j] = NoMark THEN NoMark ELSE RemapRange(others[j], from, to)]
             IN  [text |-> RemoveCharRange(text, from, to), marks |-> moved,
                  emptied |-> {j \in MarkIds : /\ others[j] # NoMark
                                               /\ ~IsEmpty(others[j]) /\ IsEmpty(moved[j])}]

(* resolve answers MarkNotFound or NotAChange for anything else. *)
Resolvable(marks, id) == marks[id] # NoMark /\ IsChange(marks[id])
=============================================================================
