--------------------------- MODULE CorePositions ----------------------------
(***************************************************************************)
(* Positions and their offsets (crates/nisaba-core/src/position.rs): a     *)
(* position counts Unicode scalar values, a byte offset the bytes of their *)
(* UTF-8 encoding and an editor offset their UTF-16 code units.  A text is *)
(* a sequence of characters of which only the widths matter.               *)
(***************************************************************************)
EXTENDS Integers, Sequences

Char == [bytes : 1..4, units : 1..2]

Widths == {[bytes |-> 1, units |-> 1], [bytes |-> 2, units |-> 1],
           [bytes |-> 3, units |-> 1], [bytes |-> 4, units |-> 2]}

None == -1

(* Per gap between characters: the bytes, the code units before it. *)
ByteOffsets(text) ==
    LET at[i \in 0..Len(text)] == IF i = 0 THEN 0 ELSE at[i - 1] + text[i].bytes IN at

UnitOffsets(text) ==
    LET at[i \in 0..Len(text)] == IF i = 0 THEN 0 ELSE at[i - 1] + text[i].units IN at

ByteLen(text) == ByteOffsets(text)[Len(text)]
UnitLen(text) == UnitOffsets(text)[Len(text)]

(* to_byte, to_utf16: the trailing gap counts, nothing after it does. *)
ToByte(text, pos) == IF pos > Len(text) THEN None ELSE ByteOffsets(text)[pos]

(* Mutant: every character is one unit. *)
ToUtf16Chars(text, pos) == IF pos > Len(text) THEN None ELSE pos

ToUtf16(text, pos) == IF pos > Len(text) THEN None ELSE UnitOffsets(text)[pos]

(* The first gap at which the count of what was passed equals the offset. *)
FirstGap(at, offset) ==
    IF \E i \in DOMAIN at : at[i] = offset
    THEN CHOOSE i \in DOMAIN at : at[i] = offset /\ \A j \in 0..i - 1 : at[j] # offset
    ELSE None

FromByte(text, offset) == FirstGap(ByteOffsets(text), offset)

FromUtf16(text, offset) == FirstGap(UnitOffsets(text), offset)

(* slice_chars: what the bytes between the two offsets hold, None when the *)
(* range is not ordered or leaves the text.                                *)
SliceChars(text, start, end) ==
    LET from == ToByte(text, start)
        to == ToByte(text, end)
    IN  IF start > end \/ from = None \/ to = None \/ to < from \/ to > ByteLen(text)
        THEN [found |-> FALSE]
        ELSE [found |-> TRUE, text |-> SubSeq(text, FromByte(text, from) + 1, FromByte(text, to))]
=============================================================================
