---------------------------- MODULE CoreRedline -----------------------------
(***************************************************************************)
(* The redline of a marked text (crates/nisaba-core/src/redline.rs): every *)
(* character is kept, and markers are put around the runs that are         *)
(* inserted or deleted.  A text is a sequence of characters; of a marker   *)
(* only the delimiters and one token for the rest of it are kept; "raw" is *)
(* the backtick.                                                           *)
(***************************************************************************)
EXTENDS CoreMarks, SequencesExt

Closes == [c \in {"]", ")", "}"} |-> CASE c = "]" -> "[" [] c = ")" -> "(" [] c = "}" -> "{"]

Opening == {"[", "(", "{"}

(* How many of the first i characters are of the given ones. *)
Count(span, chars, i) == Cardinality({k \in 1..i : span[k] \in chars})

Occurrences(span, c) == Count(span, {c}, Len(span))

(* The nesting depth of one kind of bracket after the first i characters. *)
Depth(span, open, i) ==
    Count(span, {open}, i) - Count(span, {c \in DOMAIN Closes : Closes[c] = open}, i)

NeverNegative(span, open) == \A i \in 0..Len(span) : Depth(span, open, i) >= 0

(* classify_inline_safety: the first reason found, in the code's order. *)
ClassifyInlineSafety(span) ==
    IF \E open \in Opening : ~NeverNegative(span, open) \/ Depth(span, open, Len(span)) # 0 THEN "unbalanced brackets"
    ELSE IF Occurrences(span, "$") % 2 # 0 THEN "unbalanced math"
    ELSE IF Occurrences(span, "raw") % 2 # 0 THEN "unbalanced raw"
    ELSE "safe"

-----------------------------------------------------------------------------
(* RedlineStyle *)

DefaultStyle ==
    [insertOpen |-> <<"#add", "[">>, insertClose |-> <<"]">>,
     deleteOpen |-> <<"#del", "[">>, deleteClose |-> <<"]">>,
     replacedOpen |-> <<"#rep-open", "[", "]">>, replacedClose |-> <<"#rep-close", "[", "]">>]

(* opens_one_content_block *)
OpensOneContentBlock(open, close) ==
    /\ NeverNegative(open \o close, "[")
    /\ Depth(open, "[", Len(open)) = 1
    /\ Depth(open \o close, "[", Len(open) + Len(close)) = 0

(* non_square_delimiters_clean *)
NonSquareDelimitersClean(s) ==
    /\ \A open \in Opening \ {"["} : NeverNegative(s, open) /\ Depth(s, open, Len(s)) = 0
    /\ \A c \in {"$", "raw"} : Occurrences(s, c) % 2 = 0

(* RedlineStyle::validate finds no problem. *)
ValidStyle(style) ==
    /\ OpensOneContentBlock(style.insertOpen, style.insertClose)
    /\ OpensOneContentBlock(style.deleteOpen, style.deleteClose)
    /\ \A s \in {style.insertOpen, style.insertClose, style.deleteOpen, style.deleteClose} :
         NonSquareDelimitersClean(s)
    /\ ClassifyInlineSafety(style.replacedOpen) = "safe"
    /\ ClassifyInlineSafety(style.replacedClose) = "safe"

-----------------------------------------------------------------------------
(* redline_with_report *)

(* flag_to_run_kind: a deletion hides an insertion. *)
RunKind(flags) ==
    CASE "delete" \in flags -> "delete"
      [] "delete" \notin flags /\ "insert" \in flags -> "insert"
      [] OTHER -> "plain"

(* wrap_change and RedlineStyle::inline_markers *)
WrapChange(span, kind, style) ==
    IF kind = "insert" THEN style.insertOpen \o span \o style.insertClose
                       ELSE style.deleteOpen \o span \o style.deleteClose

(* Mutant: every span is wrapped. *)
EmitWrapped(span, kind, style) == WrapChange(span, kind, style)

(* emit_change: a span that may not be wrapped stays between two markers   *)
(* that are complete.                                                      *)
EmitChange(span, kind, style) ==
    IF ClassifyInlineSafety(span) = "safe" THEN WrapChange(span, kind, style)
                                           ELSE style.replacedOpen \o span \o style.replacedClose

(* The scan: what is written before the run that holds the i-th character, *)
(* and where that run starts; a run ends where the kind changes.           *)
Redline(text, marks, style) ==
    LET flags == CharFlags(text, marks)
        kind(i) == RunKind(flags[i - 1])
        emit(span, k) == IF k = "plain" THEN span ELSE EmitChange(span, k, style)
        flush(at, i) == at.out \o emit(SubSeq(text, at.start + 1, i), kind(i))
        next(at, i) == IF kind(i) = kind(i - 1) THEN at ELSE [out |-> flush(at, i - 1), start |-> i - 1]
        scan[i \in 1..Len(text)] == IF i = 1 THEN [out |-> <<>>, start |-> 0] ELSE next(scan[i - 1], i)
    IN  IF text = <<>> THEN <<>> ELSE flush(scan[Len(text)], Len(text))

-----------------------------------------------------------------------------
(* What a text has to satisfy to compile, as far as its delimiters go:     *)
(* brackets nest, and "$" opens math where it does not close it.  A stack  *)
(* holds what is open.                                                     *)
Broken == <<"error">>

NestStep(stack, c) ==
    IF stack = Broken THEN Broken
    ELSE IF c \in Opening THEN Append(stack, c)
    ELSE IF c \in DOMAIN Closes THEN
        IF stack # <<>> /\ Last(stack) = Closes[c] THEN Front(stack) ELSE Broken
    ELSE IF c # "$" THEN stack
    ELSE IF stack # <<>> /\ Last(stack) = "$" THEN Front(stack) ELSE Append(stack, "$")

Nesting(start, text) ==
    LET stack[i \in 0..Len(text)] == IF i = 0 THEN start ELSE NestStep(stack[i - 1], text[i])
    IN  stack

(* What is open after a text that starts where the stack is open. *)
Nest(start, text) == Nesting(start, text)[Len(text)]

Nested(text) == Nest(<<>>, text) = <<>>

(* Markers that nest, and whose content is in one bracket. *)
StyleNests(style) ==
    /\ \A open \in {style.insertOpen, style.deleteOpen} : Nest(<<>>, open) = <<"[">>
    /\ \A close \in {style.insertClose, style.deleteClose} : Nest(<<"[">>, close) = <<>>
    /\ Nested(style.replacedOpen) /\ Nested(style.replacedClose)

(* How many of the characters of a text have been seen, in order, after a  *)
(* longer one, when the first ones have been seen before.                  *)
Take(text, n, c) == IF n < Len(text) /\ text[n + 1] = c THEN n + 1 ELSE n

Taking(text, start, longer) ==
    LET taken[i \in 0..Len(longer)] == IF i = 0 THEN start ELSE Take(text, taken[i - 1], longer[i])
    IN  taken

Taken(text, start, longer) == Taking(text, start, longer)[Len(longer)]
=============================================================================
