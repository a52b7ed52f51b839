----------------------------- MODULE Citations ------------------------------
(***************************************************************************)
(* extract_citations of crates/nisaba-references: the citation keys of a   *)
(* Typst source, without the ones in comments, strings and raw text.  A    *)
(* source is a sequence of bytes; "raw" is the backtick, "\n" the newline, *)
(* "k" stands for the letters and digits of a key, "#cite" for that word.  *)
(* Positions count from 1, and Len(s) + 1 is the end.  A source with an    *)
(* error has no citations: the first error is all that is answered.        *)
(***************************************************************************)
EXTENDS Integers, Sequences, SequencesExt

NoError == 0
Unclosed == -1      \* ReferenceError::UnclosedCitation
InvalidId == -2     \* ReferenceError::InvalidId

At(s, i, c) == i <= Len(s) /\ s[i] = c
End(s) == Len(s) + 1

(* The first place from i on that is in the set, else the end. *)
FirstFrom(s, i, wanted(_)) ==
    IF \E j \in i..Len(s) : wanted(s[j])
    THEN CHOOSE j \in i..Len(s) : wanted(s[j]) /\ \A k \in i..j - 1 : ~wanted(s[k])
    ELSE IF i > End(s) THEN i ELSE End(s)

SkipLine(s, i) == FirstFrom(s, i, LAMBDA c : c = "\n")

(* Mutant: the first end of a comment ends it. *)
SkipFlatComment(s, i) ==
    IF \E j \in i..Len(s) - 1 : s[j] = "*" /\ s[j + 1] = "/"
    THEN 2 + CHOOSE j \in i..Len(s) - 1 :
               /\ s[j] = "*" /\ s[j + 1] = "/"
               /\ \A k \in i..j - 1 : ~(s[k] = "*" /\ s[k + 1] = "/")
    ELSE End(s)

(* skip_block_comment: they nest. *)
SkipBlockComment(s, i) ==
    LET from[p \in Nat \X Nat] ==
            LET j == p[1]
                depth == p[2]
            IN  IF j + 1 > Len(s) THEN End(s)
                ELSE IF s[j] = "/" /\ s[j + 1] = "*" THEN from[<<j + 2, depth + 1>>]
                ELSE IF s[j] = "*" /\ s[j + 1] = "/"
                     THEN IF depth = 1 THEN j + 2 ELSE from[<<j + 2, depth - 1>>]
                ELSE from[<<j + 1, depth>>]
    IN  from[<<i, 1>>]

(* skip_string: a backslash takes the next byte with it, and may lead past *)
(* the end.                                                                *)
SkipString(s, i) ==
    LET from[j \in Nat] == IF j > Len(s) THEN End(s)
                           ELSE IF s[j] = "\\" THEN from[j + 2]
                           ELSE IF s[j] = "\"" THEN j + 1 ELSE from[j + 1]
    IN  from[i]

(* skip_raw: up to a run of at least as many backticks. *)
SkipRaw(s, i) ==
    LET runEnd(j) == FirstFrom(s, j, LAMBDA c : c # "raw")
        fence == runEnd(i) - i
        from[j \in Nat] == LET open == FirstFrom(s, j, LAMBDA c : c = "raw")
                               close == runEnd(open)
                           IN  IF open > Len(s) THEN End(s)
                               ELSE IF close - open >= fence THEN close ELSE from[close]
    IN  from[runEnd(i)]

KeyEnd(s, i) == FirstFrom(s, i, LAMBDA c : c \notin {"k", ":"})
IdentifierEnd(s, i) == FirstFrom(s, i, LAMBDA c : c # "k")
Blank(c) == c \in {" ", "\n"}

(* matching_paren, or 0: strings are skipped. *)
MatchingParen(s, open) ==
    LET from[p \in Nat \X Nat] ==
            LET j == p[1]
                depth == p[2]
            IN  IF j > Len(s) THEN 0
                ELSE IF s[j] = "\"" THEN from[<<SkipString(s, j + 1), depth>>]
                ELSE IF s[j] = "(" THEN from[<<j + 1, depth + 1>>]
                ELSE IF s[j] = ")" THEN IF depth = 1 THEN j ELSE from[<<j + 1, depth - 1>>]
                ELSE from[<<j + 1, depth>>]
    IN  from[<<open, 0>>]

Least(a, b) == IF a <= b THEN a ELSE b

(* The place after a named argument's value, 0 when its label never ends. *)
AfterNamed(s, colon, close) ==
    LET value == Least(FirstFrom(s, colon + 1, LAMBDA c : ~Blank(c)), close)
        angle == FirstFrom(s, value + 1, LAMBDA c : c = ">")
    IN  IF value < close /\ s[value] = "\"" THEN SkipString(s, value + 1)
        ELSE IF value < close /\ s[value] = "<" THEN IF angle < close THEN angle + 1 ELSE 0
        ELSE value

(* The citation at i of the key from first to last: an empty key is none,  *)
(* and ReferenceId::new refuses one with a path separator.                 *)
Citation(s, i, first, last) ==
    CASE first > last -> <<>>
      [] first <= last /\ Range(SubSeq(s, first, last)) \cap {"/", "\\"} # {} -> <<InvalidId>>
      [] OTHER -> <<i>>

(* The keys among the arguments of a #cite call: labels, strings and bare  *)
(* identifiers that no colon follows; each at its place.                   *)
CiteKeys(s, open, close) ==
    LET args[p \in Nat] ==
            LET i == Least(FirstFrom(s, p, LAMBDA c : ~Blank(c) /\ c # ","), close)
                closing == IF s[i] = "<" THEN ">" ELSE "\""
                end == FirstFrom(s, i + 1, LAMBDA c : c = closing)
                bare == Least(IdentifierEnd(s, i), close)
                after == Least(FirstFrom(s, bare, LAMBDA c : ~Blank(c)), close)
                named == after < close /\ s[after] = ":"
                next(j) == args[Least(FirstFrom(s, j, LAMBDA c : c = ","), close)]
            IN  IF i >= close THEN <<>>
                ELSE IF s[i] \in {"<", "\""}
                     THEN IF end >= close THEN <<>> ELSE Citation(s, i, i + 1, end - 1) \o next(end + 1)
                ELSE IF named
                     THEN IF AfterNamed(s, after, close) = 0 THEN <<>> ELSE next(AfterNamed(s, after, close))
                ELSE Citation(s, i, i, bare - 1) \o next(IF bare > i THEN bare ELSE i + 1)
    IN  args[open + 1]

(* extract_citations: the places of the citations, or the first error.     *)
ExtractCitations(s) ==
    LET scan[i \in Nat] ==
            LET call == FirstFrom(s, i + 1, LAMBDA c : ~Blank(c))
                close == MatchingParen(s, call)
                key == KeyEnd(s, i + 1)
            IN  IF i > Len(s) THEN <<>>
                ELSE IF s[i] = "/" /\ At(s, i + 1, "/") THEN scan[SkipLine(s, i + 2)]
                ELSE IF s[i] = "/" /\ At(s, i + 1, "*") THEN scan[SkipBlockComment(s, i + 2)]
                ELSE IF s[i] = "\"" THEN scan[SkipString(s, i + 1)]
                ELSE IF s[i] = "raw" THEN scan[SkipRaw(s, i)]
                ELSE IF s[i] = "@" THEN Citation(s, i, i + 1, key - 1) \o scan[key]
                ELSE IF s[i] = "#cite" /\ At(s, call, "(") /\ ~At(s, i + 1, "k")
                     THEN IF close = 0 THEN <<Unclosed>> ELSE CiteKeys(s, call, close) \o scan[close + 1]
                ELSE scan[i + 1]
        found == scan[1]
        errors == SelectSeq(found, LAMBDA x : x < 0)
    IN  IF errors = <<>> THEN [error |-> NoError, places |-> found] ELSE [error |-> Head(errors), places |-> <<>>]

-----------------------------------------------------------------------------
(* The same by reading byte after byte: the state is where one is.  A      *)
(* comment opens or closes with its second byte; a fence is complete at    *)
(* the byte after it.                                                      *)
Text == [in |-> "text", depth |-> 0, run |-> 0, prev |-> "none"]

ReadByte(state, c) ==
    CASE state.in = "text" ->
            CASE state.prev = "/" /\ c = "/" -> [Text EXCEPT !.in = "line"]
              [] state.prev = "/" /\ c = "*" -> [Text EXCEPT !.in = "block", !.depth = 1]
              [] c = "\"" -> [Text EXCEPT !.in = "string"]
              [] c = "raw" -> [Text EXCEPT !.in = "fence", !.depth = 1]
              [] OTHER -> [Text EXCEPT !.prev = c]
      [] state.in = "line" -> IF c = "\n" THEN Text ELSE state
      [] state.in = "block" ->
            CASE state.prev = "/" /\ c = "*" -> [state EXCEPT !.depth = @ + 1, !.prev = "none"]
              [] state.prev = "*" /\ c = "/" ->
                    IF state.depth = 1 THEN Text ELSE [state EXCEPT !.depth = @ - 1, !.prev = "none"]
              [] OTHER -> [state EXCEPT !.prev = c]
      [] state.in = "string" ->
            CASE state.prev = "\\" -> [state EXCEPT !.prev = "none"]
              [] state.prev # "\\" /\ c = "\"" -> Text
              [] OTHER -> [state EXCEPT !.prev = c]
      [] state.in = "fence" ->
            IF c = "raw" THEN [state EXCEPT !.depth = @ + 1] ELSE [state EXCEPT !.in = "raw", !.run = 0]
      [] state.in = "raw" /\ c = "raw" -> [state EXCEPT !.run = @ + 1]
      [] OTHER -> [state EXCEPT !.run = 0]

(* Where the byte at i is read. *)
Leaves(state, c) == state.in = "raw" /\ state.run >= state.depth /\ c # "raw"

StateBefore(s, i) ==
    LET step(state, c) == ReadByte(IF Leaves(state, c) THEN Text ELSE state, c)
        state == FoldLeft(step, Text, SubSeq(s, 1, i - 1))
    IN  IF Leaves(state, s[i]) THEN Text ELSE state

Mentions(s) ==
    {i \in 1..Len(s) - 1 : s[i] = "@" /\ s[i + 1] \in {"k", ":"} /\ StateBefore(s, i).in = "text"}
=============================================================================
