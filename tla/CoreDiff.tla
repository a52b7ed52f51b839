------------------------------ MODULE CoreDiff ------------------------------
(***************************************************************************)
(* The comparison of two milestones (crates/nisaba-core/src/review.rs): a  *)
(* diff by lines whose changed regions are compared again by words and     *)
(* then by characters.  A text is a sequence of characters; a token is a   *)
(* text.  An edit script is a sequence of runs [op, n]; a list of changes  *)
(* is a sequence of runs [op, text].                                       *)
(***************************************************************************)
EXTENDS Integers, Sequences, FiniteSets, SequencesExt

CONSTANTS
    DiffWorkLimit,      \* DIFF_WORK_LIMIT: cells of one table
    RefineLimitChars    \* REFINE_LIMIT_CHARS: characters of a region

ASSUME DiffAssumption == DiffWorkLimit \in Nat /\ RefineLimitChars \in Nat

Newline == "\n"
Whitespace == {Newline, " "}

-----------------------------------------------------------------------------
(* Runs: push_op and push_change merge a run with one of its kind. *)

PushOp(out, op, n) ==
    CASE n = 0 -> out
      [] n > 0 /\ out # <<>> /\ Last(out).op = op -> [out EXCEPT ![Len(out)].n = @ + n]
      [] OTHER -> Append(out, [op |-> op, n |-> n])

PushChange(out, op, t) ==
    IF out # <<>> /\ Last(out).op = op THEN [out EXCEPT ![Len(out)].text = @ \o t]
    ELSE Append(out, [op |-> op, text |-> t])

PushOps(ops) ==
    LET out[k \in 0..Len(ops)] == IF k = 0 THEN <<>> ELSE PushOp(out[k - 1], ops[k].op, ops[k].n)
    IN  out[Len(ops)]

PushChanges(changes) ==
    LET out[k \in 0..Len(changes)] ==
            IF k = 0 THEN <<>> ELSE PushChange(out[k - 1], changes[k].op, changes[k].text)
    IN  out[Len(changes)]

-----------------------------------------------------------------------------
(* diff_seq: Hirschberg's division of the longest common subsequence. *)

CommonPrefix(a, b) ==
    LET most == IF Len(a) <= Len(b) THEN Len(a) ELSE Len(b)
    IN  CHOOSE n \in 0..most : /\ \A i \in 1..n : a[i] = b[i]
                               /\ n = most \/ a[n + 1] # b[n + 1]

(* lcs_row_prefix: row[j] is the length of the LCS of a and the first j    *)
(* elements of b, one rolling row per element of a.                        *)
LcsRowStep(prev, x, b) ==
    LET cur[j \in 0..Len(b)] ==
            IF j = 0 THEN 0
            ELSE IF b[j] = x THEN prev[j - 1] + 1
            ELSE IF cur[j - 1] >= prev[j] THEN cur[j - 1] ELSE prev[j]
    IN  cur

LcsRowPrefix(a, b) ==
    LET row[i \in 0..Len(a)] ==
            IF i = 0 THEN [j \in 0..Len(b) |-> 0] ELSE LcsRowStep(row[i - 1], a[i], b)
    IN  row[Len(a)]

(* lcs_row_suffix: row[j] for a and the elements of b from j on. *)
LcsRowSuffix(a, b) ==
    LET row == LcsRowPrefix(Reverse(a), Reverse(b))
    IN  [j \in 0..Len(b) |-> row[Len(b) - j]]

(* Mutant: the second half is not looked at. *)
SplitLeft(left, right) ==
    CHOOSE j \in DOMAIN left :
        /\ \A k \in DOMAIN left : left[k] <= left[j]
        /\ \A k \in DOMAIN left : k < j => left[k] < left[j]

(* The first place of b where the sum is largest. *)
Split(left, right) ==
    CHOOSE j \in DOMAIN left :
        /\ \A k \in DOMAIN left : left[k] + right[k] <= left[j] + right[j]
        /\ \A k \in DOMAIN left : k < j => left[k] + right[k] < left[j] + right[j]

Single(a, b) ==
    IF \E k \in 1..Len(b) : b[k] = a[1]
    THEN LET k == CHOOSE k \in 1..Len(b) : b[k] = a[1] /\ \A i \in 1..k - 1 : b[i] # a[1]
         IN  <<[op |-> "insert", n |-> k - 1], [op |-> "equal", n |-> 1],
               [op |-> "insert", n |-> Len(b) - k]>>
    ELSE <<[op |-> "delete", n |-> 1], [op |-> "insert", n |-> Len(b)]>>

CommonSuffix(a, b) == CommonPrefix(Reverse(a), Reverse(b))

(* hirschberg after the common ends: the longer part is cut in the middle, *)
(* the other where the two rows say that the halves match best.            *)
DiffMiddle(rec, a, b) ==
    LET mid == Len(a) \div 2
        split == Split(LcsRowPrefix(SubSeq(a, 1, mid), b),
                       LcsRowSuffix(SubSeq(a, mid + 1, Len(a)), b))
    IN  CASE a = <<>> -> <<[op |-> "insert", n |-> Len(b)]>>
          [] a # <<>> /\ b = <<>> -> <<[op |-> "delete", n |-> Len(a)]>>
          [] Len(a) = 1 /\ b # <<>> -> Single(a, b)
          [] OTHER -> rec[<<SubSeq(a, 1, mid), SubSeq(b, 1, split)>>] \o
                      rec[<<SubSeq(a, mid + 1, Len(a)), SubSeq(b, split + 1, Len(b))>>]

DiffStep(rec, a, b) ==
    LET prefix == CommonPrefix(a, b)
        suffix == CommonSuffix(SubSeq(a, prefix + 1, Len(a)), SubSeq(b, prefix + 1, Len(b)))
    IN  IF a # <<>> /\ b # <<>> /\ Len(a) > DiffWorkLimit \div Len(b)
        THEN <<[op |-> "delete", n |-> Len(a)], [op |-> "insert", n |-> Len(b)]>>
        ELSE <<[op |-> "equal", n |-> prefix]>> \o
             DiffMiddle(rec, SubSeq(a, prefix + 1, Len(a) - suffix), SubSeq(b, prefix + 1, Len(b) - suffix)) \o
             <<[op |-> "equal", n |-> suffix]>>

DiffSeq(old, new, Elements) ==
    LET rec[p \in Seq(Elements) \X Seq(Elements)] == DiffStep(rec, p[1], p[2])
    IN  PushOps(rec[<<old, new>>])

-----------------------------------------------------------------------------
(* Tokens. *)

(* The k-th smallest of a set of places, 0 before the first. *)
Nth(places, k) == IF k = 0 THEN 0 ELSE CHOOSE i \in places : Cardinality(places \cap 1..i) = k

(* The text cut after every place of the set and at its end. *)
CutAfter(t, places) ==
    LET ends == places \cup (IF t = <<>> THEN {} ELSE {Len(t)})
    IN  [k \in 1..Cardinality(ends) |-> SubSeq(t, Nth(ends, k - 1) + 1, Nth(ends, k))]

SplitLines(t) == CutAfter(t, {i \in 1..Len(t) : t[i] = Newline})

(* Atoms of words and of whitespace, in turn. *)
SplitWords(t) ==
    CutAfter(t, {i \in 1..Len(t) - 1 : (t[i] \in Whitespace) # (t[i + 1] \in Whitespace)})

SplitChars(t) == [i \in 1..Len(t) |-> <<t[i]>>]

-----------------------------------------------------------------------------
(* The elements of a side that the first runs cover, and the text that the *)
(* runs after from and up to to take from it (the cursors ai and bi).      *)
Consumed(ops, op, upto) ==
    LET sum[k \in 0..upto] ==
            IF k = 0 THEN 0 ELSE sum[k - 1] + (IF ops[k].op \in {"equal", op} THEN ops[k].n ELSE 0)
    IN  sum[upto]

Covered(tokens, ops, op, from, to) ==
    FlattenSeq(SubSeq(tokens, Consumed(ops, op, from) + 1, Consumed(ops, op, to)))

(* refine_chars: every run as its text. *)
RunTexts(a, b, ops) ==
    [k \in 1..Len(ops) |->
        [op |-> ops[k].op, text |-> IF ops[k].op = "insert" THEN Covered(b, ops, "insert", k - 1, k)
                                                            ELSE Covered(a, ops, "delete", k - 1, k)]]

RefineChars(old, new, Chars) ==
    LET a == SplitChars(old)
        b == SplitChars(new)
    IN  CASE old = <<>> -> <<[op |-> "insert", text |-> new]>>
          [] old # <<>> /\ new = <<>> -> <<[op |-> "delete", text |-> old]>>
          [] OTHER -> PushChanges(RunTexts(a, b, DiffSeq(a, b, Seq(Chars))))

(* The last runs of the groups: an equal run is one of its own, the        *)
(* deletions and insertions between two of them are one.                   *)
GroupEnds(ops) ==
    {i \in 1..Len(ops) : i = Len(ops) \/ ops[i].op = "equal" \/ ops[i + 1].op = "equal"}

(* diff_region: equal runs are kept, every other group is compared at the  *)
(* next tier, unless it is too large.                                      *)
DiffTokens(a, b, Chars, Refine(_, _)) ==
    LET ops == DiffSeq(a, b, Seq(Chars))
        ends == GroupEnds(ops)
        changes(k) ==
            LET x == Covered(a, ops, "delete", Nth(ends, k - 1), Nth(ends, k))
                y == Covered(b, ops, "insert", Nth(ends, k - 1), Nth(ends, k))
            IN  CASE ops[Nth(ends, k)].op = "equal" -> <<[op |-> "equal", text |-> x]>>
                  [] ops[Nth(ends, k)].op # "equal" /\ Len(x) + Len(y) > RefineLimitChars ->
                        <<[op |-> "delete", text |-> x], [op |-> "insert", text |-> y]>>
                  [] OTHER -> Refine(x, y)
    IN  PushChanges(FlattenSeq([k \in 1..Cardinality(ends) |-> changes(k)]))

DiffWords(old, new, Chars) ==
    DiffTokens(SplitWords(old), SplitWords(new), Chars, LAMBDA x, y : RefineChars(x, y, Chars))

DiffRegion(old, new, Chars) ==
    DiffTokens(SplitLines(old), SplitLines(new), Chars, LAMBDA x, y : DiffWords(x, y, Chars))

(* diff_chars *)
DiffChars(old, new, Chars) ==
    CASE old = new /\ old = <<>> -> <<>>
      [] old = new /\ old # <<>> -> <<[op |-> "equal", text |-> old]>>
      [] OTHER -> DiffRegion(old, new, Chars)

(* compare_milestones: a document that one side lacks counts as empty. *)
CompareMilestones(from, to, Chars) ==
    [p \in DOMAIN from \cup DOMAIN to |->
        DiffChars(IF p \in DOMAIN from THEN from[p] ELSE <<>>, IF p \in DOMAIN to THEN to[p] ELSE <<>>, Chars)]
=============================================================================
