--------------------------- MODULE CoreDiffProofs ---------------------------
(***************************************************************************)
(* That a comparison of two milestones loses nothing and invents nothing,  *)
(* for all texts and limits.                                               *)
(*                                                                         *)
(* A script is Aligned with two texts when its runs cover both and its     *)
(* equal runs agree.  DiffSeqSolved shows, by induction over the length of *)
(* the texts, that diff_seq makes aligned scripts, and that the equal runs *)
(* are as long as a common subsequence can be when the table is not too    *)
(* large.  Each tier cuts the texts into parts, which a script shares out  *)
(* among groups, and the changes of the groups make the two sides again    *)
(* (GroupsFaithful).                                                       *)
(***************************************************************************)
EXTENDS CoreProofs

-----------------------------------------------------------------------------
(* Edit scripts: what their runs cover of the two sides. *)

(* Runs of an edit script, and what one of them takes from a side. *)
Run == [op : {"equal", "delete", "insert"}, n : Nat]
Width(r, op) == IF r.op \in {"equal", op} THEN r.n ELSE 0

LEMMA CursorSteps ==
    ASSUME NEW ops, Len(ops) \in Nat, \A k \in 1 .. Len(ops) : ops[k].n \in Nat, NEW op
    PROVE  /\ \A k \in 0 .. Len(ops) : Consumed(ops, op, k) \in Nat
           /\ Consumed(ops, op, 0) = 0
           /\ \A k \in 1 .. Len(ops) : Consumed(ops, op, k) = Consumed(ops, op, k - 1) + Width(ops[k], op)
<1> DEFINE n == Len(ops)
           Sum(m, f) == f = [k \in 0 .. m |-> IF k = 0 THEN 0 ELSE f[k - 1] + Width(ops[k], op)]
<1>1. ASSUME NEW m \in 0 .. n
      PROVE  \E f : Sum(m, f) /\ Consumed(ops, op, m) = f[m]
  <2> DEFINE w == [k \in 1 .. n |-> Width(ops[k], op)]
             sum[k \in 0 .. m] ==
               IF k = 0 THEN 0 ELSE sum[k - 1] + (IF ops[k].op \in {"equal", op} THEN ops[k].n ELSE 0)
  <2>1. m \in Nat /\ \A k \in 1 .. m : w[k] \in Nat /\ w[k] = Width(ops[k], op)
    BY DEF Width
  <2> HIDE DEF w
  <2>2. PICK f : f = [i \in 0 .. m |-> IF i = 0 THEN 0 ELSE f[i - 1] + w[i]]
    BY ONLY <2>1, SumsExist
  <2>3. \A i \in 0 .. m : f[i] = IF i = 0 THEN 0 ELSE f[i - 1] + (IF ops[i].op \in {"equal", op} THEN ops[i].n ELSE 0)
    <3> TAKE i \in 0 .. m
    <3>1. f[i] = IF i = 0 THEN 0 ELSE f[i - 1] + w[i]
      BY <2>2, Zenon
    <3>2. i = 0 \/ i \in 1 .. m
      OBVIOUS
    <3> QED BY <2>1, <3>1, <3>2 DEF Width
  <2>4. f = [i \in 0 .. m |-> IF i = 0 THEN 0 ELSE f[i - 1] + (IF ops[i].op \in {"equal", op} THEN ops[i].n ELSE 0)]
    <3>1. f = [i \in 0 .. m |-> f[i]]
      BY <2>2
    <3> QED BY ONLY <2>3, <3>1
  <2>5. sum = [i \in 0 .. m |-> IF i = 0 THEN 0 ELSE sum[i - 1] + (IF ops[i].op \in {"equal", op} THEN ops[i].n ELSE 0)]
    <3> HIDE DEF w
    <3> QED BY ONLY <2>4, Zenon
  <2>6. Consumed(ops, op, m) = sum[m]
    BY DEF Consumed
  <2> HIDE DEF sum
  <2>7. Sum(m, sum)
    BY ONLY <2>5, Zenon DEF Sum, Width
  <2> QED BY <2>6, <2>7
<1>2. ASSUME NEW m, NEW f, Sum(m, f), m \in 0 .. n
      PROVE  f[0] = 0 /\ \A k \in 1 .. m : f[k] = f[k - 1] + Width(ops[k], op)
  <2>1. \A k \in 0 .. m : f[k] = IF k = 0 THEN 0 ELSE f[k - 1] + Width(ops[k], op)
    BY <1>2, Zenon
  <2> HIDE DEF Sum
  <2>2. 0 \in 0 .. m /\ \A k \in 1 .. m : k \in 0 .. m /\ k # 0
    BY <1>2
  <2> QED BY <2>1, <2>2, Zenon
<1>3. PICK s : Sum(n, s) /\ Consumed(ops, op, n) = s[n]
  BY <1>1
<1>4. ASSUME NEW m \in 0 .. n PROVE Consumed(ops, op, m) = s[m]
  <2>1. PICK f : Sum(m, f) /\ Consumed(ops, op, m) = f[m]
    BY <1>1
  <2> DEFINE S == {k \in 0 .. m : f[k] = s[k]}
  <2>2. /\ f[0] = 0 /\ \A k \in 1 .. m : f[k] = f[k - 1] + Width(ops[k], op)
        /\ s[0] = 0 /\ \A k \in 1 .. n : s[k] = s[k - 1] + Width(ops[k], op)
    <3> HIDE DEF Sum
    <3>1. n \in 0 .. n
      OBVIOUS
    <3> QED BY <1>2, <1>3, <2>1, <3>1
  <2> HIDE DEF Sum
  <2>3. 0 \in S /\ \A k \in 1 .. m : k - 1 \in S => k \in S
    <3>1. \A k \in 1 .. m : k \in 1 .. n /\ k \in 0 .. m
      OBVIOUS
    <3>2. 0 \in S
      BY <2>2
    <3>3. ASSUME NEW k \in 1 .. m, k - 1 \in S PROVE k \in S
      <4>1. f[k - 1] = s[k - 1]
        BY <3>3
      <4>2. f[k] = s[k]
        BY <2>2, <3>1, <4>1
      <4> QED BY <3>1, <4>2
    <3> QED BY <3>2, <3>3
  <2>4. \A k \in 0 .. m : k \in S
    <3> HIDE DEF S
    <3> QED BY <2>3, Counted
  <2> QED BY <2>1, <2>4
<1>5. s[0] = 0 /\ \A k \in 1 .. n : s[k] = s[k - 1] + Width(ops[k], op)
  <2>1. n \in 0 .. n
    OBVIOUS
  <2> HIDE DEF Sum
  <2> QED BY <1>2, <1>3, <2>1
<1>6. \A k \in 0 .. n : s[k] \in Nat
  <2> DEFINE S == {k \in 0 .. n : s[k] \in Nat}
  <2>1. 0 \in S
    BY <1>5
  <2>2. ASSUME NEW k \in 1 .. n, k - 1 \in S PROVE k \in S
    BY <1>5, <2>2 DEF Width
  <2>3. \A k \in 0 .. n : k \in S
    <3> HIDE DEF S, Sum
    <3> QED BY <2>1, <2>2, Counted
  <2> QED BY <2>3
<1> HIDE DEF Sum
<1>7. /\ \A k \in 0 .. n : Consumed(ops, op, k) \in Nat
      /\ Consumed(ops, op, 0) = 0
      /\ \A k \in 1 .. n : Consumed(ops, op, k) = Consumed(ops, op, k - 1) + Width(ops[k], op)
  <2>1. 0 \in 0 .. n /\ \A k \in 1 .. n : k \in 0 .. n /\ k - 1 \in 0 .. n
    OBVIOUS
  <2> HIDE DEF n
  <2> QED BY ONLY <1>4, <1>5, <1>6, <2>1, Zenon
<1> QED BY ONLY <1>7, Zenon DEF n

LEMMA RunTypes ==
    ASSUME NEW ops \in Seq(Run)
    PROVE  Len(ops) \in Nat /\ \A k \in 1 .. Len(ops) : ops[k].n \in Nat /\ ops[k].op \in {"equal", "delete", "insert"}
<1>1. \A k \in 1 .. Len(ops) : ops[k] \in Run
  OBVIOUS
<1> QED BY <1>1 DEF Run

(* The runs of one script after those of another. *)
Follows(o1, o2, op) ==
    /\ \A k \in 0 .. Len(o1) : Consumed(o1 \o o2, op, k) = Consumed(o1, op, k)
    /\ \A k \in 0 .. Len(o2) :
         Consumed(o1 \o o2, op, Len(o1) + k) = Consumed(o1, op, Len(o1)) + Consumed(o2, op, k)

LEMMA CursorsJoin ==
    ASSUME NEW o1 \in Seq(Run), NEW o2 \in Seq(Run), NEW op
    PROVE  Follows(o1, o2, op)
<1> DEFINE o == o1 \o o2
           n1 == Len(o1)
           n2 == Len(o2)
           S == {k \in 0 .. n1 : Consumed(o, op, k) = Consumed(o1, op, k)}
           T == {k \in 0 .. n2 : Consumed(o, op, n1 + k) = Consumed(o1, op, n1) + Consumed(o2, op, k)}
<1>1. /\ o \in Seq(Run) /\ Len(o) = n1 + n2 /\ n1 \in Nat /\ n2 \in Nat
      /\ \A k \in 1 .. n1 : o[k] = o1[k]
      /\ \A k \in 1 .. n2 : o[n1 + k] = o2[k]
  BY ConcatProperties
<1> HIDE DEF o, n1, n2
<1>2. /\ \A k \in 0 .. n1 : Consumed(o1, op, k) \in Nat
      /\ Consumed(o1, op, 0) = 0
      /\ \A k \in 1 .. n1 : Consumed(o1, op, k) = Consumed(o1, op, k - 1) + Width(o1[k], op)
  BY RunTypes, CursorSteps DEF n1
<1>3. /\ \A k \in 0 .. n2 : Consumed(o2, op, k) \in Nat
      /\ Consumed(o2, op, 0) = 0
      /\ \A k \in 1 .. n2 : Consumed(o2, op, k) = Consumed(o2, op, k - 1) + Width(o2[k], op)
  BY RunTypes, CursorSteps DEF n2
<1>4. /\ \A k \in 0 .. n1 + n2 : Consumed(o, op, k) \in Nat
      /\ Consumed(o, op, 0) = 0
      /\ \A k \in 1 .. n1 + n2 : Consumed(o, op, k) = Consumed(o, op, k - 1) + Width(o[k], op)
  BY <1>1, RunTypes, CursorSteps
<1>5. 0 \in S
  BY <1>1, <1>2, <1>4
<1>6. ASSUME NEW k \in 1 .. n1, k - 1 \in S PROVE k \in S
  <2>1. k \in 1 .. n1 + n2 /\ k \in 0 .. n1
    BY <1>1
  <2>2. Consumed(o, op, k - 1) = Consumed(o1, op, k - 1)
    BY <1>6
  <2> QED BY <1>1, <1>2, <1>4, <2>1, <2>2
<1>7. \A k \in 0 .. n1 : k \in S
  <2> HIDE DEF S
  <2> QED BY <1>1, <1>5, <1>6, Counted
<1>8. 0 \in T
  <2>1. n1 \in S /\ 0 \in 0 .. n2 /\ n1 + 0 = n1
    <3> HIDE DEF S
    <3> QED BY <1>1, <1>7
  <2>2. Consumed(o, op, n1 + 0) = Consumed(o1, op, n1) /\ Consumed(o1, op, n1) \in Nat
    BY <1>1, <1>2, <2>1
  <2> QED BY <1>3, <2>1, <2>2
<1>9. ASSUME NEW k \in 1 .. n2, k - 1 \in T PROVE k \in T
  <2>1. n1 + k \in 1 .. n1 + n2 /\ k \in 0 .. n2 /\ n1 + k - 1 = n1 + (k - 1) /\ k - 1 \in 0 .. n2 /\ n1 \in 0 .. n1
    BY <1>1
  <2>2. Consumed(o, op, n1 + (k - 1)) = Consumed(o1, op, n1) + Consumed(o2, op, k - 1)
    BY <1>9
  <2>3. Consumed(o, op, n1 + k) = Consumed(o, op, n1 + (k - 1)) + Width(o2[k], op)
    <3> DEFINE i == n1 + k
    <3>1. i \in 1 .. n1 + n2 /\ i - 1 = n1 + (k - 1)
      BY <1>1, <2>1
    <3>2. o[i] = o2[k]
      BY <1>1
    <3> HIDE DEF i
    <3>3. Consumed(o, op, i) = Consumed(o, op, i - 1) + Width(o[i], op)
      BY ONLY <1>4, <3>1
    <3>4. Consumed(o, op, i) = Consumed(o, op, n1 + (k - 1)) + Width(o2[k], op)
      BY ONLY <3>1, <3>2, <3>3
    <3> QED BY <3>4 DEF i
  <2>4. Width(o2[k], op) \in Nat
    BY RunTypes DEF Width, n2
  <2>5. Consumed(o1, op, n1) \in Nat /\ Consumed(o2, op, k - 1) \in Nat
    BY <1>2, <1>3, <2>1
  <2>6. Consumed(o2, op, k) = Consumed(o2, op, k - 1) + Width(o2[k], op)
    BY <1>3
  <2> QED BY <2>1, <2>2, <2>3, <2>4, <2>5, <2>6
<1>10. \A k \in 0 .. n2 : k \in T
  <2> HIDE DEF T
  <2> QED BY <1>1, <1>8, <1>9, Counted
<1> QED BY <1>7, <1>10 DEF o, n1, n2, Follows

Total(ops, op) == Consumed(ops, op, Len(ops))

(* An equal run whose elements are the same after i of one side and after j *)
(* of the other.                                                            *)
Fits(r, i, j, a, b) == r.op = "equal" => \A m \in 1 .. r.n : a[i + m] = b[j + m]

Agree(ops, a, b) ==
    \A k \in 1 .. Len(ops) : Fits(ops[k], Consumed(ops, "delete", k - 1), Consumed(ops, "insert", k - 1), a, b)

(* A script from a to b: its runs cover both, and the equal ones agree. *)
Aligned(ops, a, b) ==
    /\ ops \in Seq(Run) /\ Total(ops, "delete") = Len(a) /\ Total(ops, "insert") = Len(b)
    /\ Agree(ops, a, b)

LEMMA AgreeOne ==
    ASSUME NEW f \in Seq(Run), NEW r \in Run, NEW a, NEW b
    PROVE  /\ f \o <<r>> \in Seq(Run)
           /\ Agree(f \o <<r>>, a, b) <=> Agree(f, a, b) /\ Fits(r, Total(f, "delete"), Total(f, "insert"), a, b)
           /\ \A op : Total(f \o <<r>>, op) = Total(f, op) + Width(r, op)
<1> DEFINE o == f \o <<r>>
           n == Len(f)
<1>1. /\ <<r>> \in Seq(Run) /\ Len(<<r>>) = 1 /\ <<r>>[1] = r
      /\ o \in Seq(Run) /\ Len(o) = n + 1 /\ n \in Nat
      /\ \A k \in 1 .. n : o[k] = f[k]
      /\ o[n + 1] = r
  OBVIOUS
<1>2. ASSUME NEW op
      PROVE  /\ \A k \in 0 .. n : Consumed(o, op, k) = Consumed(f, op, k)
             /\ Consumed(o, op, n + 1) = Consumed(f, op, n) + Width(r, op)
  <2>1. \A k \in 0 .. n : Consumed(o, op, k) = Consumed(f, op, k)
    <3> DEFINE one == <<r>>
    <3>1. f \in Seq(Run) /\ one \in Seq(Run)
      BY <1>1
    <3> HIDE DEF one
    <3>2. Follows(f, one, op)
      BY ONLY <3>1, CursorsJoin
    <3>3. \A k \in 0 .. Len(f) : Consumed(f \o one, op, k) = Consumed(f, op, k)
      BY ONLY <3>2 DEF Follows
    <3> QED BY ONLY <3>3, Zenon DEF n, o, one
  <2>2. Consumed(o, op, n + 1) = Consumed(o, op, n + 1 - 1) + Width(o[n + 1], op)
    <3> HIDE DEF o
    <3>1. n + 1 \in 1 .. Len(o) /\ o \in Seq(Run)
      BY <1>1
    <3>2. Len(o) \in Nat /\ \A k \in 1 .. Len(o) : o[k].n \in Nat
      BY <3>1, RunTypes
    <3>3. \A k \in 1 .. Len(o) : Consumed(o, op, k) = Consumed(o, op, k - 1) + Width(o[k], op)
      BY ONLY <3>2, CursorSteps
    <3> QED BY ONLY <3>1, <3>3
  <2>3. n + 1 - 1 = n /\ n \in 0 .. n
    BY <1>1
  <2>4. o[n + 1] = r
    BY <1>1
  <2> HIDE DEF o, n
  <2> QED BY ONLY <2>1, <2>2, <2>3, <2>4
<1> HIDE DEF o, n
<1>3. \A op : Total(o, op) = Total(f, op) + Width(r, op)
  BY ONLY <1>1, <1>2 DEF Total, n
<1>4. \A k \in 1 .. n : /\ Consumed(o, "delete", k - 1) = Consumed(f, "delete", k - 1)
                        /\ Consumed(o, "insert", k - 1) = Consumed(f, "insert", k - 1)
                        /\ o[k] = f[k] /\ k \in 1 .. n + 1
  <2> TAKE k \in 1 .. n
  <2>1. k - 1 \in 0 .. n /\ k \in 1 .. n + 1
    BY <1>1
  <2>2. \A op : Consumed(o, op, k - 1) = Consumed(f, op, k - 1)
    BY ONLY <1>2, <2>1
  <2> QED BY <1>1, <2>1, <2>2, Zenon
<1>5. /\ Consumed(o, "delete", n + 1 - 1) = Total(f, "delete")
      /\ Consumed(o, "insert", n + 1 - 1) = Total(f, "insert")
  <2>1. n + 1 - 1 = n /\ n \in 0 .. n
    BY <1>1
  <2>2. \A op : Consumed(o, op, n + 1 - 1) = Consumed(f, op, n)
    BY ONLY <1>2, <2>1
  <2> QED BY ONLY <2>2, Zenon DEF Total, n
<1>6. \A k \in 1 .. n + 1 : k \in 1 .. n \/ k = n + 1
  BY <1>1
<1>7. Agree(o, a, b) <=> Agree(f, a, b) /\ Fits(r, Total(f, "delete"), Total(f, "insert"), a, b)
  <2>1. n + 1 \in 1 .. n + 1
    BY <1>1
  <2>2. Agree(f, a, b) <=> \A k \in 1 .. n : Fits(o[k], Consumed(o, "delete", k - 1), Consumed(o, "insert", k - 1), a, b)
    BY <1>4 DEF Agree, n
  <2>3. Agree(o, a, b) <=> \A k \in 1 .. n + 1 : Fits(o[k], Consumed(o, "delete", k - 1), Consumed(o, "insert", k - 1), a, b)
    BY <1>1 DEF Agree
  <2> DEFINE Good(k) == Fits(o[k], Consumed(o, "delete", k - 1), Consumed(o, "insert", k - 1), a, b)
  <2>4. Good(n + 1) <=> Fits(r, Total(f, "delete"), Total(f, "insert"), a, b)
    BY <1>1, <1>5
  <2> HIDE DEF Good
  <2>5. (\A k \in 1 .. n + 1 : Good(k)) <=> (\A k \in 1 .. n : Good(k)) /\ Good(n + 1)
    BY <1>4, <1>6, <2>1, Zenon
  <2> QED BY <2>2, <2>3, <2>4, <2>5 DEF Good
<1>8. o \in Seq(Run)
  BY <1>1
<1> QED BY ONLY <1>3, <1>7, <1>8, Zenon DEF o

LEMMA TotalsType ==
    ASSUME NEW ops \in Seq(Run), NEW op
    PROVE  Total(ops, op) \in Nat /\ \A k \in 0 .. Len(ops) : Consumed(ops, op, k) \in Nat
<1>1. \A k \in 0 .. Len(ops) : Consumed(ops, op, k) \in Nat
  BY RunTypes, CursorSteps
<1>2. Len(ops) \in 0 .. Len(ops)
  OBVIOUS
<1> QED BY <1>1, <1>2 DEF Total

(* A script with one run more. *)
Extends(o, out, r, a, b) ==
    /\ o \in Seq(Run)
    /\ \A op : Total(o, op) = Total(out, op) + Width(r, op)
    /\ Agree(out, a, b) /\ Fits(r, Total(out, "delete"), Total(out, "insert"), a, b) => Agree(o, a, b)

(* Pushing a run onto a script is the same to both sides as appending it. *)
LEMMA PushOpKeeps ==
    ASSUME NEW out \in Seq(Run), NEW r \in Run, NEW a, NEW b
    PROVE  Extends(PushOp(out, r.op, r.n), out, r, a, b)
<1> DEFINE o == PushOp(out, r.op, r.n)
<1>1. r.n \in Nat /\ r.op \in {"equal", "delete", "insert"} /\ r = [op |-> r.op, n |-> r.n]
  BY DEF Run
<1>2. CASE r.n = 0
  <2>1. o = out
    BY <1>2 DEF PushOp
  <2>2. \A op : Width(r, op) = 0
    BY <1>2 DEF Width
  <2> QED BY <2>1, <2>2, TotalsType DEF Extends
<1>3. CASE r.n > 0 /\ ~(out # <<>> /\ Last(out).op = r.op)
  <2>1. o = out \o <<r>>
    <3>1. o = Append(out, r)
      BY <1>1, <1>3 DEF PushOp
    <3> QED BY <3>1, AppendIsConcat
  <2>2. /\ out \o <<r>> \in Seq(Run)
        /\ Agree(out \o <<r>>, a, b) <=> Agree(out, a, b) /\ Fits(r, Total(out, "delete"), Total(out, "insert"), a, b)
        /\ \A op : Total(out \o <<r>>, op) = Total(out, op) + Width(r, op)
    BY AgreeOne
  <2> QED BY ONLY <2>1, <2>2, Zenon DEF Extends
<1>4. CASE r.n > 0 /\ out # <<>> /\ Last(out).op = r.op
  <2> DEFINE m == Len(out)
             front == SubSeq(out, 1, m - 1)
             last == out[m]
             both == [op |-> r.op, n |-> last.n + r.n]
  <2>1. m \in Nat \ {0} /\ m \in 1 .. m /\ last \in Run
    BY <1>4
  <2>2. last.op = r.op /\ last.n \in Nat /\ both \in Run
    BY <1>1, <1>4, <2>1 DEF Last, Run
  <2>3. front \in Seq(Run) /\ Len(front) = m - 1 /\ \A k \in 1 .. m - 1 : front[k] = out[k]
    <3>1. \A i \in 1 .. m - 1 : i \in 1 .. m /\ out[i] \in Run /\ 1 + i - 1 = i
      BY <2>1
    <3> HIDE DEF m
    <3>2. 1 \in Int /\ m - 1 \in Int /\ (1 <= m - 1 \/ m - 1 = 0) /\ m - 1 - 1 + 1 = m - 1
      BY ONLY <2>1
    <3> QED BY <3>1, <3>2, SubSeqProperties
  <2>4. out = front \o <<last>>
    <3>1. SubSeq(out, 1, m) = SubSeq(out, 1, m - 1) \o <<out[m]>>
      <4>1. 1 \in 1 .. m /\ m \in 1 .. m
        BY <2>1
      <4> QED BY <4>1, SubSeqRecursiveSecond
    <3> QED BY <3>1, SubSeqFull
  <2>5. o = front \o <<both>>
    <3>1. o = [out EXCEPT ![m] = both]
      <4>1. o = [out EXCEPT ![Len(out)].n = @ + r.n]
        BY <1>1, <1>4 DEF PushOp
      <4>2. [out[m] EXCEPT !.n = @ + r.n] = both
        BY <2>1, <2>2 DEF Run
      <4> QED BY <4>1, <4>2
    <3>2. o \in Seq(Run) /\ Len(o) = m /\ \A k \in 1 .. m : o[k] = IF k = m THEN both ELSE out[k]
      <4>1. m \in 1 .. Len(out)
        BY <2>1
      <4> HIDE DEF both, o
      <4> QED BY <2>2, <3>1, <4>1, ExceptSeq
    <3> DEFINE p == front \o <<both>>
    <3>3. p \in Seq(Run) /\ Len(p) = m /\ \A k \in 1 .. m : p[k] = IF k = m THEN both ELSE out[k]
      <4> HIDE DEF both, front, m
      <4> QED BY <2>1, <2>2, <2>3
    <3> HIDE DEF o, p
    <3>4. o = p
      BY <3>2, <3>3, SeqEqual
    <3> QED BY <3>4 DEF p
  <2> HIDE DEF front, last, both, m, o
  <2>6. /\ Agree(out, a, b) <=> Agree(front, a, b) /\ Fits(last, Total(front, "delete"), Total(front, "insert"), a, b)
        /\ \A op : Total(out, op) = Total(front, op) + Width(last, op)
    BY <2>1, <2>3, <2>4, AgreeOne
  <2>7. \A op : Total(front, op) \in Nat
    BY <2>3, TotalsType
  <2>8. \A op : Width(both, op) = Width(last, op) + Width(r, op)
    BY <1>1, <2>2 DEF both, Width
  <2>9. ASSUME Agree(out, a, b), Fits(r, Total(out, "delete"), Total(out, "insert"), a, b)
        PROVE  Fits(both, Total(front, "delete"), Total(front, "insert"), a, b)
    <3> SUFFICES ASSUME r.op = "equal", NEW x \in 1 .. both.n
                 PROVE  a[Total(front, "delete") + x] = b[Total(front, "insert") + x]
      BY DEF Fits, both
    <3> DEFINE i == Total(front, "delete")
               j == Total(front, "insert")
    <3>1. Total(out, "delete") = i + last.n /\ Total(out, "insert") = j + last.n
      BY <2>2, <2>6 DEF Width
    <3>2. i \in Nat /\ j \in Nat
      BY <2>7
    <3>3. \A y \in 1 .. last.n : a[i + y] = b[j + y]
      BY <2>2, <2>6, <2>9 DEF Fits
    <3>4. \A y \in 1 .. r.n : a[Total(out, "delete") + y] = b[Total(out, "insert") + y]
      BY <2>9 DEF Fits
    <3> HIDE DEF i, j
    <3>5. CASE x <= last.n
      <4>1. x \in 1 .. last.n
        BY <2>2, <3>5, <1>1 DEF both
      <4> QED BY <3>3, <4>1 DEF i, j
    <3>6. CASE x > last.n
      <4> DEFINE y == x - last.n
      <4>1. y \in 1 .. r.n /\ i + x = i + last.n + y /\ j + x = j + last.n + y
        BY <2>2, <3>2, <3>6, <1>1 DEF both
      <4> QED BY <3>1, <3>4, <4>1 DEF i, j
    <3>7. x \in Nat /\ last.n \in Nat
      BY <1>1, <2>2 DEF both
    <3> QED BY <3>5, <3>6, <3>7
  <2>10. /\ o \in Seq(Run)
         /\ Agree(o, a, b) <=> Agree(front, a, b) /\ Fits(both, Total(front, "delete"), Total(front, "insert"), a, b)
         /\ \A op : Total(o, op) = Total(front, op) + Width(both, op)
    BY <2>2, <2>3, <2>5, AgreeOne
  <2>11. \A op : Total(o, op) = Total(out, op) + Width(r, op)
    <3> TAKE op
    <3>1. Width(last, op) \in Nat /\ Width(r, op) \in Nat /\ Total(front, op) \in Nat
      BY <1>1, <2>2, <2>7 DEF Width
    <3>2. /\ Total(o, op) = Total(front, op) + Width(both, op)
          /\ Width(both, op) = Width(last, op) + Width(r, op)
          /\ Total(out, op) = Total(front, op) + Width(last, op)
      BY <2>6, <2>8, <2>10, Zenon
    <3> QED BY <3>1, <3>2
  <2> QED BY ONLY <2>6, <2>9, <2>10, <2>11, Zenon DEF o, Extends
<1> HIDE DEF o
<1>5. r.n = 0 \/ r.n > 0
  BY <1>1
<1> QED BY <1>2, <1>3, <1>4, <1>5 DEF o

(* The same runs to both sides, with the same elements. *)
SameScript(o, ops) ==
    /\ o \in Seq(Run)
    /\ \A op : Total(o, op) = Total(ops, op)
    /\ \A a, b : Agree(ops, a, b) => Agree(o, a, b)

LEMMA PushOpsKeeps ==
    ASSUME NEW ops \in Seq(Run)
    PROVE  SameScript(PushOps(ops), ops)
<1> DEFINE n == Len(ops)
           D == Seq(Run)
           F == [k \in 1 .. n |-> [d \in D |-> PushOp(d, ops[k].op, ops[k].n)]]
           G == [k \in 0 .. n |-> D]
           Next(k, o) == IF k = 0 THEN <<>> ELSE PushOp(o[k - 1], ops[k].op, ops[k].n)
           out[k \in 0 .. n] == IF k = 0 THEN <<>> ELSE PushOp(out[k - 1], ops[k].op, ops[k].n)
           Partly(k) == /\ out[k] \in D
                        /\ \A op : Total(out[k], op) = Consumed(ops, op, k)
                        /\ \A a, b : Agree(ops, a, b) => Agree(out[k], a, b)
           T == {k \in 0 .. n : Partly(k)}
<1>1. PushOps(ops) = out[n]
  BY DEF PushOps
<1>2. n \in Nat /\ \A k \in 1 .. n : ops[k] \in Run
  OBVIOUS
<1>3. \A op : /\ Consumed(ops, op, 0) = 0
              /\ \A k \in 1 .. n : Consumed(ops, op, k) = Consumed(ops, op, k - 1) + Width(ops[k], op)
  BY RunTypes, CursorSteps
<1> HIDE DEF n
<1>4. <<>> \in G[0] /\ \A k \in 1 .. n : \A d \in G[k - 1] : F[k][d] \in G[k]
  <2>1. <<>> \in G[0]
    BY <1>2
  <2>2. ASSUME NEW k \in 1 .. n, NEW d \in G[k - 1] PROVE F[k][d] \in G[k]
    <3>1. k - 1 \in 0 .. n /\ k \in 0 .. n
      BY <1>2
    <3>2. d \in D
      BY <3>1
    <3>3. PushOp(d, ops[k].op, ops[k].n) \in D
      BY <1>2, <3>2, PushOpKeeps DEF Extends
    <3> HIDE DEF D
    <3> QED BY <3>1, <3>2, <3>3
  <2> QED BY <2>1, <2>2
<1>5. PICK f : Iterated(n, <<>>, F, f) /\ \A k \in 0 .. n : f[k] \in G[k]
  <2> HIDE DEF F, G
  <2> QED BY <1>2, <1>4, Iterates
<1>6. f = [k \in 0 .. n |-> f[k]] /\ f[0] = <<>> /\ \A k \in 1 .. n : f[k] = F[k][f[k - 1]]
  <2> HIDE DEF F, G
  <2> QED BY <1>5, Zenon DEF Iterated
<1>7. \A k \in 0 .. n : f[k] \in D
  <2> HIDE DEF D
  <2> QED BY <1>5
<1>8. ASSUME NEW k \in 0 .. n PROVE f[k] = Next(k, f)
  <2>1. CASE k = 0
    BY <1>6, <2>1, Zenon
  <2>2. CASE k # 0
    <3>1. k \in 1 .. n /\ k - 1 \in 0 .. n
      BY <1>2, <2>2
    <3>2. f[k] = F[k][f[k - 1]] /\ f[k - 1] \in D
      <4> HIDE DEF F, D
      <4> QED BY <1>6, <1>7, <3>1, Zenon
    <3>3. F[k][f[k - 1]] = PushOp(f[k - 1], ops[k].op, ops[k].n)
      <4> HIDE DEF D
      <4> QED BY <3>1, <3>2, Zenon
    <3> QED BY <2>2, <3>2, <3>3, Zenon
  <2> QED BY <2>1, <2>2
<1>9. f = [k \in 0 .. n |-> Next(k, f)]
  <2> HIDE DEF Next
  <2> QED BY <1>6, <1>8
<1>10. out = [k \in 0 .. n |-> Next(k, out)]
  <2>1. f = [k \in 0 .. n |-> IF k = 0 THEN <<>> ELSE PushOp(f[k - 1], ops[k].op, ops[k].n)]
    BY <1>9, Zenon
  <2>2. out = [k \in 0 .. n |-> IF k = 0 THEN <<>> ELSE PushOp(out[k - 1], ops[k].op, ops[k].n)]
    BY <2>1, Zenon
  <2> HIDE DEF out
  <2> QED BY <2>2, Zenon
<1> HIDE DEF out
<1>11. \A k \in 0 .. n : out[k] = Next(k, out)
  <2> HIDE DEF Next
  <2> QED BY <1>10, Zenon
<1>12. out[0] = <<>> /\ \A k \in 1 .. n : out[k] = PushOp(out[k - 1], ops[k].op, ops[k].n)
  <2>1. 0 \in 0 .. n /\ \A k \in 1 .. n : k \in 0 .. n /\ k # 0
    BY <1>2
  <2> QED BY <1>11, <2>1, Zenon
<1>13. 0 \in T
  <2>1. <<>> \in D /\ Len(<<>>) = 0 /\ \A k \in 1 .. 0 : FALSE
    OBVIOUS
  <2>2. \A op : Total(<<>>, op) = 0
    <3>1. \A op : Consumed(<<>>, op, 0) = 0
      BY <2>1, RunTypes, CursorSteps
    <3> QED BY <2>1, <3>1 DEF Total
  <2>3. \A a, b : Agree(<<>>, a, b)
    BY <2>1 DEF Agree
  <2>4. 0 \in 0 .. n
    BY <1>2
  <2>5. Partly(0)
    <3> HIDE DEF D
    <3> QED BY ONLY <1>3, <1>12, <2>1, <2>2, <2>3, Zenon
  <2> HIDE DEF Partly
  <2> QED BY <2>4, <2>5
<1>14. ASSUME NEW k \in 1 .. n, k - 1 \in T PROVE k \in T
  <2> DEFINE d == out[k - 1]
             r == ops[k]
  <2>1. k \in 0 .. n /\ r \in Run
    BY <1>2
  <2>2. Partly(k - 1)
    <3> HIDE DEF Partly
    <3> QED BY <1>14
  <2>3. out[k] = PushOp(d, r.op, r.n)
    BY <1>12
  <2>4. d \in Seq(Run)
    BY <2>2
  <2> HIDE DEF d, r
  <2>5. \A a, b : Extends(out[k], d, r, a, b)
    <3> TAKE a, b
    <3> QED BY <2>1, <2>3, <2>4, PushOpKeeps
  <2>6. \A op : Total(out[k], op) = Consumed(ops, op, k)
    <3> TAKE op
    <3>1. Total(out[k], op) = Total(d, op) + Width(r, op)
      BY ONLY <2>5 DEF Extends
    <3>2. Total(d, op) = Consumed(ops, op, k - 1)
      BY ONLY <2>2, Zenon DEF d
    <3>3. Consumed(ops, op, k) = Consumed(ops, op, k - 1) + Width(r, op)
      BY ONLY <1>3, k \in 1 .. n DEF r
    <3> QED BY ONLY <3>1, <3>2, <3>3
  <2>7. ASSUME NEW a, NEW b, Agree(ops, a, b) PROVE Agree(out[k], a, b)
    <3>1. Agree(d, a, b)
      BY ONLY <2>2, <2>7, Zenon DEF d
    <3>2. Fits(r, Consumed(ops, "delete", k - 1), Consumed(ops, "insert", k - 1), a, b)
      BY ONLY <2>7, k \in 1 .. n DEF Agree, r, n
    <3>3. Total(d, "delete") = Consumed(ops, "delete", k - 1) /\ Total(d, "insert") = Consumed(ops, "insert", k - 1)
      BY ONLY <2>2, Zenon DEF d
    <3>4. Fits(r, Total(d, "delete"), Total(d, "insert"), a, b)
      BY ONLY <3>2, <3>3
    <3> QED BY ONLY <2>5, <3>1, <3>4 DEF Extends
  <2>8. out[k] \in D
    BY <2>5 DEF Extends
  <2>9. Partly(k)
    BY ONLY <2>6, <2>7, <2>8, Zenon
  <2> HIDE DEF Partly
  <2> QED BY <2>1, <2>9
<1>15. \A k \in 0 .. n : k \in T
  <2> HIDE DEF T
  <2> QED BY <1>2, <1>13, <1>14, Counted
<1>16. Partly(n)
  <2>1. n \in 0 .. n
    BY <1>2
  <2> HIDE DEF Partly
  <2> QED BY <1>15, <2>1
<1> QED BY ONLY <1>1, <1>16, Zenon DEF SameScript, Total, n

LEMMA PushOpsAlign ==
    ASSUME NEW ops, NEW a, NEW b, Aligned(ops, a, b)
    PROVE  Aligned(PushOps(ops), a, b) /\ \A op : Total(PushOps(ops), op) = Total(ops, op)
<1>1. SameScript(PushOps(ops), ops)
  BY PushOpsKeeps DEF Aligned
<1> QED BY <1>1, Zenon DEF SameScript, Aligned

(* Scripts for the parts make one for the whole. *)
LEMMA AlignedJoin ==
    ASSUME NEW E, NEW a1 \in Seq(E), NEW b1 \in Seq(E), NEW a2 \in Seq(E), NEW b2 \in Seq(E), NEW o1, NEW o2,
           Aligned(o1, a1, b1), Aligned(o2, a2, b2)
    PROVE  Aligned(o1 \o o2, a1 \o a2, b1 \o b2) /\ \A op : Total(o1 \o o2, op) = Total(o1, op) + Total(o2, op)
<1> DEFINE o == o1 \o o2
           a == a1 \o a2
           b == b1 \o b2
           n1 == Len(o1)
           n2 == Len(o2)
           C(op, k) == Consumed(o, op, k)
           C1(op, k) == Consumed(o1, op, k)
           C2(op, k) == Consumed(o2, op, k)
<1>1. /\ o1 \in Seq(Run) /\ o2 \in Seq(Run)
      /\ Total(o1, "delete") = Len(a1) /\ Total(o1, "insert") = Len(b1) /\ Agree(o1, a1, b1)
      /\ Total(o2, "delete") = Len(a2) /\ Total(o2, "insert") = Len(b2) /\ Agree(o2, a2, b2)
  BY DEF Aligned
<1>2. /\ o \in Seq(Run) /\ Len(o) = n1 + n2 /\ n1 \in Nat /\ n2 \in Nat
      /\ \A k \in 1 .. n1 : o[k] = o1[k]
      /\ \A k \in 1 .. n2 : o[n1 + k] = o2[k]
  BY <1>1, ConcatProperties
<1>3. \A op : Follows(o1, o2, op)
  BY <1>1, CursorsJoin
<1>4. /\ \A op : \A k \in 0 .. n1 : C(op, k) = C1(op, k)
      /\ \A op : \A k \in 0 .. n2 : C(op, n1 + k) = C1(op, n1) + C2(op, k)
  BY ONLY <1>3, Zenon DEF Follows
<1>5. \A op : Total(o, op) = Total(o1, op) + Total(o2, op)
  <2> TAKE op
  <2>1. n2 \in 0 .. n2
    BY <1>2
  <2>2. C(op, n1 + n2) = C1(op, n1) + C2(op, n2)
    <3> HIDE DEF C, C1, C2, n1, n2
    <3> QED BY ONLY <1>4, <2>1, Zenon
  <2> QED BY ONLY <1>2, <2>2 DEF Total
<1>6. /\ a \in Seq(E) /\ Len(a) = Len(a1) + Len(a2) /\ b \in Seq(E) /\ Len(b) = Len(b1) + Len(b2)
      /\ Len(a1) \in Nat /\ Len(a2) \in Nat /\ Len(b1) \in Nat /\ Len(b2) \in Nat
      /\ \A i \in 1 .. Len(a1) : a[i] = a1[i]
      /\ \A i \in 1 .. Len(a2) : a[Len(a1) + i] = a2[i]
      /\ \A i \in 1 .. Len(b1) : b[i] = b1[i]
      /\ \A i \in 1 .. Len(b2) : b[Len(b1) + i] = b2[i]
  BY ConcatProperties
<1>7. /\ \A op : \A k \in 0 .. n1 : C1(op, k) \in Nat
      /\ \A op : \A k \in 0 .. n2 : C2(op, k) \in Nat
      /\ \A op : \A k \in 1 .. n1 : C1(op, k) = C1(op, k - 1) + Width(o1[k], op)
      /\ \A op : \A k \in 1 .. n2 : C2(op, k) = C2(op, k - 1) + Width(o2[k], op)
      /\ \A k \in 1 .. n1 : o1[k].n \in Nat
      /\ \A k \in 1 .. n2 : o2[k].n \in Nat
  BY <1>1, RunTypes, CursorSteps
<1>8. ASSUME NEW ops, NEW op, NEW k, NEW x, NEW y, ops \in Seq(Run), k \in 1 .. Len(ops),
             ops[k].op = "equal", x \in 1 .. ops[k].n, op = y
      PROVE  Consumed(ops, op, k - 1) + x \in 1 .. Total(ops, op)
  <2> DEFINE m == Len(ops)
             S == {i \in 0 .. m : i < k \/ Consumed(ops, op, k) <= Consumed(ops, op, i)}
  <2>1. /\ m \in Nat /\ \A i \in 0 .. m : Consumed(ops, op, i) \in Nat
        /\ \A i \in 1 .. m : Consumed(ops, op, i) = Consumed(ops, op, i - 1) + Width(ops[i], op)
        /\ \A i \in 1 .. m : ops[i].n \in Nat
    BY <1>8, RunTypes, CursorSteps
  <2>2. k \in 1 .. m /\ k \in 0 .. m /\ k - 1 \in 0 .. m
    BY <1>8
  <2> HIDE DEF m
  <2>3. 0 \in S
    BY <2>1, <2>2
  <2>4. ASSUME NEW i \in 1 .. m, i - 1 \in S PROVE i \in S
    <3>1. Width(ops[i], op) \in Nat
      BY <2>1 DEF Width
    <3>2. Consumed(ops, op, i) = Consumed(ops, op, i - 1) + Width(ops[i], op) /\ i \in 0 .. m /\ i - 1 \in 0 .. m
      BY <2>1
    <3>3. Consumed(ops, op, i - 1) \in Nat /\ Consumed(ops, op, i) \in Nat /\ Consumed(ops, op, k) \in Nat
      BY <2>1, <2>2, <3>2
    <3>4. i - 1 < k \/ Consumed(ops, op, k) <= Consumed(ops, op, i - 1)
      BY <2>4
    <3>5. i < k \/ i = k \/ ~(i - 1 < k)
      BY <2>1, <2>2
    <3> QED BY <3>1, <3>2, <3>3, <3>4, <3>5
  <2>5. \A i \in 0 .. m : i \in S
    <3> HIDE DEF S
    <3> QED BY <2>1, <2>3, <2>4, Counted
  <2>6. Consumed(ops, op, k) <= Consumed(ops, op, m)
    <3>1. m \in 0 .. m /\ ~(m < k)
      BY <2>1, <2>2
    <3> QED BY <2>5, <3>1
  <2>7. Consumed(ops, op, k) = Consumed(ops, op, k - 1) + ops[k].n
    BY <1>8, <2>1, <2>2 DEF Width
  <2>8. /\ Consumed(ops, op, k - 1) \in Nat /\ Consumed(ops, op, m) \in Nat /\ ops[k].n \in Nat /\ x \in 1 .. ops[k].n
    BY <1>8, <2>1, <2>2
  <2> QED BY <2>6, <2>7, <2>8, SMTT(30) DEF Total, m
<1>9. Agree(o, a, b)
  <2> SUFFICES ASSUME NEW k \in 1 .. n1 + n2, o[k].op = "equal", NEW x \in 1 .. o[k].n
               PROVE  a[C("delete", k - 1) + x] = b[C("insert", k - 1) + x]
    <3> HIDE DEF C
    <3> QED BY <1>2 DEF Agree, Fits, C
  <2>1. CASE k \in 1 .. n1
    <3>1. o[k] = o1[k] /\ k - 1 \in 0 .. n1
      BY <1>2, <2>1
    <3>2. a1[C1("delete", k - 1) + x] = b1[C1("insert", k - 1) + x]
      BY <1>1, <2>1, <3>1 DEF Agree, Fits
    <3>3. C1("delete", k - 1) + x \in 1 .. Len(a1) /\ C1("insert", k - 1) + x \in 1 .. Len(b1)
      BY <1>1, <1>8, <2>1, <3>1
    <3>4. C("delete", k - 1) = C1("delete", k - 1) /\ C("insert", k - 1) = C1("insert", k - 1)
      <4> HIDE DEF C, C1
      <4> QED BY <1>4, <3>1
    <3> HIDE DEF C, C1
    <3> QED BY <1>6, <3>2, <3>3, <3>4
  <2>2. CASE k \in n1 + 1 .. n1 + n2
    <3> DEFINE i == k - n1
    <3>1. i \in 1 .. n2 /\ i - 1 \in 0 .. n2 /\ k = n1 + i /\ k - 1 = n1 + (i - 1)
      BY <1>2, <2>2
    <3>2. o[k] = o2[i]
      BY <1>2, <3>1
    <3> HIDE DEF i
    <3>3. a2[C2("delete", i - 1) + x] = b2[C2("insert", i - 1) + x]
      BY <1>1, <3>1, <3>2 DEF Agree, Fits
    <3>4. C2("delete", i - 1) + x \in 1 .. Len(a2) /\ C2("insert", i - 1) + x \in 1 .. Len(b2)
      BY <1>1, <1>8, <3>1, <3>2
    <3>5. C("delete", k - 1) = Len(a1) + C2("delete", i - 1) /\ C("insert", k - 1) = Len(b1) + C2("insert", i - 1)
      <4>1. C1("delete", n1) = Len(a1) /\ C1("insert", n1) = Len(b1)
        BY <1>1 DEF Total
      <4> HIDE DEF C, C1, C2
      <4> QED BY <1>4, <3>1, <4>1
    <3>6. C2("delete", i - 1) \in Nat /\ C2("insert", i - 1) \in Nat /\ x \in Int
      <4> HIDE DEF C2
      <4> QED BY <1>7, <3>1
    <3>7. C("delete", k - 1) + x = Len(a1) + (C2("delete", i - 1) + x) /\ C("insert", k - 1) + x = Len(b1) + (C2("insert", i - 1) + x)
      <4> HIDE DEF C, C2
      <4> QED BY <1>6, <3>5, <3>6
    <3> HIDE DEF C, C2
    <3> QED BY <1>6, <3>3, <3>4, <3>7
  <2>3. k \in 1 .. n1 \/ k \in n1 + 1 .. n1 + n2
    BY <1>2
  <2> QED BY <2>1, <2>2, <2>3
<1>10. Total(o, "delete") = Len(a) /\ Total(o, "insert") = Len(b)
  BY <1>1, <1>5, <1>6
<1> QED BY ONLY <1>2, <1>5, <1>9, <1>10, Zenon DEF Aligned

(* Common subsequences. *)
Embeds(g, c, t) ==
    /\ g \in [1 .. Len(c) -> 1 .. Len(t)]
    /\ \A i, j \in 1 .. Len(c) : i < j => g[i] < g[j]
    /\ \A i \in 1 .. Len(c) : c[i] = t[g[i]]

Within(c, t) == \E g : Embeds(g, c, t)

Common(c, a, b) == Within(c, a) /\ Within(c, b)

(* k is the length of the longest common subsequence. *)
Longest(k, a, b, E) ==
    /\ \E c \in Seq(E) : Common(c, a, b) /\ Len(c) = k
    /\ \A c \in Seq(E) : Common(c, a, b) => Len(c) <= k

LEMMA WithinNothing ==
    ASSUME NEW t
    PROVE  Within(<<>>, t)
<1> DEFINE g == [i \in 1 .. 0 |-> 1]
<1>1. Len(<<>>) = 0 /\ \A i \in 1 .. 0 : FALSE
  OBVIOUS
<1>2. g \in [1 .. 0 -> 1 .. Len(t)]
  BY <1>1
<1> HIDE DEF g
<1>3. Embeds(g, <<>>, t)
  BY <1>1, <1>2 DEF Embeds
<1> QED BY <1>3 DEF Within

LEMMA WithinItself ==
    ASSUME NEW E, NEW t \in Seq(E)
    PROVE  Within(t, t)
<1> DEFINE g == [i \in 1 .. Len(t) |-> i]
<1>1. Embeds(g, t, t)
  BY DEF Embeds
<1> QED BY <1>1 DEF Within

LEMMA WithinJoin ==
    ASSUME NEW E, NEW c1 \in Seq(E), NEW c2 \in Seq(E), NEW t1 \in Seq(E), NEW t2 \in Seq(E),
           Within(c1, t1), Within(c2, t2)
    PROVE  Within(c1 \o c2, t1 \o t2)
<1> DEFINE c == c1 \o c2
           t == t1 \o t2
<1>1. PICK g1 : Embeds(g1, c1, t1)
  BY DEF Within
<1>2. PICK g2 : Embeds(g2, c2, t2)
  BY DEF Within
<1>3. /\ Len(c) = Len(c1) + Len(c2) /\ Len(c1) \in Nat /\ Len(c2) \in Nat
      /\ Len(t) = Len(t1) + Len(t2) /\ Len(t1) \in Nat /\ Len(t2) \in Nat
      /\ \A i \in 1 .. Len(c1) : c[i] = c1[i]
      /\ \A i \in 1 .. Len(c2) : c[Len(c1) + i] = c2[i]
      /\ \A i \in 1 .. Len(t1) : t[i] = t1[i]
      /\ \A i \in 1 .. Len(t2) : t[Len(t1) + i] = t2[i]
  BY ConcatProperties
<1> DEFINE m == Len(c1)
           g == [i \in 1 .. Len(c) |-> IF i <= m THEN g1[i] ELSE Len(t1) + g2[i - m]]
<1> HIDE DEF c, t
<1>4. /\ \A i \in 1 .. m : g1[i] \in 1 .. Len(t1) /\ c1[i] = t1[g1[i]]
      /\ \A i, j \in 1 .. m : i < j => g1[i] < g1[j]
      /\ \A i \in 1 .. Len(c2) : g2[i] \in 1 .. Len(t2) /\ c2[i] = t2[g2[i]]
      /\ \A i, j \in 1 .. Len(c2) : i < j => g2[i] < g2[j]
  BY <1>1, <1>2 DEF Embeds
<1>5. \A i \in 1 .. m : i \in 1 .. Len(c) /\ g[i] = g1[i]
  BY <1>3
<1>10. \A i \in 1 .. Len(c) : ~(i <= m) => i - m \in 1 .. Len(c2) /\ g[i] = Len(t1) + g2[i - m] /\ c[i] = c2[i - m]
  <2> TAKE i \in 1 .. Len(c)
  <2> HAVE ~(i <= m)
  <2>1. i - m \in 1 .. Len(c2) /\ i = m + (i - m)
    BY ONLY <1>3, ~(i <= m), i \in 1 .. Len(c)
  <2>2. c[m + (i - m)] = c2[i - m]
    BY <1>3, <2>1
  <2>3. g[i] = Len(t1) + g2[i - m]
    OBVIOUS
  <2> HIDE DEF g, m
  <2> QED BY ONLY <2>1, <2>2, <2>3
<1> HIDE DEF g, m
<1>6. ASSUME NEW i \in 1 .. Len(c) PROVE g[i] \in 1 .. Len(t) /\ c[i] = t[g[i]]
  <2>1. CASE i <= m
    <3>1. i \in 1 .. m
      BY <1>3, <2>1 DEF m
    <3> QED BY <1>3, <1>4, <1>5, <3>1, SMTT(30) DEF m
  <2>2. CASE ~(i <= m)
    <3>1. g2[i - m] \in 1 .. Len(t2) /\ c2[i - m] = t2[g2[i - m]]
      BY <1>4, <1>10, <2>2
    <3>2. g[i] = Len(t1) + g2[i - m] /\ c[i] = c2[i - m]
      BY <1>10, <2>2
    <3> QED BY <1>3, <3>1, <3>2
  <2> QED BY <2>1, <2>2
<1>7. ASSUME NEW i \in 1 .. Len(c), NEW j \in 1 .. Len(c), i < j PROVE g[i] < g[j]
  <2>1. CASE i <= m /\ j <= m
    <3>1. i \in 1 .. m /\ j \in 1 .. m
      BY <1>3, <2>1 DEF m
    <3> QED BY <1>4, <1>5, <1>7, <3>1
  <2>2. CASE i <= m /\ ~(j <= m)
    <3>1. i \in 1 .. m
      BY <1>3, <2>2 DEF m
    <3>2. g[i] \in 1 .. Len(t1)
      BY <1>4, <1>5, <3>1
    <3>3. g[j] = Len(t1) + g2[j - m] /\ g2[j - m] \in 1 .. Len(t2)
      BY <1>4, <1>10, <2>2
    <3> QED BY <1>3, <3>2, <3>3
  <2>3. CASE ~(i <= m) /\ ~(j <= m)
    <3>1. /\ i - m \in 1 .. Len(c2) /\ g[i] = Len(t1) + g2[i - m]
          /\ j - m \in 1 .. Len(c2) /\ g[j] = Len(t1) + g2[j - m]
      BY <1>10, <2>3
    <3>2. i - m < j - m
      BY <1>3, <1>7 DEF m
    <3> DEFINE x == i - m
               y == j - m
    <3> HIDE DEF x, y
    <3>4. x \in 1 .. Len(c2) /\ y \in 1 .. Len(c2) /\ x < y
      BY <3>1, <3>2 DEF x, y
    <3>5. g2[x] < g2[y] /\ g2[x] \in 1 .. Len(t2) /\ g2[y] \in 1 .. Len(t2)
      BY ONLY <1>4, <3>4
    <3>3. g2[i - m] < g2[j - m] /\ g2[i - m] \in Nat /\ g2[j - m] \in Nat
      BY ONLY <1>3, <3>5 DEF x, y
    <3> QED BY <1>3, <3>1, <3>3, SMTT(30)
  <2>4. i <= m \/ ~(j <= m)
    BY <1>3, <1>7 DEF m
  <2> QED BY <2>1, <2>2, <2>3, <2>4
<1>8. g \in [1 .. Len(c) -> 1 .. Len(t)]
  BY <1>6 DEF g
<1>9. Embeds(g, c, t)
  BY ONLY <1>6, <1>7, <1>8 DEF Embeds
<1> QED BY <1>9 DEF Within, c, t

(* What is taken from a subsequence is within the matching part of the text: *)
(* the elements lo+1..hi of c lie within the places from+1..to of t.          *)
LEMMA WithinPart ==
    ASSUME NEW E, NEW c \in Seq(E), NEW t \in Seq(E), NEW g, Embeds(g, c, t),
           NEW lo \in 0 .. Len(c), NEW hi \in lo .. Len(c), NEW from \in 0 .. Len(t), NEW to \in from .. Len(t),
           \A i \in lo + 1 .. hi : from < g[i] /\ g[i] <= to
    PROVE  Within(SubSeq(c, lo + 1, hi), SubSeq(t, from + 1, to))
<1> DEFINE d == SubSeq(c, lo + 1, hi)
           s == SubSeq(t, from + 1, to)
           h == [i \in 1 .. hi - lo |-> g[lo + i] - from]
<1>0. Len(c) \in Nat /\ Len(t) \in Nat
  OBVIOUS
<1>1. /\ g \in [1 .. Len(c) -> 1 .. Len(t)] /\ Len(c) \in Nat /\ Len(t) \in Nat
      /\ \A i, j \in 1 .. Len(c) : i < j => g[i] < g[j]
      /\ \A i \in 1 .. Len(c) : c[i] = t[g[i]]
  BY ONLY Embeds(g, c, t), <1>0, Zenon DEF Embeds
<1>2. Len(d) = hi - lo /\ \A i \in 1 .. hi - lo : d[i] = c[lo + i]
  <2>1. \A i \in lo + 1 .. hi : c[i] \in E
    OBVIOUS
  <2>2. lo + 1 \in Int /\ hi \in Int /\ (lo + 1 <= hi \/ hi - lo = 0) /\ hi - (lo + 1) + 1 = hi - lo
    BY <1>1
  <2>3. /\ Len(d) = IF lo + 1 <= hi THEN hi - (lo + 1) + 1 ELSE 0
        /\ \A i \in 1 .. hi - (lo + 1) + 1 : d[i] = c[lo + 1 + i - 1]
    BY <2>1, <2>2, SubSeqProperties, SMTT(30)
  <2>4. \A i \in 1 .. hi - lo : lo + 1 + i - 1 = lo + i
    BY <1>1
  <2> HIDE DEF d
  <2> QED BY <2>2, <2>3, <2>4
<1>3. Len(s) = to - from /\ \A i \in 1 .. to - from : s[i] = t[from + i]
  <2>1. \A i \in from + 1 .. to : t[i] \in E
    OBVIOUS
  <2>2. from + 1 \in Int /\ to \in Int /\ (from + 1 <= to \/ to - from = 0) /\ to - (from + 1) + 1 = to - from
    BY <1>1
  <2>3. /\ Len(s) = IF from + 1 <= to THEN to - (from + 1) + 1 ELSE 0
        /\ \A i \in 1 .. to - (from + 1) + 1 : s[i] = t[from + 1 + i - 1]
    BY <2>1, <2>2, SubSeqProperties, SMTT(30)
  <2>4. \A i \in 1 .. to - from : from + 1 + i - 1 = from + i
    BY <1>1
  <2> HIDE DEF s
  <2> QED BY <2>2, <2>3, <2>4
<1> HIDE DEF d, s
<1>4. \A i \in 1 .. hi - lo : lo + i \in lo + 1 .. hi /\ lo + i \in 1 .. Len(c)
  BY <1>1
<1>5. \A i \in 1 .. hi - lo : h[i] = g[lo + i] - from /\ h[i] \in 1 .. to - from /\ g[lo + i] \in Nat
  <2> TAKE i \in 1 .. hi - lo
  <2>1. from < g[lo + i] /\ g[lo + i] <= to /\ g[lo + i] \in Nat
    BY <1>1, <1>4
  <2> QED BY <1>1, <2>1
<1> HIDE DEF h
<1>6. ASSUME NEW i \in 1 .. hi - lo PROVE d[i] = s[h[i]]
  <2>1. d[i] = t[g[lo + i]]
    BY <1>1, <1>2, <1>4
  <2>3. h[i] = g[lo + i] - from /\ h[i] \in 1 .. to - from /\ g[lo + i] \in Nat
    BY <1>5
  <2>4. s[h[i]] = t[from + h[i]]
    BY ONLY <1>3, <2>3
  <2>2. s[h[i]] = t[from + h[i]] /\ from + h[i] = g[lo + i]
    BY ONLY <2>3, <2>4, <1>1, from \in 0 .. Len(t)
  <2> QED BY <2>1, <2>2
<1>7. ASSUME NEW i \in 1 .. hi - lo, NEW j \in 1 .. hi - lo, i < j PROVE h[i] < h[j]
  <2>1. g[lo + i] < g[lo + j]
    <3>1. lo + i < lo + j /\ lo + i \in 1 .. Len(c) /\ lo + j \in 1 .. Len(c)
      BY <1>4, <1>7
    <3> QED BY ONLY <1>1, <3>1
  <2>2. h[i] = g[lo + i] - from /\ h[j] = g[lo + j] - from /\ g[lo + i] \in Nat /\ g[lo + j] \in Nat /\ from \in Nat
    BY <1>1, <1>5
  <2> QED BY ONLY <2>1, <2>2
<1>8. h \in [1 .. hi - lo -> 1 .. to - from]
  BY <1>5 DEF h
<1>9. Embeds(h, d, s)
  BY ONLY <1>2, <1>3, <1>6, <1>7, <1>8 DEF Embeds
<1> QED BY <1>9 DEF Within, d, s

-----------------------------------------------------------------------------
(* Longest common subsequences. *)

LEMMA JoinedParts ==
    ASSUME NEW E, NEW s1 \in Seq(E), NEW s2 \in Seq(E)
    PROVE  /\ SubSeq(s1 \o s2, 1, Len(s1)) = s1
           /\ SubSeq(s1 \o s2, Len(s1) + 1, Len(s1) + Len(s2)) = s2
<1> DEFINE s == s1 \o s2
           p == SubSeq(s, 1, Len(s1))
           q == SubSeq(s, Len(s1) + 1, Len(s1) + Len(s2))
<1>1. /\ s \in Seq(E) /\ Len(s) = Len(s1) + Len(s2) /\ Len(s1) \in Nat /\ Len(s2) \in Nat
      /\ \A i \in 1 .. Len(s1) : s[i] = s1[i]
      /\ \A i \in 1 .. Len(s2) : s[Len(s1) + i] = s2[i]
  BY ConcatProperties
<1> HIDE DEF s
<1>2. \A i \in 1 .. Len(s1) + Len(s2) : s[i] \in E
  BY <1>1
<1>3. p \in Seq(E) /\ Len(p) = Len(s1) /\ \A i \in 1 .. Len(s1) : p[i] = s1[i]
  <2>1. \A i \in 1 .. Len(s1) : s[i] \in E
    BY <1>1, <1>2
  <2>2. 1 \in Int /\ Len(s1) \in Int /\ (1 <= Len(s1) \/ Len(s1) = 0) /\ Len(s1) - 1 + 1 = Len(s1)
    BY <1>1
  <2>3. /\ p \in Seq(E) /\ Len(p) = IF 1 <= Len(s1) THEN Len(s1) - 1 + 1 ELSE 0
        /\ \A i \in 1 .. Len(s1) - 1 + 1 : p[i] = s[1 + i - 1]
    BY <2>1, <2>2, SubSeqProperties
  <2>4. \A i \in 1 .. Len(s1) : 1 + i - 1 = i
    OBVIOUS
  <2> HIDE DEF p
  <2> QED BY <1>1, <2>2, <2>3, <2>4
<1>4. q \in Seq(E) /\ Len(q) = Len(s2) /\ \A i \in 1 .. Len(s2) : q[i] = s2[i]
  <2> DEFINE m == Len(s1) + 1
             n == Len(s1) + Len(s2)
  <2>1. \A i \in m .. n : s[i] \in E
    BY <1>1, <1>2
  <2>2. m \in Int /\ n \in Int /\ (m <= n \/ Len(s2) = 0) /\ n - m + 1 = Len(s2)
    BY <1>1
  <2>3. /\ q \in Seq(E) /\ Len(q) = IF m <= n THEN n - m + 1 ELSE 0
        /\ \A i \in 1 .. n - m + 1 : q[i] = s[m + i - 1]
    BY <2>1, <2>2, SubSeqProperties
  <2>4. \A i \in 1 .. Len(s2) : m + i - 1 = Len(s1) + i
    BY <1>1
  <2>5. ~(m <= n) => Len(s2) = 0
    BY <2>2
  <2> HIDE DEF q, m, n
  <2> QED BY <1>1, <2>2, <2>3, <2>4, <2>5
<1> HIDE DEF p, q
<1>5. p = s1
  BY <1>3, SeqEqual
<1>6. q = s2
  BY <1>4, SeqEqual
<1> QED BY <1>5, <1>6 DEF p, q, s

LEMMA PartsJoin ==
    ASSUME NEW E, NEW s \in Seq(E), NEW k \in 0 .. Len(s)
    PROVE  /\ SubSeq(s, 1, k) \o SubSeq(s, k + 1, Len(s)) = s
           /\ SubSeq(s, 1, k) \in Seq(E) /\ SubSeq(s, k + 1, Len(s)) \in Seq(E)
           /\ Len(SubSeq(s, 1, k)) = k /\ Len(SubSeq(s, k + 1, Len(s))) = Len(s) - k
           /\ \A i \in 1 .. k : SubSeq(s, 1, k)[i] = s[i]
           /\ \A i \in 1 .. Len(s) - k : SubSeq(s, k + 1, Len(s))[i] = s[k + i]
<1> DEFINE n == Len(s)
           p == SubSeq(s, 1, k)
           q == SubSeq(s, k + 1, n)
<1>1. n \in Nat /\ \A i \in 1 .. n : s[i] \in E
  OBVIOUS
<1>2. 1 \in 1 .. Len(s) + 1 /\ k \in 1 - 1 .. Len(s) /\ Len(s) \in k .. Len(s)
  BY <1>1
<1>3. p \o q = s
  BY <1>2, ConcatAdjacentSubSeq, SubSeqFull
<1> HIDE DEF n
<1>4. p \in Seq(E) /\ Len(p) = k /\ \A i \in 1 .. k : p[i] = s[i]
  <2>1. \A i \in 1 .. k : s[i] \in E /\ 1 + i - 1 = i
    BY <1>1 DEF n
  <2>2. 1 \in Int /\ k \in Int /\ (1 <= k \/ k = 0) /\ k - 1 + 1 = k
    BY <1>1 DEF n
  <2>3. /\ p \in Seq(E) /\ Len(p) = IF 1 <= k THEN k - 1 + 1 ELSE 0
        /\ \A i \in 1 .. k - 1 + 1 : p[i] = s[1 + i - 1]
    BY <2>1, <2>2, SubSeqProperties
  <2> HIDE DEF p
  <2> QED BY <2>1, <2>2, <2>3
<1>5. q \in Seq(E) /\ Len(q) = n - k /\ \A i \in 1 .. n - k : q[i] = s[k + i]
  <2> DEFINE m == k + 1
  <2>1. \A i \in m .. n : s[i] \in E
    BY <1>1, k \in 0 .. n DEF n
  <2>2. m \in Int /\ n \in Int /\ (m <= n \/ n - k = 0) /\ n - m + 1 = n - k
    BY <1>1 DEF n
  <2>3. /\ q \in Seq(E) /\ Len(q) = IF m <= n THEN n - m + 1 ELSE 0
        /\ \A i \in 1 .. n - m + 1 : q[i] = s[m + i - 1]
    BY <2>1, <2>2, SubSeqProperties
  <2>4. \A i \in 1 .. n - k : m + i - 1 = k + i
    BY <1>1 DEF n
  <2>5. ~(m <= n) => n - k = 0
    BY <2>2
  <2>6. (m <= n) => n - m + 1 = n - k
    BY <2>2
  <2> HIDE DEF q, m
  <2> QED BY <2>2, <2>3, <2>4, <2>5, <2>6
<1> QED BY ONLY <1>3, <1>4, <1>5 DEF p, q, n

LEMMA EmbedsTypes ==
    ASSUME NEW c, NEW t, Len(c) \in Nat, Len(t) \in Nat, NEW g, Embeds(g, c, t)
    PROVE  /\ \A i \in 1 .. Len(c) : g[i] \in 1 .. Len(t) /\ g[i] \in Nat
           /\ \A i, j \in 1 .. Len(c) : i < j => g[i] < g[j]
           /\ \A i \in 1 .. Len(c) : c[i] = t[g[i]]
BY DEF Embeds

LEMMA WithinCut ==
    ASSUME NEW E, NEW c1 \in Seq(E), NEW c2 \in Seq(E), NEW t \in Seq(E), Within(c1 \o c2, t)
    PROVE  \E j \in 0 .. Len(t) : Within(c1, SubSeq(t, 1, j)) /\ Within(c2, SubSeq(t, j + 1, Len(t)))
<1> DEFINE c == c1 \o c2
           m == Len(c1)
<1>1. c \in Seq(E) /\ Len(c) = m + Len(c2) /\ m \in Nat /\ Len(c2) \in Nat /\ Len(t) \in Nat
  BY ConcatProperties
<1>2. SubSeq(c, 1, m) = c1 /\ SubSeq(c, m + 1, Len(c)) = c2
  BY <1>1, JoinedParts
<1>3. PICK g : Embeds(g, c, t)
  BY DEF Within
<1> HIDE DEF c
<1>4. /\ \A i \in 1 .. Len(c) : g[i] \in 1 .. Len(t) /\ g[i] \in Nat
      /\ \A i, j \in 1 .. Len(c) : i < j => g[i] < g[j]
  <2>1. Len(c) \in Nat /\ Len(t) \in Nat
    BY <1>1
  <2> QED BY ONLY <1>3, <2>1, EmbedsTypes
<1> DEFINE j == IF m = 0 THEN 0 ELSE g[m]
<1>5. j \in 0 .. Len(t)
  BY <1>1, <1>4
<1>6. \A i \in 1 .. m : 0 < g[i] /\ g[i] <= j
  <2> TAKE i \in 1 .. m
  <2>1. i \in 1 .. Len(c) /\ m \in 1 .. Len(c) /\ j = g[m] /\ (i < m \/ i = m)
    BY <1>1
  <2>2. g[i] \in 1 .. Len(t) /\ g[m] \in Nat /\ (i < m => g[i] < g[m])
    BY ONLY <1>4, <2>1
  <2> QED BY ONLY <2>1, <2>2, <1>1
<1>7. \A i \in m + 1 .. Len(c) : j < g[i] /\ g[i] <= Len(t)
  <2> TAKE i \in m + 1 .. Len(c)
  <2>1. i \in 1 .. Len(c) /\ (m = 0 \/ m \in 1 .. Len(c)) /\ m < i
    BY <1>1
  <2>2. g[i] \in 1 .. Len(t) /\ (m = 0 \/ g[m] < g[i])
    BY ONLY <1>4, <2>1
  <2> QED BY <1>1, <2>2
<1> HIDE DEF j
<1>8. Within(SubSeq(c, 0 + 1, m), SubSeq(t, 0 + 1, j))
  <2>1. 0 \in 0 .. Len(c) /\ m \in 0 .. Len(c) /\ 0 \in 0 .. Len(t) /\ j \in 0 .. Len(t) /\ \A i \in 0 + 1 .. m : i \in 1 .. m
    BY <1>1, <1>5
  <2>2. \A i \in 0 + 1 .. m : 0 < g[i] /\ g[i] <= j
    BY <1>6, <2>1
  <2> QED BY ONLY t \in Seq(E), <1>1, <1>3, <2>1, <2>2, WithinPart
<1>9. Within(SubSeq(c, m + 1, Len(c)), SubSeq(t, j + 1, Len(t)))
  <2>1. m \in 0 .. Len(c) /\ Len(c) \in m .. Len(c) /\ Len(t) \in j .. Len(t)
    BY <1>1, <1>5
  <2> QED BY ONLY t \in Seq(E), <1>1, <1>3, <1>5, <1>7, <2>1, WithinPart
<1>10. 0 + 1 = 1
  OBVIOUS
<1> QED BY <1>2, <1>5, <1>8, <1>9, <1>10

(* Where a subsequence of two texts in a row goes from one to the other. *)
CutAt(i, c, t1, t2) ==
    /\ i \in 0 .. Len(c) /\ i <= Len(t1) /\ Len(c) - i <= Len(t2)
    /\ \A j \in 0 .. i : Within(SubSeq(c, 1, j), t1)
    /\ \A j \in i .. Len(c) : Within(SubSeq(c, j + 1, Len(c)), t2)

LEMMA WithinSize ==
    ASSUME NEW c, NEW t, Len(c) \in Nat, Len(t) \in Nat, Within(c, t)
    PROVE  Len(c) <= Len(t)
<1>1. PICK g : Embeds(g, c, t)
  BY DEF Within
<1>2. /\ \A i \in 1 .. Len(c) : g[i] \in 1 .. Len(t) /\ g[i] \in Nat
      /\ \A i, j \in 1 .. Len(c) : i < j => g[i] < g[j]
  BY <1>1, EmbedsTypes
<1> DEFINE S == {i \in 0 .. Len(c) : i = 0 \/ i <= g[i]}
<1>3. 0 \in S
  OBVIOUS
<1>4. ASSUME NEW i \in 1 .. Len(c), i - 1 \in S PROVE i \in S
  <2>1. CASE i = 1
    BY <1>2, <2>1
  <2>2. CASE i # 1
    <3>1. i - 1 \in 1 .. Len(c) /\ i - 1 < i /\ i - 1 # 0
      BY <2>2
    <3>2. i - 1 <= g[i - 1] /\ g[i - 1] < g[i] /\ g[i - 1] \in Nat /\ g[i] \in Nat
      BY <1>2, <1>4, <3>1
    <3> QED BY <3>1, <3>2
  <2> QED BY <2>1, <2>2
<1>5. \A i \in 0 .. Len(c) : i \in S
  <2> HIDE DEF S
  <2> QED BY <1>3, <1>4, Counted
<1>6. Len(c) = 0 \/ (Len(c) \in 1 .. Len(c) /\ Len(c) \in 0 .. Len(c))
  OBVIOUS
<1> QED BY <1>2, <1>5, <1>6

LEMMA WithinParts ==
    ASSUME NEW E, NEW c \in Seq(E), NEW t1 \in Seq(E), NEW t2 \in Seq(E), Within(c, t1 \o t2)
    PROVE  \E i : CutAt(i, c, t1, t2)
<1> DEFINE t == t1 \o t2
           n1 == Len(t1)
<1>1. t \in Seq(E) /\ Len(t) = n1 + Len(t2) /\ n1 \in Nat /\ Len(t2) \in Nat /\ Len(c) \in Nat
  BY ConcatProperties
<1>2. SubSeq(t, 1, n1) = t1 /\ SubSeq(t, n1 + 1, Len(t)) = t2
  BY <1>1, JoinedParts
<1>3. PICK g : Embeds(g, c, t)
  BY DEF Within
<1> HIDE DEF t, n1
<1>4. /\ \A i \in 1 .. Len(c) : g[i] \in 1 .. Len(t) /\ g[i] \in Nat
      /\ \A i, j \in 1 .. Len(c) : i < j => g[i] < g[j]
  <2>1. Len(c) \in Nat /\ Len(t) \in Nat
    BY <1>1
  <2> QED BY ONLY <1>3, <2>1, EmbedsTypes
<1> DEFINE T == {k \in 1 .. Len(c) + 1 : k = Len(c) + 1 \/ n1 < g[k]}
<1>5. PICK k \in T : \A y \in T : k <= y
  <2>1. T \in SUBSET Nat /\ T # {}
    <3>1. Len(c) + 1 \in T
      BY <1>1
    <3> QED BY <3>1
  <2> HIDE DEF T
  <2> QED BY <2>1, LeastNumber
<1> DEFINE i == k - 1
<1>6. i \in 0 .. Len(c) /\ k = i + 1
  BY <1>1, <1>5
<1>7. \A x \in 1 .. i : g[x] <= n1
  <2> TAKE x \in 1 .. i
  <2>1. x \in 1 .. Len(c) + 1 /\ ~(k <= x) /\ x \in 1 .. Len(c)
    BY <1>1, <1>6
  <2>2. x \notin T
    <3> HIDE DEF T
    <3> QED BY ONLY <1>5, <2>1
  <2> QED BY <1>1, <1>4, <2>1, <2>2
<1>8. \A x \in i + 1 .. Len(c) : n1 < g[x]
  <2> TAKE x \in i + 1 .. Len(c)
  <2>1. k \in 1 .. Len(c) /\ x \in 1 .. Len(c) /\ (k < x \/ k = x)
    BY <1>1, <1>6
  <2>2. n1 < g[k]
    BY <1>1, <1>5, <2>1
  <2> QED BY <1>1, <1>4, <2>1, <2>2
<1> HIDE DEF i, T
<1>9. \A j \in 0 .. i : Within(SubSeq(c, 1, j), t1)
  <2> TAKE j \in 0 .. i
  <2>1. /\ 0 \in 0 .. Len(c) /\ j \in 0 .. Len(c) /\ 0 \in 0 .. Len(t) /\ n1 \in 0 .. Len(t)
        /\ \A x \in 0 + 1 .. j : x \in 1 .. i /\ x \in 1 .. Len(c)
    BY <1>1, <1>6
  <2>2. \A x \in 0 + 1 .. j : 0 < g[x] /\ g[x] <= n1
    <3> TAKE x \in 0 + 1 .. j
    <3>1. g[x] \in 1 .. Len(t)
      BY ONLY <1>4, <2>1
    <3> QED BY <1>1, <1>7, <2>1, <3>1
  <2>3. Within(SubSeq(c, 0 + 1, j), SubSeq(t, 0 + 1, n1))
    BY ONLY c \in Seq(E), <1>1, <1>3, <2>1, <2>2, WithinPart
  <2>4. 0 + 1 = 1
    OBVIOUS
  <2> QED BY ONLY <1>2, <2>3, <2>4
<1>10. \A j \in i .. Len(c) : Within(SubSeq(c, j + 1, Len(c)), t2)
  <2> TAKE j \in i .. Len(c)
  <2>1. /\ j \in 0 .. Len(c) /\ Len(c) \in j .. Len(c) /\ n1 \in 0 .. Len(t) /\ Len(t) \in n1 .. Len(t)
        /\ \A x \in j + 1 .. Len(c) : x \in i + 1 .. Len(c) /\ x \in 1 .. Len(c)
    BY <1>1, <1>6
  <2>2. \A x \in j + 1 .. Len(c) : n1 < g[x] /\ g[x] <= Len(t)
    <3> TAKE x \in j + 1 .. Len(c)
    <3>1. g[x] \in 1 .. Len(t)
      BY ONLY <1>4, <2>1
    <3> QED BY <1>1, <1>8, <2>1, <3>1
  <2>3. Within(SubSeq(c, j + 1, Len(c)), SubSeq(t, n1 + 1, Len(t)))
    BY ONLY c \in Seq(E), <1>1, <1>3, <2>1, <2>2, WithinPart
  <2> QED BY <1>2, <2>3
<1>11. i <= Len(t1) /\ Len(c) - i <= Len(t2)
  <2>1. Within(SubSeq(c, 1, i), t1) /\ Within(SubSeq(c, i + 1, Len(c)), t2)
    <3>1. i \in 0 .. i /\ i \in i .. Len(c)
      BY <1>1, <1>6
    <3> QED BY <1>9, <1>10, <3>1
  <2>2. Len(SubSeq(c, 1, i)) = i /\ Len(SubSeq(c, i + 1, Len(c))) = Len(c) - i
    BY <1>6, PartsJoin
  <2>3. i \in Nat /\ Len(c) - i \in Nat /\ Len(t1) \in Nat
    BY <1>1, <1>6 DEF n1
  <2> QED BY ONLY <1>1, <2>1, <2>2, <2>3, WithinSize
<1>12. CutAt(i, c, t1, t2)
  BY <1>6, <1>9, <1>10, <1>11 DEF CutAt
<1> QED BY <1>12

LEMMA WithinReverse ==
    ASSUME NEW E, NEW c \in Seq(E), NEW t \in Seq(E), Within(c, t)
    PROVE  Within(Reverse(c), Reverse(t))
<1>1. PICK g : Embeds(g, c, t)
  BY DEF Within
<1> DEFINE m == Len(c)
           n == Len(t)
           rc == Reverse(c)
           rt == Reverse(t)
           h == [i \in 1 .. m |-> (n - g[(m - i) + 1]) + 1]
<1>2. m \in Nat /\ n \in Nat
  OBVIOUS
<1>3. /\ Len(rc) = m /\ \A i \in 1 .. m : rc[i] = c[(m - i) + 1]
      /\ Len(rt) = n /\ \A i \in 1 .. n : rt[i] = t[(n - i) + 1]
  BY DEF Reverse
<1>4. /\ \A i \in 1 .. m : g[i] \in 1 .. n /\ g[i] \in Nat
      /\ \A i, j \in 1 .. m : i < j => g[i] < g[j]
      /\ \A i \in 1 .. m : c[i] = t[g[i]]
  BY <1>1, <1>2, EmbedsTypes
<1> HIDE DEF m, n, rc, rt
<1>5. \A i \in 1 .. m : (m - i) + 1 \in 1 .. m /\ h[i] = (n - g[(m - i) + 1]) + 1
  BY <1>2
<1> HIDE DEF h
<1>6. ASSUME NEW i \in 1 .. m PROVE h[i] \in 1 .. n /\ rc[i] = rt[h[i]]
  <2> DEFINE x == (m - i) + 1
  <2>1. x \in 1 .. m /\ h[i] = (n - g[x]) + 1 /\ rc[i] = c[x]
    BY <1>3, <1>5
  <2> HIDE DEF x
  <2>2. g[x] \in 1 .. n /\ c[x] = t[g[x]]
    BY <1>4, <2>1
  <2>3. h[i] \in 1 .. n /\ (n - h[i]) + 1 = g[x]
    BY ONLY <1>2, <2>1, <2>2, SMTT(30)
  <2> QED BY <1>3, <2>1, <2>2, <2>3
<1>7. ASSUME NEW i \in 1 .. m, NEW j \in 1 .. m, i < j PROVE h[i] < h[j]
  <2> DEFINE x == (m - i) + 1
             y == (m - j) + 1
  <2>1. x \in 1 .. m /\ h[i] = (n - g[x]) + 1 /\ y \in 1 .. m /\ h[j] = (n - g[y]) + 1
    BY <1>5
  <2>2. y < x
    BY <1>2, <1>7
  <2> HIDE DEF x, y
  <2>3. g[y] < g[x] /\ g[x] \in Nat /\ g[y] \in Nat
    BY ONLY <1>4, <2>1, <2>2
  <2> QED BY ONLY <1>2, <2>1, <2>3
<1>8. h \in [1 .. m -> 1 .. n]
  BY <1>6 DEF h
<1>9. Embeds(h, rc, rt)
  BY ONLY <1>3, <1>6, <1>7, <1>8 DEF Embeds
<1> QED BY <1>9 DEF Within, rc, rt

LEMMA LongestNone ==
    ASSUME NEW E, NEW t \in Seq(E)
    PROVE  Longest(0, <<>>, t, E) /\ Longest(0, t, <<>>, E)
<1>1. <<>> \in Seq(E) /\ Len(<<>>) = 0 /\ Len(t) \in Nat
  OBVIOUS
<1>2. Within(<<>>, t) /\ Within(<<>>, <<>>)
  BY WithinNothing
<1>3. ASSUME NEW c \in Seq(E), Within(c, <<>>) PROVE Len(c) <= 0
  <2>1. Len(c) \in Nat
    OBVIOUS
  <2>2. Len(c) <= Len(<<>>)
    BY ONLY <1>1, <1>3, <2>1, WithinSize
  <2> QED BY <1>1, <2>2
<1> QED BY ONLY <1>1, <1>2, <1>3, Zenon DEF Longest, Common

LEMMA LongestUnique ==
    ASSUME NEW E, NEW a, NEW b, NEW k \in Nat, NEW m \in Nat, Longest(k, a, b, E), Longest(m, a, b, E)
    PROVE  k = m
<1>1. PICK c \in Seq(E) : Common(c, a, b) /\ Len(c) = k
  BY DEF Longest
<1>2. PICK d \in Seq(E) : Common(d, a, b) /\ Len(d) = m
  BY DEF Longest
<1>3. k <= m /\ m <= k
  BY <1>1, <1>2, Zenon DEF Longest
<1> QED BY <1>3

LEMMA LongestTurned ==
    ASSUME NEW E, NEW a, NEW b, NEW k, Longest(k, a, b, E)
    PROVE  Longest(k, b, a, E)
BY Zenon DEF Longest, Common

(* A text before both adds all its elements. *)
LEMMA LongestBefore ==
    ASSUME NEW E, NEW p \in Seq(E), NEW a \in Seq(E), NEW b \in Seq(E), NEW k \in Nat, Longest(k, a, b, E)
    PROVE  Longest(Len(p) + k, p \o a, p \o b, E)
<1>1. \E c \in Seq(E) : Common(c, p \o a, p \o b) /\ Len(c) = Len(p) + k
  <2>1. PICK c \in Seq(E) : Common(c, a, b) /\ Len(c) = k
    BY DEF Longest
  <2>2. Within(p, p)
    BY WithinItself
  <2>3. Within(p \o c, p \o a) /\ Within(p \o c, p \o b)
    BY <2>1, <2>2, WithinJoin DEF Common
  <2>4. p \o c \in Seq(E) /\ Len(p \o c) = Len(p) + k
    BY <2>1, ConcatProperties
  <2> QED BY <2>3, <2>4 DEF Common
<1>2. ASSUME NEW c \in Seq(E), Common(c, p \o a, p \o b) PROVE Len(c) <= Len(p) + k
  <2>1. PICK i : CutAt(i, c, p, a)
    BY <1>2, WithinParts DEF Common
  <2>2. PICK j : CutAt(j, c, p, b)
    BY <1>2, WithinParts DEF Common
  <2> DEFINE m == IF i <= j THEN j ELSE i
             d == SubSeq(c, m + 1, Len(c))
  <2>3. m \in i .. Len(c) /\ m \in j .. Len(c) /\ m \in 0 .. Len(c) /\ m <= Len(p)
    BY <2>1, <2>2 DEF CutAt
  <2>4. Within(d, a)
    <3> HIDE DEF m
    <3> QED BY ONLY <2>1, <2>3 DEF CutAt
  <2>5. Within(d, b)
    <3> HIDE DEF m
    <3> QED BY ONLY <2>2, <2>3 DEF CutAt
  <2>6. d \in Seq(E) /\ Len(d) = Len(c) - m
    <3> HIDE DEF m
    <3> QED BY <2>3, PartsJoin
  <2> HIDE DEF d, m
  <2>7. Len(d) <= k
    BY <2>4, <2>5, <2>6 DEF Longest, Common
  <2>8. Len(c) \in Nat /\ Len(p) \in Nat /\ m \in Nat
    BY <2>3
  <2> QED BY <2>3, <2>6, <2>7, <2>8
<1> QED BY <1>1, <1>2 DEF Longest

LEMMA LongestAfter ==
    ASSUME NEW E, NEW p \in Seq(E), NEW a \in Seq(E), NEW b \in Seq(E), NEW k \in Nat, Longest(k, a, b, E)
    PROVE  Longest(k + Len(p), a \o p, b \o p, E)
<1>1. \E c \in Seq(E) : Common(c, a \o p, b \o p) /\ Len(c) = k + Len(p)
  <2>1. PICK c \in Seq(E) : Common(c, a, b) /\ Len(c) = k
    BY DEF Longest
  <2>2. Within(p, p)
    BY WithinItself
  <2>3. Within(c \o p, a \o p) /\ Within(c \o p, b \o p)
    BY <2>1, <2>2, WithinJoin DEF Common
  <2>4. c \o p \in Seq(E) /\ Len(c \o p) = k + Len(p)
    BY <2>1, ConcatProperties
  <2> QED BY <2>3, <2>4 DEF Common
<1>2. ASSUME NEW c \in Seq(E), Common(c, a \o p, b \o p) PROVE Len(c) <= k + Len(p)
  <2>1. PICK i : CutAt(i, c, a, p)
    BY <1>2, WithinParts DEF Common
  <2>2. PICK j : CutAt(j, c, b, p)
    BY <1>2, WithinParts DEF Common
  <2> DEFINE m == IF i <= j THEN i ELSE j
             d == SubSeq(c, 1, m)
  <2>3. m \in 0 .. i /\ m \in 0 .. j /\ m \in 0 .. Len(c) /\ Len(c) - m <= Len(p)
    BY <2>1, <2>2 DEF CutAt
  <2>4. Within(d, a)
    <3> HIDE DEF m
    <3> QED BY ONLY <2>1, <2>3 DEF CutAt
  <2>5. Within(d, b)
    <3> HIDE DEF m
    <3> QED BY ONLY <2>2, <2>3 DEF CutAt
  <2>6. d \in Seq(E) /\ Len(d) = m
    <3> HIDE DEF m
    <3> QED BY <2>3, PartsJoin
  <2> HIDE DEF d, m
  <2>7. Len(d) <= k
    BY <2>4, <2>5, <2>6 DEF Longest, Common
  <2>8. Len(c) \in Nat /\ Len(p) \in Nat /\ m \in Nat
    BY <2>3
  <2> QED BY <2>3, <2>6, <2>7, <2>8
<1> QED BY <1>1, <1>2 DEF Longest

(* Of two last elements that differ one is not needed. *)
LEMMA LongestOther ==
    ASSUME NEW E, NEW a \in Seq(E), NEW b \in Seq(E), NEW x \in E, NEW y \in E, x # y,
           NEW k \in Nat, NEW m \in Nat, Longest(k, a \o <<x>>, b, E), Longest(m, a, b \o <<y>>, E)
    PROVE  Longest(IF k >= m THEN k ELSE m, a \o <<x>>, b \o <<y>>, E)
<1> DEFINE ox == <<x>>
           oy == <<y>>
           ax == a \o ox
           by == b \o oy
<1>1. /\ ox \in Seq(E) /\ Len(ox) = 1 /\ ox[1] = x
      /\ oy \in Seq(E) /\ Len(oy) = 1 /\ oy[1] = y
  OBVIOUS
<1> HIDE DEF ox, oy
<1>2. ax \in Seq(E) /\ by \in Seq(E)
  BY <1>1, ConcatProperties
<1>3. \A s \in Seq(E) : s \o <<>> = s /\ <<>> \in Seq(E)
  BY ConcatEmptySeq
<1>4. ASSUME NEW c \in Seq(E) PROVE (Within(c, a) => Within(c, ax)) /\ (Within(c, b) => Within(c, by))
  <2>1. Within(<<>>, ox) /\ Within(<<>>, oy)
    BY WithinNothing
  <2>2. Within(c, a) => Within(c \o <<>>, ax)
    BY <1>1, <1>3, <2>1, WithinJoin
  <2>3. Within(c, b) => Within(c \o <<>>, by)
    BY <1>1, <1>3, <2>1, WithinJoin
  <2> QED BY <1>3, <2>2, <2>3
<1> HIDE DEF ax, by
<1>5. /\ \E c \in Seq(E) : Common(c, ax, by) /\ Len(c) = k
      /\ \E c \in Seq(E) : Common(c, ax, by) /\ Len(c) = m
  <2>1. PICK c \in Seq(E) : Common(c, ax, b) /\ Len(c) = k
    BY DEF Longest, ax, ox
  <2>2. PICK d \in Seq(E) : Common(d, a, by) /\ Len(d) = m
    BY DEF Longest, by, oy
  <2> QED BY <1>4, <2>1, <2>2, Zenon DEF Common
<1>6. ASSUME NEW c \in Seq(E), Common(c, ax, by) PROVE Len(c) <= k \/ Len(c) <= m
  <2>1. PICK i : CutAt(i, c, a, ox)
    <3>1. Within(c, a \o ox)
      BY <1>6 DEF Common, ax
    <3> QED BY <1>1, <3>1, WithinParts
  <2>2. PICK j : CutAt(j, c, b, oy)
    <3>1. Within(c, b \o oy)
      BY <1>6 DEF Common, by
    <3> QED BY <1>1, <3>1, WithinParts
  <2>3. Len(c) \in Nat
    OBVIOUS
  <2>4. ASSUME NEW t \in Seq(E), NEW o, NEW z, NEW n, o \in Seq(E), Len(o) = 1, o[1] = z, CutAt(n, c, t, o)
        PROVE  Within(c, t) \/ (Len(c) # 0 /\ c[Len(c)] = z)
    <3>1. n \in 0 .. Len(c) /\ Len(c) - n <= 1
      BY <2>4 DEF CutAt
    <3>2. CASE n = Len(c)
      <4>1. Len(c) \in 0 .. n
        BY <2>3, <3>2
      <4>2. Within(SubSeq(c, 1, Len(c)), t)
        BY ONLY <2>4, <4>1 DEF CutAt
      <4> QED BY <4>2, SubSeqFull
    <3>3. CASE n # Len(c)
      <4>1. n = Len(c) - 1 /\ Len(c) # 0 /\ n \in n .. Len(c) /\ n \in 0 .. Len(c) /\ Len(c) - n = 1 /\ n + 1 = Len(c)
        BY <2>3, <3>1, <3>3
      <4> DEFINE d == SubSeq(c, n + 1, Len(c))
      <4>2. Within(d, o)
        BY ONLY <2>4, <4>1 DEF CutAt
      <4>3. Len(d) = 1 /\ d[1] = c[Len(c)]
        <5>1. Len(d) = Len(c) - n /\ \A q \in 1 .. Len(c) - n : d[q] = c[n + q]
          BY <4>1, PartsJoin
        <5> HIDE DEF d
        <5> QED BY <4>1, <5>1
      <4> HIDE DEF d
      <4>4. PICK g : Embeds(g, d, o)
        BY <4>2 DEF Within
      <4>5. d[1] = o[g[1]] /\ g[1] = 1
        BY <2>4, <4>3, <4>4 DEF Embeds
      <4> QED BY <2>4, <4>1, <4>3, <4>5
    <3> QED BY <3>2, <3>3
  <2>5. Within(c, a) \/ (Len(c) # 0 /\ c[Len(c)] = x)
    BY <1>1, <2>1, <2>4
  <2>6. Within(c, b) \/ (Len(c) # 0 /\ c[Len(c)] = y)
    BY <1>1, <2>2, <2>4
  <2>7. Within(c, a) \/ Within(c, b)
    BY <2>5, <2>6
  <2>8. CASE Within(c, a)
    <3>1. Common(c, a, by)
      BY <1>6, <2>8 DEF Common
    <3> QED BY <3>1 DEF Longest, by, oy
  <2>9. CASE Within(c, b)
    <3>1. Common(c, ax, b)
      BY <1>6, <2>9 DEF Common
    <3> QED BY <3>1 DEF Longest, ax, ox
  <2> QED BY <2>7, <2>8, <2>9
<1> DEFINE l == IF k >= m THEN k ELSE m
<1>7. (l = k \/ l = m) /\ k <= l /\ m <= l /\ l \in Nat
  OBVIOUS
<1> HIDE DEF l
<1>8. \A c \in Seq(E) : Common(c, ax, by) => Len(c) <= l
  <2> TAKE c \in Seq(E)
  <2> HAVE Common(c, ax, by)
  <2>1. Len(c) \in Nat /\ (Len(c) <= k \/ Len(c) <= m)
    BY <1>6
  <2> QED BY <1>7, <2>1
<1>9. Longest(l, ax, by, E)
  BY <1>5, <1>7, <1>8, Zenon DEF Longest
<1> QED BY <1>9 DEF l, ax, by, ox, oy

LEMMA ReverseTypes ==
    ASSUME NEW E, NEW s \in Seq(E)
    PROVE  /\ Reverse(s) \in Seq(E) /\ Len(Reverse(s)) = Len(s)
           /\ \A i \in 1 .. Len(s) : Reverse(s)[i] = s[(Len(s) - i) + 1]
           /\ Reverse(Reverse(s)) = s
<1> DEFINE r == Reverse(s)
           n == Len(s)
<1>1. n \in Nat /\ \A i \in 1 .. n : (n - i) + 1 \in 1 .. n /\ s[(n - i) + 1] \in E
  OBVIOUS
<1>2. r \in Seq(E) /\ Len(r) = n /\ \A i \in 1 .. n : r[i] = s[(n - i) + 1]
  BY <1>1 DEF Reverse
<1> HIDE DEF r
<1>3. Reverse(r) \in Seq(E) /\ Len(Reverse(r)) = n /\ \A i \in 1 .. n : Reverse(r)[i] = r[(n - i) + 1]
  <2>1. \A i \in 1 .. n : r[(n - i) + 1] \in E
    BY <1>1, <1>2
  <2> QED BY <1>1, <1>2, <2>1 DEF Reverse
<1>4. \A i \in 1 .. n : Reverse(r)[i] = s[i]
  <2> TAKE i \in 1 .. n
  <2>1. (n - i) + 1 \in 1 .. n /\ (n - ((n - i) + 1)) + 1 = i
    BY <1>1
  <2> QED BY <1>2, <1>3, <2>1
<1>5. Reverse(r) = s
  <2> DEFINE q == Reverse(r)
  <2>1. q \in Seq(E) /\ Len(q) = Len(s) /\ \A i \in 1 .. Len(q) : q[i] = s[i]
    BY <1>3, <1>4
  <2> HIDE DEF q
  <2>2. q = s
    BY <2>1, SeqEqual
  <2> QED BY <2>2 DEF q
<1> QED BY <1>2, <1>5 DEF r

LEMMA LongestReverse ==
    ASSUME NEW E, NEW a \in Seq(E), NEW b \in Seq(E), NEW k, Longest(k, Reverse(a), Reverse(b), E)
    PROVE  Longest(k, a, b, E)
<1>1. \A c, t \in Seq(E) : Within(c, t) => Within(Reverse(c), Reverse(t))
  BY WithinReverse
<1>2. \A s \in Seq(E) : Reverse(s) \in Seq(E) /\ Len(Reverse(s)) = Len(s) /\ Reverse(Reverse(s)) = s
  BY ReverseTypes
<1>3. \E c \in Seq(E) : Common(c, a, b) /\ Len(c) = k
  <2>1. PICK c \in Seq(E) : Common(c, Reverse(a), Reverse(b)) /\ Len(c) = k
    BY DEF Longest
  <2>2. Common(Reverse(c), a, b)
    BY <1>1, <1>2, <2>1, Zenon DEF Common
  <2> QED BY <1>2, <2>1, <2>2, Zenon
<1>4. ASSUME NEW c \in Seq(E), Common(c, a, b) PROVE Len(c) <= k
  <2>1. Common(Reverse(c), Reverse(a), Reverse(b))
    BY <1>1, <1>4, Zenon DEF Common
  <2> QED BY <1>2, <2>1, Zenon DEF Longest
<1> QED BY <1>3, <1>4, Zenon DEF Longest

(* Hirschberg's division: the best place to cut the other text is one where *)
(* the halves' longest common subsequences are longest together.            *)
LEMMA LongestDivided ==
    ASSUME NEW E, NEW a1 \in Seq(E), NEW a2 \in Seq(E), NEW b \in Seq(E), NEW l, NEW r,
           \A j \in 0 .. Len(b) : /\ l[j] \in Nat /\ Longest(l[j], a1, SubSeq(b, 1, j), E)
                                  /\ r[j] \in Nat /\ Longest(r[j], a2, SubSeq(b, j + 1, Len(b)), E),
           NEW s \in 0 .. Len(b), \A j \in 0 .. Len(b) : l[j] + r[j] <= l[s] + r[s]
    PROVE  Longest(l[s] + r[s], a1 \o a2, b, E)
<1>1. \E c \in Seq(E) : Common(c, a1 \o a2, b) /\ Len(c) = l[s] + r[s]
  <2>1. PICK c1 \in Seq(E) : Common(c1, a1, SubSeq(b, 1, s)) /\ Len(c1) = l[s]
    BY DEF Longest
  <2>2. PICK c2 \in Seq(E) : Common(c2, a2, SubSeq(b, s + 1, Len(b))) /\ Len(c2) = r[s]
    BY DEF Longest
  <2>3. /\ SubSeq(b, 1, s) \o SubSeq(b, s + 1, Len(b)) = b
        /\ SubSeq(b, 1, s) \in Seq(E) /\ SubSeq(b, s + 1, Len(b)) \in Seq(E)
    BY PartsJoin
  <2>4. Within(c1 \o c2, a1 \o a2)
    BY <2>1, <2>2, WithinJoin DEF Common
  <2>5. Within(c1 \o c2, SubSeq(b, 1, s) \o SubSeq(b, s + 1, Len(b)))
    BY <2>1, <2>2, <2>3, WithinJoin DEF Common
  <2>6. c1 \o c2 \in Seq(E) /\ Len(c1 \o c2) = l[s] + r[s]
    <3>1. c1 \in Seq(E) /\ c2 \in Seq(E) /\ Len(c1) = l[s] /\ Len(c2) = r[s]
      BY <2>1, <2>2
    <3>2. c1 \o c2 \in Seq(E) /\ Len(c1 \o c2) = Len(c1) + Len(c2)
      BY ONLY <3>1, ConcatProperties
    <3> QED BY ONLY <3>1, <3>2, Zenon
  <2> QED BY ONLY <2>3, <2>4, <2>5, <2>6, Zenon DEF Common
<1>2. ASSUME NEW c \in Seq(E), Common(c, a1 \o a2, b) PROVE Len(c) <= l[s] + r[s]
  <2>1. PICK i : CutAt(i, c, a1, a2)
    BY <1>2, WithinParts DEF Common
  <2> DEFINE c1 == SubSeq(c, 1, i)
             c2 == SubSeq(c, i + 1, Len(c))
  <2>2. i \in 0 .. Len(c) /\ i \in 0 .. i /\ i \in i .. Len(c)
    BY <2>1 DEF CutAt
  <2>3. c1 \o c2 = c /\ c1 \in Seq(E) /\ c2 \in Seq(E) /\ Len(c1) = i /\ Len(c2) = Len(c) - i
    BY <2>2, PartsJoin
  <2>4. Within(c1, a1) /\ Within(c2, a2)
    BY ONLY <2>1, <2>2 DEF CutAt
  <2> HIDE DEF c1, c2
  <2>5. Within(c1 \o c2, b)
    BY <1>2, <2>3 DEF Common
  <2>6. PICK j \in 0 .. Len(b) : Within(c1, SubSeq(b, 1, j)) /\ Within(c2, SubSeq(b, j + 1, Len(b)))
    BY <2>3, <2>5, WithinCut
  <2>7. Len(c1) <= l[j]
    BY <2>3, <2>4, <2>6 DEF Longest, Common
  <2>8. Len(c2) <= r[j]
    BY <2>3, <2>4, <2>6 DEF Longest, Common
  <2>9. l[j] + r[j] <= l[s] + r[s] /\ l[j] \in Nat /\ r[j] \in Nat /\ l[s] \in Nat /\ r[s] \in Nat
    BY <2>6
  <2> QED BY ONLY <2>2, <2>3, <2>7, <2>8, <2>9, SMTT(30)
<1> QED BY <1>1, <1>2 DEF Longest

(* One element is found or not. *)
LEMMA LongestSingle ==
    ASSUME NEW E, NEW a \in Seq(E), Len(a) = 1, NEW b \in Seq(E)
    PROVE  Longest(IF \E k \in 1 .. Len(b) : b[k] = a[1] THEN 1 ELSE 0, a, b, E)
<1>1. \A c \in Seq(E) : Len(c) \in Nat /\ (Within(c, a) => Len(c) <= 1)
  <2> TAKE c \in Seq(E)
  <2>1. Len(c) \in Nat /\ Len(a) \in Nat
    OBVIOUS
  <2>2. Within(c, a) => Len(c) <= Len(a)
    BY ONLY <2>1, WithinSize
  <2> QED BY <2>1, <2>2
<1>2. CASE \E k \in 1 .. Len(b) : b[k] = a[1]
  <2>1. PICK k \in 1 .. Len(b) : b[k] = a[1]
    BY <1>2
  <2> DEFINE g == [i \in 1 .. Len(a) |-> k]
  <2>2. Embeds(g, a, b)
    BY <2>1 DEF Embeds
  <2>3. Common(a, a, b)
    BY <2>2, WithinItself DEF Common, Within
  <2> QED BY <1>1, <1>2, <2>3 DEF Longest, Common
<1>3. CASE ~(\E k \in 1 .. Len(b) : b[k] = a[1])
  <2>1. Common(<<>>, a, b) /\ <<>> \in Seq(E) /\ Len(<<>>) = 0
    BY WithinNothing DEF Common
  <2>2. ASSUME NEW c \in Seq(E), Common(c, a, b) PROVE Len(c) <= 0
    <3>1. SUFFICES ASSUME Len(c) = 1 PROVE FALSE
      BY <1>1, <2>2 DEF Common
    <3>2. PICK g : Embeds(g, c, a)
      BY <2>2 DEF Common, Within
    <3>3. PICK h : Embeds(h, c, b)
      BY <2>2 DEF Common, Within
    <3>4. c[1] = a[g[1]] /\ g[1] = 1
      BY <3>1, <3>2 DEF Embeds
    <3>5. c[1] = b[h[1]] /\ h[1] \in 1 .. Len(b)
      BY <3>1, <3>3 DEF Embeds
    <3> QED BY <1>3, <3>4, <3>5
  <2>3. Longest(0, a, b, E)
    BY ONLY <2>1, <2>2, Zenon DEF Longest
  <2> QED BY <1>3, <2>3, Zenon
<1> QED BY <1>2, <1>3

(* k is the length of the longest common subsequence of the first i elements *)
(* of a and the first j of b.                                                *)
LongestOf(k, a, b, i, j, E) == Longest(k, SubSeq(a, 1, i), SubSeq(b, 1, j), E)

LEMMA LongestSteps ==
    ASSUME NEW E, NEW a \in Seq(E), NEW b \in Seq(E), NEW i \in 1 .. Len(a), NEW j \in 1 .. Len(b),
           NEW k \in Nat, NEW m \in Nat
    PROVE  /\ a[i] = b[j] /\ LongestOf(k, a, b, i - 1, j - 1, E) => LongestOf(k + 1, a, b, i, j, E)
           /\ a[i] # b[j] /\ LongestOf(k, a, b, i, j - 1, E) /\ LongestOf(m, a, b, i - 1, j, E)
                => LongestOf(IF k >= m THEN k ELSE m, a, b, i, j, E)
<1> DEFINE p == SubSeq(a, 1, i - 1)
           q == SubSeq(b, 1, j - 1)
<1>1. SubSeq(a, 1, i) = p \o <<a[i]>> /\ p \in Seq(E)
  <2>1. 1 \in 1 .. Len(a) /\ i \in 1 .. Len(a) /\ i - 1 \in 0 .. Len(a)
    OBVIOUS
  <2> QED BY <2>1, SubSeqRecursiveSecond, PartsJoin
<1>2. SubSeq(b, 1, j) = q \o <<b[j]>> /\ q \in Seq(E)
  <2>1. 1 \in 1 .. Len(b) /\ j \in 1 .. Len(b) /\ j - 1 \in 0 .. Len(b)
    OBVIOUS
  <2> QED BY <2>1, SubSeqRecursiveSecond, PartsJoin
<1>3. a[i] \in E /\ b[j] \in E
  OBVIOUS
<1> HIDE DEF p, q
<1>4. ASSUME a[i] = b[j], LongestOf(k, a, b, i - 1, j - 1, E) PROVE LongestOf(k + 1, a, b, i, j, E)
  <2> DEFINE o == <<a[i]>>
  <2>1. o \in Seq(E) /\ Len(o) = 1
    BY <1>3
  <2> HIDE DEF o
  <2>2. Longest(k, p, q, E)
    BY <1>4 DEF LongestOf, p, q
  <2>3. Longest(k + Len(o), p \o o, q \o o, E)
    BY ONLY <1>1, <1>2, <2>1, <2>2, k \in Nat, LongestAfter
  <2> QED BY <1>1, <1>2, <1>4, <2>1, <2>3 DEF LongestOf, o
<1>5. ASSUME a[i] # b[j], LongestOf(k, a, b, i, j - 1, E), LongestOf(m, a, b, i - 1, j, E)
      PROVE  LongestOf(IF k >= m THEN k ELSE m, a, b, i, j, E)
  <2> DEFINE x == a[i]
             y == b[j]
  <2>1. Longest(k, p \o <<x>>, q, E) /\ Longest(m, p, q \o <<y>>, E)
    BY <1>1, <1>2, <1>5 DEF LongestOf, p, q
  <2>2. x \in E /\ y \in E /\ x # y
    BY <1>3, <1>5
  <2> HIDE DEF x, y
  <2>3. Longest(IF k >= m THEN k ELSE m, p \o <<x>>, q \o <<y>>, E)
    BY ONLY <1>1, <1>2, <2>1, <2>2, k \in Nat, m \in Nat, LongestOther
  <2> QED BY ONLY <1>1, <1>2, <2>3, Zenon DEF LongestOf, x, y
<1> QED BY ONLY <1>4, <1>5, Zenon

LEMMA LongestFirst ==
    ASSUME NEW E, NEW a \in Seq(E), NEW b \in Seq(E), NEW i \in 0 .. Len(a), NEW j \in 0 .. Len(b)
    PROVE  LongestOf(0, a, b, 0, j, E) /\ LongestOf(0, a, b, i, 0, E)
<1>1. SubSeq(a, 1, 0) = <<>> /\ SubSeq(b, 1, 0) = <<>>
  BY SubSeqEmpty
<1>2. SubSeq(a, 1, i) \in Seq(E) /\ SubSeq(b, 1, j) \in Seq(E)
  BY PartsJoin
<1> QED BY ONLY <1>1, <1>2, LongestNone DEF LongestOf

(* One row of the table from the one before. *)
RowFollows(cur, prev, x, b) ==
    /\ cur \in [0 .. Len(b) -> Nat] /\ cur[0] = 0
    /\ \A j \in 1 .. Len(b) :
         cur[j] = IF b[j] = x THEN prev[j - 1] + 1
                  ELSE IF cur[j - 1] >= prev[j] THEN cur[j - 1] ELSE prev[j]

LEMMA LcsRowSteps ==
    ASSUME NEW b, Len(b) \in Nat, NEW prev \in [0 .. Len(b) -> Nat], NEW x
    PROVE  RowFollows(LcsRowStep(prev, x, b), prev, x, b)
<1> DEFINE n == Len(b)
           Cell(j, d) == IF b[j] = x THEN prev[j - 1] + 1 ELSE IF d >= prev[j] THEN d ELSE prev[j]
           D == Nat
           F == [k \in 1 .. n |-> [d \in D |-> Cell(k, d)]]
           G == [k \in 0 .. n |-> D]
           Next(j, o) == IF j = 0 THEN 0 ELSE Cell(j, o[j - 1])
           cur[j \in 0 .. n] ==
             IF j = 0 THEN 0
             ELSE IF b[j] = x THEN prev[j - 1] + 1
             ELSE IF cur[j - 1] >= prev[j] THEN cur[j - 1] ELSE prev[j]
<1>1. LcsRowStep(prev, x, b) = cur
  BY DEF LcsRowStep
<1>2. n \in Nat /\ prev \in [0 .. n -> Nat]
  OBVIOUS
<1> HIDE DEF n
<1>3. ASSUME NEW k \in 1 .. n, NEW d \in Nat PROVE Cell(k, d) \in Nat
  <2>1. prev[k] \in Nat /\ prev[k - 1] \in Nat
    BY <1>2
  <2> QED BY <2>1
<1> HIDE DEF Cell
<1>4. 0 \in G[0] /\ \A k \in 1 .. n : \A d \in G[k - 1] : F[k][d] \in G[k]
  <2>1. \A k \in 1 .. n : k \in 0 .. n /\ k - 1 \in 0 .. n
    BY <1>2
  <2> QED BY <1>2, <1>3, <2>1
<1>5. PICK f : Iterated(n, 0, F, f) /\ \A k \in 0 .. n : f[k] \in G[k]
  <2> HIDE DEF F, G
  <2> QED BY <1>2, <1>4, Iterates
<1>6. f = [k \in 0 .. n |-> f[k]] /\ f[0] = 0 /\ \A k \in 1 .. n : f[k] = F[k][f[k - 1]]
  <2> HIDE DEF F, G
  <2> QED BY <1>5, Zenon DEF Iterated
<1>7. \A k \in 0 .. n : f[k] \in D
  BY <1>5
<1>8. ASSUME NEW k \in 0 .. n PROVE f[k] = Next(k, f)
  <2>1. CASE k = 0
    BY <1>6, <2>1, Zenon
  <2>2. CASE k # 0
    <3>1. k \in 1 .. n /\ k - 1 \in 0 .. n
      BY <1>2, <2>2
    <3>2. f[k] = F[k][f[k - 1]] /\ f[k - 1] \in D
      <4> HIDE DEF F, D
      <4> QED BY <1>6, <1>7, <3>1, Zenon
    <3>3. F[k][f[k - 1]] = Cell(k, f[k - 1])
      <4> HIDE DEF D
      <4> QED BY <3>1, <3>2, Zenon
    <3> QED BY <2>2, <3>2, <3>3, Zenon
  <2> QED BY <2>1, <2>2
<1>9. f = [k \in 0 .. n |-> Next(k, f)]
  <2> HIDE DEF Next
  <2> QED BY <1>6, <1>8
<1>10. cur = [k \in 0 .. n |-> Next(k, cur)]
  <2>1. f = [j \in 0 .. n |->
               IF j = 0 THEN 0
               ELSE IF b[j] = x THEN prev[j - 1] + 1
               ELSE IF f[j - 1] >= prev[j] THEN f[j - 1] ELSE prev[j]]
    BY <1>9, Zenon DEF Cell
  <2>2. cur = [j \in 0 .. n |->
               IF j = 0 THEN 0
               ELSE IF b[j] = x THEN prev[j - 1] + 1
               ELSE IF cur[j - 1] >= prev[j] THEN cur[j - 1] ELSE prev[j]]
    BY <2>1, Zenon
  <2> HIDE DEF cur
  <2> QED BY <2>2, Zenon DEF Cell
<1> HIDE DEF cur
<1>11. \A k \in 0 .. n : cur[k] = Next(k, cur)
  <2> HIDE DEF Next
  <2> QED BY <1>10, Zenon
<1>12. cur[0] = 0 /\ \A k \in 1 .. n : cur[k] = Cell(k, cur[k - 1])
  <2>1. 0 \in 0 .. n /\ \A k \in 1 .. n : k \in 0 .. n /\ k # 0
    BY <1>2
  <2> QED BY <1>11, <2>1, Zenon
<1> DEFINE T == {k \in 0 .. n : cur[k] \in Nat}
<1>13. 0 \in T
  BY <1>2, <1>12
<1>14. ASSUME NEW k \in 1 .. n, k - 1 \in T PROVE k \in T
  <2>1. cur[k - 1] \in Nat /\ k \in 0 .. n
    BY <1>2, <1>14
  <2>2. cur[k] = Cell(k, cur[k - 1]) /\ Cell(k, cur[k - 1]) \in Nat
    BY ONLY <1>3, <1>12, <2>1, k \in 1 .. n
  <2> QED BY <2>1, <2>2
<1>15. \A k \in 0 .. n : k \in T
  <2> HIDE DEF T
  <2> QED BY <1>2, <1>13, <1>14, Counted
<1>16. cur \in [0 .. n -> Nat]
  <2>1. cur = [k \in 0 .. n |-> cur[k]]
    <3> HIDE DEF Next
    <3> QED BY <1>10
  <2> QED BY <1>15, <2>1
<1> QED BY ONLY <1>1, <1>12, <1>16, Zenon DEF RowFollows, Cell, n

LEMMA LcsRowsExact ==
    ASSUME NEW E, NEW a \in Seq(E), NEW b \in Seq(E)
    PROVE  /\ LcsRowPrefix(a, b) \in [0 .. Len(b) -> Nat]
           /\ \A j \in 0 .. Len(b) : Longest(LcsRowPrefix(a, b)[j], a, SubSeq(b, 1, j), E)
<1> DEFINE n == Len(a)
           w == Len(b)
           D == [0 .. w -> Nat]
           zero == [j \in 0 .. w |-> 0]
           F == [k \in 1 .. n |-> [d \in D |-> LcsRowStep(d, a[k], b)]]
           G == [k \in 0 .. n |-> D]
           Next(i, o) == IF i = 0 THEN zero ELSE LcsRowStep(o[i - 1], a[i], b)
           row[i \in 0 .. n] == IF i = 0 THEN [j \in 0 .. w |-> 0] ELSE LcsRowStep(row[i - 1], a[i], b)
<1>1. LcsRowPrefix(a, b) = row[n]
  BY DEF LcsRowPrefix
<1>2. n \in Nat /\ w \in Nat
  OBVIOUS
<1>3. \A d \in D : \A x : RowFollows(LcsRowStep(d, x, b), d, x, b)
  BY LcsRowSteps
<1>4. \A d \in D : \A x : LcsRowStep(d, x, b) \in D
  BY <1>3 DEF RowFollows
<1>5. zero \in D /\ \A j \in 0 .. w : zero[j] = 0
  OBVIOUS
<1> HIDE DEF n, w
<1>6. zero \in G[0] /\ \A k \in 1 .. n : \A d \in G[k - 1] : F[k][d] \in G[k]
  <2> HIDE DEF zero, D
  <2>1. \A k \in 1 .. n : k \in 0 .. n /\ k - 1 \in 0 .. n
    BY <1>2
  <2>2. 0 \in 0 .. n
    BY <1>2
  <2> QED BY <1>4, <1>5, <2>1, <2>2
<1> HIDE DEF D
<1>7. PICK f : Iterated(n, zero, F, f) /\ \A k \in 0 .. n : f[k] \in G[k]
  <2> HIDE DEF F, G, zero
  <2> QED BY <1>2, <1>6, Iterates
<1>8. f = [k \in 0 .. n |-> f[k]] /\ f[0] = zero /\ \A k \in 1 .. n : f[k] = F[k][f[k - 1]]
  <2> HIDE DEF F, G, zero
  <2> QED BY <1>7, Zenon DEF Iterated
<1>9. \A k \in 0 .. n : f[k] \in D
  BY <1>7
<1>10. ASSUME NEW k \in 0 .. n PROVE f[k] = Next(k, f)
  <2> HIDE DEF zero
  <2>1. CASE k = 0
    BY <1>8, <2>1, Zenon
  <2>2. CASE k # 0
    <3>1. k \in 1 .. n /\ k - 1 \in 0 .. n
      BY <1>2, <2>2
    <3>2. f[k] = F[k][f[k - 1]] /\ f[k - 1] \in D
      <4> HIDE DEF F, D
      <4> QED BY <1>8, <1>9, <3>1, Zenon
    <3>3. F[k][f[k - 1]] = LcsRowStep(f[k - 1], a[k], b)
      BY <3>1, <3>2, Zenon
    <3> QED BY <2>2, <3>2, <3>3, Zenon
  <2> QED BY <2>1, <2>2
<1>11. f = [k \in 0 .. n |-> Next(k, f)]
  <2> HIDE DEF Next
  <2> QED BY <1>8, <1>10
<1>12. row = [k \in 0 .. n |-> Next(k, row)]
  <2>1. f = [i \in 0 .. n |-> IF i = 0 THEN [j \in 0 .. w |-> 0] ELSE LcsRowStep(f[i - 1], a[i], b)]
    BY <1>11, Zenon
  <2>2. row = [i \in 0 .. n |-> IF i = 0 THEN [j \in 0 .. w |-> 0] ELSE LcsRowStep(row[i - 1], a[i], b)]
    BY <2>1, Zenon
  <2> HIDE DEF row
  <2> QED BY <2>2, Zenon
<1> HIDE DEF row
<1>13. \A k \in 0 .. n : row[k] = Next(k, row)
  <2> HIDE DEF Next
  <2> QED BY <1>12, Zenon
<1>14. row[0] = zero /\ \A k \in 1 .. n : row[k] = LcsRowStep(row[k - 1], a[k], b)
  <2> HIDE DEF zero
  <2>1. 0 \in 0 .. n /\ \A k \in 1 .. n : k \in 0 .. n /\ k # 0
    BY <1>2
  <2> QED BY <1>13, <2>1, Zenon
<1> HIDE DEF zero
<1> DEFINE Exact(i) == row[i] \in D /\ \A j \in 0 .. w : LongestOf(row[i][j], a, b, i, j, E)
           T == {i \in 0 .. n : Exact(i)}
<1>15. 0 \in T
  <2>1. 0 \in 0 .. n /\ 0 \in 0 .. Len(a)
    BY <1>2
  <2>2. \A j \in 0 .. w : LongestOf(0, a, b, 0, j, E)
    BY <2>1, LongestFirst DEF w
  <2>3. Exact(0)
    BY ONLY <1>5, <1>14, <2>2
  <2> HIDE DEF Exact
  <2> QED BY <2>1, <2>3
<1>16. ASSUME NEW i \in 1 .. n, i - 1 \in T PROVE i \in T
  <2> DEFINE prev == row[i - 1]
             cur == row[i]
             S == {j \in 0 .. w : LongestOf(cur[j], a, b, i, j, E)}
  <2>1. Exact(i - 1) /\ i \in 0 .. n
    <3> HIDE DEF Exact
    <3> QED BY <1>2, <1>16
  <2>2. prev \in D /\ \A j \in 0 .. w : LongestOf(prev[j], a, b, i - 1, j, E)
    BY ONLY <2>1
  <2>3. RowFollows(cur, prev, a[i], b)
    BY ONLY <1>3, <1>14, <2>2, i \in 1 .. n
  <2> HIDE DEF prev, cur
  <2>4. /\ cur \in D /\ cur[0] = 0
        /\ \A j \in 1 .. w : cur[j] = IF b[j] = a[i] THEN prev[j - 1] + 1
                                      ELSE IF cur[j - 1] >= prev[j] THEN cur[j - 1] ELSE prev[j]
    BY <2>3 DEF RowFollows, D, w
  <2>5. 0 \in S
    <3>1. 0 \in 0 .. w /\ i \in 0 .. Len(a) /\ 0 \in 0 .. Len(b)
      BY <1>2, <2>1 DEF n, w
    <3>2. LongestOf(0, a, b, i, 0, E)
      BY <3>1, LongestFirst
    <3> QED BY <2>4, <3>1, <3>2
  <2>6. ASSUME NEW j \in 1 .. w, j - 1 \in S PROVE j \in S
    <3>1. j \in 0 .. w /\ j - 1 \in 0 .. w /\ i \in 1 .. Len(a) /\ j \in 1 .. Len(b)
      BY <1>2 DEF n, w
    <3>2. prev[j - 1] \in Nat /\ prev[j] \in Nat /\ cur[j - 1] \in Nat
      BY <2>2, <2>4, <3>1 DEF D
    <3>3. LongestOf(cur[j - 1], a, b, i, j - 1, E)
      BY <2>6
    <3>4. LongestOf(prev[j - 1], a, b, i - 1, j - 1, E) /\ LongestOf(prev[j], a, b, i - 1, j, E)
      BY ONLY <2>2, <3>1
    <3>5. CASE b[j] = a[i]
      <4>1. LongestOf(prev[j - 1] + 1, a, b, i, j, E)
        BY ONLY a \in Seq(E), b \in Seq(E), <3>1, <3>2, <3>4, <3>5, LongestSteps
      <4>2. cur[j] = prev[j - 1] + 1
        BY ONLY <2>4, <3>5, j \in 1 .. w
      <4> QED BY <3>1, <4>1, <4>2
    <3>6. CASE b[j] # a[i]
      <4>1. LongestOf(IF cur[j - 1] >= prev[j] THEN cur[j - 1] ELSE prev[j], a, b, i, j, E)
        BY ONLY a \in Seq(E), b \in Seq(E), <3>1, <3>2, <3>3, <3>4, <3>6, LongestSteps
      <4>2. cur[j] = IF cur[j - 1] >= prev[j] THEN cur[j - 1] ELSE prev[j]
        BY ONLY <2>4, <3>6, j \in 1 .. w
      <4> QED BY ONLY <3>1, <4>1, <4>2, Zenon
    <3> QED BY <3>5, <3>6
  <2>7. \A j \in 0 .. w : j \in S
    <3> HIDE DEF S
    <3> QED BY <1>2, <2>5, <2>6, Counted
  <2>8. Exact(i)
    BY ONLY <2>4, <2>7 DEF cur
  <2> HIDE DEF Exact
  <2> QED BY <2>1, <2>8
<1>17. \A i \in 0 .. n : i \in T
  <2> HIDE DEF T
  <2> QED BY <1>2, <1>15, <1>16, Counted
<1>18. Exact(n)
  <2>1. n \in 0 .. n
    BY <1>2
  <2> HIDE DEF Exact
  <2> QED BY <1>17, <2>1
<1>19. SubSeq(a, 1, n) = a
  BY SubSeqFull DEF n
<1> QED BY ONLY <1>1, <1>18, <1>19 DEF LongestOf, D, w

LEMMA ReversedPart ==
    ASSUME NEW E, NEW b \in Seq(E), NEW j \in 0 .. Len(b)
    PROVE  Reverse(SubSeq(b, j + 1, Len(b))) = SubSeq(Reverse(b), 1, Len(b) - j)
<1> DEFINE n == Len(b)
           p == SubSeq(b, j + 1, Len(b))
           rb == Reverse(b)
           q == Reverse(p)
           r == SubSeq(rb, 1, Len(b) - j)
<1>1. n \in Nat /\ j \in 0 .. n /\ n - j \in 0 .. n
  OBVIOUS
<1>2. p \in Seq(E) /\ Len(p) = n - j /\ \A i \in 1 .. n - j : p[i] = b[j + i]
  BY PartsJoin
<1>3. rb \in Seq(E) /\ Len(rb) = n /\ \A i \in 1 .. n : rb[i] = b[(n - i) + 1]
  BY ReverseTypes
<1> HIDE DEF p, n, rb
<1>4. q \in Seq(E) /\ Len(q) = n - j /\ \A i \in 1 .. n - j : q[i] = p[((n - j) - i) + 1]
  BY <1>2, ReverseTypes, SMTT(30)
<1>5. r \in Seq(E) /\ Len(r) = n - j /\ \A i \in 1 .. n - j : r[i] = rb[i]
  BY <1>1, <1>3, PartsJoin DEF n
<1> HIDE DEF q, r
<1>6. \A i \in 1 .. Len(q) : q[i] = r[i]
  <2> TAKE i \in 1 .. Len(q)
  <2> DEFINE x == ((n - j) - i) + 1
  <2>1. i \in 1 .. n - j /\ i \in 1 .. n /\ x \in 1 .. n - j /\ j + x = (n - i) + 1
    BY <1>1, <1>4
  <2>2. q[i] = p[x] /\ r[i] = rb[i]
    BY ONLY <1>4, <1>5, <2>1
  <2> HIDE DEF x
  <2>3. p[x] = b[j + x] /\ rb[i] = b[(n - i) + 1]
    BY ONLY <1>2, <1>3, <2>1
  <2> QED BY ONLY <2>1, <2>2, <2>3
<1>7. q = r
  BY <1>4, <1>5, <1>6, SeqEqual
<1> QED BY <1>7 DEF q, r, p, rb

LEMMA LcsSuffixExact ==
    ASSUME NEW E, NEW a \in Seq(E), NEW b \in Seq(E)
    PROVE  /\ LcsRowSuffix(a, b) \in [0 .. Len(b) -> Nat]
           /\ \A j \in 0 .. Len(b) : Longest(LcsRowSuffix(a, b)[j], a, SubSeq(b, j + 1, Len(b)), E)
<1> DEFINE n == Len(b)
           ra == Reverse(a)
           rb == Reverse(b)
           row == LcsRowPrefix(ra, rb)
<1>1. ra \in Seq(E) /\ rb \in Seq(E) /\ Len(rb) = n /\ n \in Nat
  BY ReverseTypes
<1> HIDE DEF ra, rb
<1>2. row \in [0 .. n -> Nat] /\ \A j \in 0 .. n : Longest(row[j], ra, SubSeq(rb, 1, j), E)
  BY <1>1, LcsRowsExact
<1>3. LcsRowSuffix(a, b) = [j \in 0 .. n |-> row[n - j]]
  BY DEF LcsRowSuffix, ra, rb
<1> HIDE DEF row
<1>4. ASSUME NEW j \in 0 .. n PROVE LcsRowSuffix(a, b)[j] \in Nat /\ Longest(LcsRowSuffix(a, b)[j], a, SubSeq(b, j + 1, n), E)
  <2> DEFINE k == n - j
             s == SubSeq(b, j + 1, Len(b))
  <2>1. k \in 0 .. n /\ LcsRowSuffix(a, b)[j] = row[k]
    BY <1>1, <1>3
  <2>2. Reverse(s) = SubSeq(rb, 1, k) /\ s \in Seq(E)
    BY ReversedPart, PartsJoin DEF rb
  <2> HIDE DEF k, s
  <2>3. Longest(row[k], ra, SubSeq(rb, 1, k), E) /\ row[k] \in Nat
    BY ONLY <1>2, <2>1
  <2>4. Longest(row[k], Reverse(a), Reverse(s), E)
    BY ONLY <2>2, <2>3, Zenon DEF ra
  <2>5. Longest(row[k], a, s, E)
    BY ONLY a \in Seq(E), <2>2, <2>4, LongestReverse
  <2> QED BY ONLY <2>1, <2>3, <2>5, Zenon DEF s, n
<1>5. LcsRowSuffix(a, b) \in [0 .. n -> Nat]
  BY <1>3, <1>4
<1> QED BY <1>4, <1>5

LEMMA SplitBest ==
    ASSUME NEW w \in Nat, NEW l \in [0 .. w -> Nat], NEW r \in [0 .. w -> Nat]
    PROVE  Split(l, r) \in 0 .. w /\ \A k \in 0 .. w : l[k] + r[k] <= l[Split(l, r)] + r[Split(l, r)]
<1> DEFINE sum == [k \in 0 .. w |-> l[k] + r[k]]
           Best(j, m) == \A k \in 0 .. m : sum[k] <= sum[j] /\ (k < j => sum[k] < sum[j])
           T == {m \in 0 .. w : \E j \in 0 .. m : Best(j, m)}
<1>1. \A k \in 0 .. w : sum[k] = l[k] + r[k] /\ sum[k] \in Nat
  OBVIOUS
<1> HIDE DEF sum
<1>2. 0 \in T
  <2>1. Best(0, 0)
    BY <1>1
  <2> QED BY <2>1
<1>3. ASSUME NEW m \in 1 .. w, m - 1 \in T PROVE m \in T
  <2>1. PICK j \in 0 .. m - 1 : Best(j, m - 1)
    BY <1>3
  <2>2. j \in 0 .. m /\ m \in 0 .. w /\ j \in 0 .. w /\ m \in 0 .. m /\ j < m
    OBVIOUS
  <2>3. sum[j] \in Nat /\ sum[m] \in Nat
    BY <1>1, <2>2
  <2>4. \A k \in 0 .. m : (k \in 0 .. m - 1 \/ k = m) /\ k \in 0 .. w
    OBVIOUS
  <2>5. CASE sum[m] <= sum[j]
    <3>1. Best(j, m)
      BY <2>1, <2>2, <2>3, <2>4, <2>5
    <3> QED BY <2>2, <3>1
  <2>6. CASE sum[j] < sum[m]
    <3>1. Best(m, m)
      <4> TAKE k \in 0 .. m
      <4>1. CASE k \in 0 .. m - 1
        <5>1. sum[k] <= sum[j] /\ sum[k] \in Nat
          BY <1>1, <2>1, <2>4, <4>1
        <5> QED BY <2>3, <2>6, <5>1
      <4>2. CASE k = m
        BY <2>3, <4>2
      <4> QED BY <2>4, <4>1, <4>2
    <3> QED BY <2>2, <3>1
  <2> QED BY <2>3, <2>5, <2>6
<1>4. \A m \in 0 .. w : m \in T
  <2> HIDE DEF T
  <2> QED BY <1>2, <1>3, Counted
<1>5. PICK j \in 0 .. w : Best(j, w)
  <2>1. w \in T
    <3> HIDE DEF T
    <3> QED BY <1>4
  <2> QED BY <2>1
<1>6. DOMAIN l = 0 .. w
  OBVIOUS
<1> DEFINE P(x) == /\ \A k \in 0 .. w : l[k] + r[k] <= l[x] + r[x]
                   /\ \A k \in 0 .. w : k < x => l[k] + r[k] < l[x] + r[x]
<1>7. P(j)
  BY <1>1, <1>5
<1>8. Split(l, r) = CHOOSE x \in 0 .. w : P(x)
  BY <1>6 DEF Split
<1> HIDE DEF P
<1>9. Split(l, r) \in 0 .. w /\ P(Split(l, r))
  BY <1>7, <1>8, Zenon
<1> QED BY <1>9 DEF P

LEMMA CommonPrefixSame ==
    ASSUME NEW a, NEW b, Len(a) \in Nat, Len(b) \in Nat
    PROVE  /\ CommonPrefix(a, b) \in Nat /\ CommonPrefix(a, b) <= Len(a) /\ CommonPrefix(a, b) <= Len(b)
           /\ \A i \in 1 .. CommonPrefix(a, b) : a[i] = b[i]
<1> DEFINE most == IF Len(a) <= Len(b) THEN Len(a) ELSE Len(b)
           T == {n \in 0 .. most : n = most \/ a[n + 1] # b[n + 1]}
           P(n) == /\ \A i \in 1 .. n : a[i] = b[i]
                   /\ n = most \/ a[n + 1] # b[n + 1]
<1>1. most \in Nat /\ most <= Len(a) /\ most <= Len(b)
  OBVIOUS
<1>2. CommonPrefix(a, b) = CHOOSE n \in 0 .. most : P(n)
  BY DEF CommonPrefix
<1> HIDE DEF most
<1>3. PICK n \in T : \A y \in T : n <= y
  <2>1. T \in SUBSET Nat /\ T # {}
    BY <1>1
  <2> HIDE DEF T
  <2> QED BY <2>1, LeastNumber
<1>4. ASSUME NEW i \in 1 .. n PROVE a[i] = b[i]
  <2>1. i - 1 \in 0 .. most /\ ~(n <= i - 1) /\ i - 1 + 1 = i /\ i - 1 # most
    BY <1>1, <1>3
  <2>2. i - 1 \notin T
    <3> HIDE DEF T
    <3> QED BY <1>3, <2>1
  <2> QED BY <2>1, <2>2
<1>5. n \in 0 .. most /\ P(n)
  BY <1>3, <1>4
<1> HIDE DEF P
<1>6. CommonPrefix(a, b) \in 0 .. most /\ P(CommonPrefix(a, b))
  BY <1>2, <1>5, Zenon
<1> QED BY <1>1, <1>6 DEF P

(* A text as its first p elements, its last s and what is between them. *)
ThreeParts(h, m, t, u, p, s, E) ==
    /\ h \in Seq(E) /\ m \in Seq(E) /\ t \in Seq(E) /\ u = (h \o m) \o t
    /\ m = SubSeq(u, p + 1, Len(u) - s)
    /\ Len(h) = p /\ Len(t) = s /\ Len(m) = (Len(u) - p) - s
    /\ \A i \in 1 .. p : h[i] = u[i]
    /\ \A i \in 1 .. s : t[i] = u[(Len(u) - s) + i]

LEMMA PartsThree ==
    ASSUME NEW E, NEW u \in Seq(E), NEW p \in Nat, NEW s \in Nat, p + s <= Len(u)
    PROVE  \E h, m, t : ThreeParts(h, m, t, u, p, s, E)
<1> DEFINE n == Len(u)
           e == n - s
           v == SubSeq(u, 1, e)
           t == SubSeq(u, e + 1, Len(u))
           h == SubSeq(v, 1, p)
           m == SubSeq(v, p + 1, Len(v))
           w == SubSeq(u, p + 1, e)
<1>1. n \in Nat /\ e \in 0 .. n /\ p \in 0 .. e /\ n - e = s /\ e - p = (n - p) - s /\ e \in Nat
  OBVIOUS
<1> HIDE DEF e
<1>2. /\ v \o t = u /\ v \in Seq(E) /\ t \in Seq(E) /\ Len(v) = e /\ Len(t) = n - e
      /\ \A i \in 1 .. e : v[i] = u[i]
      /\ \A i \in 1 .. n - e : t[i] = u[e + i]
  BY <1>1, PartsJoin, ZenonT(40)
<1> HIDE DEF v, t
<1>3. /\ h \o m = v /\ h \in Seq(E) /\ m \in Seq(E) /\ Len(h) = p /\ Len(m) = e - p
      /\ \A i \in 1 .. p : h[i] = v[i]
      /\ \A i \in 1 .. e - p : m[i] = v[p + i]
  <2>1. v \in Seq(E) /\ p \in 0 .. Len(v) /\ Len(v) = e
    BY ONLY <1>1, <1>2
  <2>2. /\ h \o m = v /\ h \in Seq(E) /\ m \in Seq(E) /\ Len(h) = p /\ Len(m) = Len(v) - p
        /\ \A i \in 1 .. p : h[i] = v[i]
        /\ \A i \in 1 .. Len(v) - p : m[i] = v[p + i]
    BY ONLY <2>1, PartsJoin
  <2> HIDE DEF h, m
  <2> QED BY ONLY <2>1, <2>2
<1> HIDE DEF h, m, n
<1>4. \A i \in 1 .. p : h[i] = u[i]
  BY ONLY <1>1, <1>2, <1>3
<1>5. m = w
  <2> DEFINE c == p + 1
  <2>1. c \in Int /\ e \in Int /\ e - c + 1 = e - p /\ (c <= e \/ e - p = 0)
    BY ONLY <1>1, p \in Nat
  <2>2. \A i \in c .. e : u[i] \in E
    <3>1. \A i \in c .. e : i \in 1 .. n
      BY ONLY <1>1, p \in Nat
    <3>2. \A i \in 1 .. n : u[i] \in E
      BY DEF n
    <3> QED BY ONLY <3>1, <3>2
  <2> DEFINE x == SubSeq(u, c, e)
  <2>3. x \in Seq(E) /\ Len(x) = (IF c <= e THEN e - c + 1 ELSE 0) /\ \A i \in 1 .. e - c + 1 : x[i] = u[c + i - 1]
    <3> HIDE DEF c
    <3> QED BY ONLY <2>1, <2>2, SubSeqProperties
  <2>4. ~(c <= e) => e - p = 0
    BY ONLY <2>1
  <2>5. x = w
    OBVIOUS
  <2> HIDE DEF x, w
  <2>6. Len(x) = e - p
    BY ONLY <2>1, <2>3, <2>4
  <2>7. \A i \in 1 .. e - p : m[i] = x[i]
    <3> TAKE i \in 1 .. e - p
    <3>1. c + i - 1 = p + i /\ p + i \in 1 .. e /\ i \in 1 .. e - c + 1
      BY ONLY <1>1, <2>1, p \in Nat
    <3>2. m[i] = v[p + i] /\ v[p + i] = u[p + i]
      BY ONLY <1>2, <1>3, <3>1
    <3>3. x[i] = u[c + i - 1]
      BY ONLY <2>3, <3>1
    <3> QED BY ONLY <3>1, <3>2, <3>3
  <2>8. m = x
    BY ONLY <1>3, <2>3, <2>6, <2>7, SeqEqual
  <2> QED BY ONLY <2>5, <2>8
<1> HIDE DEF w
<1>6. u = (h \o m) \o t
  BY ONLY <1>2, <1>3
<1>7. Len(h) = p /\ Len(t) = s /\ Len(m) = (n - p) - s /\ \A i \in 1 .. s : t[i] = u[e + i]
  BY ONLY <1>1, <1>2, <1>3
<1>8. /\ h \in Seq(E) /\ m \in Seq(E) /\ t \in Seq(E)
      /\ m = SubSeq(u, p + 1, n - s)
      /\ \A i \in 1 .. s : t[i] = u[(n - s) + i]
  BY ONLY <1>2, <1>3, <1>5, <1>7, Zenon DEF w, e
<1>9. ThreeParts(h, m, t, u, p, s, E)
  BY ONLY <1>4, <1>6, <1>7, <1>8, Zenon DEF ThreeParts, n
<1> QED BY <1>9, Zenon

(* What two texts share at their ends: a beginning, and an end of the rest. *)
Ends(a, b, p, s) ==
    /\ p = CommonPrefix(a, b)
    /\ s = CommonSuffix(SubSeq(a, p + 1, Len(a)), SubSeq(b, p + 1, Len(b)))

SameEnds(a, b, p, s) ==
    /\ p \in Nat /\ s \in Nat /\ p + s <= Len(a) /\ p + s <= Len(b)
    /\ \A i \in 1 .. p : a[i] = b[i]
    /\ \A i \in 1 .. s : a[(Len(a) - s) + i] = b[(Len(b) - s) + i]

LEMMA EndsShared ==
    ASSUME NEW E, NEW a \in Seq(E), NEW b \in Seq(E), NEW p, NEW s, Ends(a, b, p, s)
    PROVE  SameEnds(a, b, p, s)
<1> DEFINE na == Len(a)
           nb == Len(b)
           a1 == SubSeq(a, p + 1, Len(a))
           b1 == SubSeq(b, p + 1, Len(b))
           ra == Reverse(a1)
           rb == Reverse(b1)
<1>1. na \in Nat /\ nb \in Nat
  OBVIOUS
<1>2. p \in Nat /\ p <= na /\ p <= nb /\ \A i \in 1 .. p : a[i] = b[i]
  BY <1>1, CommonPrefixSame DEF Ends
<1>3. p \in 0 .. na /\ p \in 0 .. nb /\ na - p \in Nat /\ nb - p \in Nat
  BY ONLY <1>1, <1>2
<1>4. a1 \in Seq(E) /\ Len(a1) = na - p /\ \A i \in 1 .. na - p : a1[i] = a[p + i]
  BY <1>3, PartsJoin
<1>5. b1 \in Seq(E) /\ Len(b1) = nb - p /\ \A i \in 1 .. nb - p : b1[i] = b[p + i]
  BY <1>3, PartsJoin
<1>6. s = CommonPrefix(ra, rb)
  BY DEF CommonSuffix, Ends
<1> HIDE DEF a1, b1
<1>7. Len(ra) = na - p /\ \A i \in 1 .. na - p : ra[i] = a1[((na - p) - i) + 1]
  BY <1>4, ReverseTypes, SMTT(30)
<1>8. Len(rb) = nb - p /\ \A i \in 1 .. nb - p : rb[i] = b1[((nb - p) - i) + 1]
  BY <1>5, ReverseTypes, SMTT(30)
<1> HIDE DEF ra, rb
<1>9. s \in Nat /\ s <= na - p /\ s <= nb - p /\ \A i \in 1 .. s : ra[i] = rb[i]
  BY ONLY <1>3, <1>6, <1>7, <1>8, CommonPrefixSame
<1> HIDE DEF na, nb
<1>10. p + s <= na /\ p + s <= nb
  BY ONLY <1>1, <1>2, <1>9
<1>11. ASSUME NEW i \in 1 .. s PROVE a[(na - s) + i] = b[(nb - s) + i]
  <2> DEFINE x == (s - i) + 1
             y == ((na - p) - x) + 1
             z == ((nb - p) - x) + 1
  <2>1. /\ x \in 1 .. s /\ x \in 1 .. na - p /\ x \in 1 .. nb - p
        /\ y \in 1 .. na - p /\ z \in 1 .. nb - p /\ p + y = (na - s) + i /\ p + z = (nb - s) + i
    BY ONLY <1>1, <1>2, <1>3, <1>9, i \in 1 .. s
  <2>2. ra[x] = a1[y] /\ rb[x] = b1[z]
    BY ONLY <1>7, <1>8, <2>1
  <2> HIDE DEF x, y, z
  <2>3. ra[x] = rb[x]
    BY ONLY <1>9, <2>1
  <2>4. a1[y] = a[p + y] /\ b1[z] = b[p + z]
    BY ONLY <1>4, <1>5, <2>1
  <2> QED BY ONLY <2>1, <2>2, <2>3, <2>4
<1> QED BY ONLY <1>2, <1>9, <1>10, <1>11 DEF na, nb, SameEnds

(* TextsOf without the ends that they share. *)
LEMMA EndsApart ==
    ASSUME NEW E, NEW a \in Seq(E), NEW b \in Seq(E), NEW p, NEW s, Ends(a, b, p, s)
    PROVE  /\ p \in Nat /\ s \in Nat
           /\ \E h, m, t, k : ThreeParts(h, m, t, a, p, s, E) /\ ThreeParts(h, k, t, b, p, s, E)
<1>1. /\ p \in Nat /\ s \in Nat /\ p + s <= Len(a) /\ p + s <= Len(b)
      /\ \A i \in 1 .. p : a[i] = b[i]
      /\ \A i \in 1 .. s : a[(Len(a) - s) + i] = b[(Len(b) - s) + i]
  <2>1. SameEnds(a, b, p, s)
    BY EndsShared
  <2> QED BY <2>1 DEF SameEnds
<1>2. PICK h, m, t : ThreeParts(h, m, t, a, p, s, E)
  BY <1>1, PartsThree
<1>3. PICK h2, k, t2 : ThreeParts(h2, k, t2, b, p, s, E)
  BY <1>1, PartsThree
<1>4. h \in Seq(E) /\ Len(h) = p /\ t \in Seq(E) /\ Len(t) = s
  BY <1>2 DEF ThreeParts
<1>5. h2 \in Seq(E) /\ Len(h2) = p /\ t2 \in Seq(E) /\ Len(t2) = s
  BY <1>3 DEF ThreeParts
<1>6. \A i \in 1 .. p : h[i] = a[i] /\ h2[i] = b[i]
  BY ONLY <1>2, <1>3, Zenon DEF ThreeParts
<1>7. \A i \in 1 .. s : t[i] = a[(Len(a) - s) + i] /\ t2[i] = b[(Len(b) - s) + i]
  BY ONLY <1>2, <1>3, Zenon DEF ThreeParts
<1>8. \A i \in 1 .. p : h[i] = h2[i]
  BY ONLY <1>1, <1>6, Zenon
<1>9. \A i \in 1 .. s : t[i] = t2[i]
  BY ONLY <1>1, <1>7, Zenon
<1>10. h = h2 /\ t = t2
  <2>1. h = h2
    BY ONLY <1>4, <1>5, <1>8, SeqEqual
  <2>2. t = t2
    BY ONLY <1>4, <1>5, <1>9, SeqEqual
  <2> QED BY <2>1, <2>2
<1> QED BY ONLY <1>1, <1>2, <1>3, <1>10, Zenon

-----------------------------------------------------------------------------
(* Scripts that keep as much as can be kept. *)

RunOf(op, n) == [op |-> op, n |-> n]

(* Tuples put together. *)
LEMMA TupleOfTwo ==
    ASSUME NEW S, NEW x \in S, NEW y \in S
    PROVE  <<x>> \o <<y>> = <<x, y>>
<1> DEFINE a == <<x>>
           b == <<y>>
           c == <<x, y>>
           d == a \o b
<1>1. a \in Seq(S) /\ b \in Seq(S) /\ c \in Seq(S) /\ Len(a) = 1 /\ Len(b) = 1 /\ Len(c) = 2 /\ a[1] = x /\ b[1] = y /\ c[1] = x /\ c[2] = y
  OBVIOUS
<1> HIDE DEF a, b, c
<1>2. /\ d \in Seq(S) /\ Len(d) = Len(a) + Len(b)
      /\ \A i \in 1 .. Len(a) + Len(b) : d[i] = IF i <= Len(a) THEN a[i] ELSE b[i - Len(a)]
  BY ONLY <1>1, ConcatProperties
<1> HIDE DEF d
<1>3. d[1] = x /\ d[2] = y
  <2>1. d[1] = a[1]
    BY ONLY <1>1, <1>2
  <2>2. d[2] = b[2 - 1]
    BY ONLY <1>1, <1>2
  <2> QED BY ONLY <1>1, <2>1, <2>2
<1>4. \A i \in 1..Len(d) : d[i] = c[i]
  BY ONLY <1>1, <1>2, <1>3
<1>5. d = c
  BY ONLY <1>1, <1>2, <1>4, SeqEqual
<1> QED BY <1>5 DEF a, b, c, d

LEMMA TupleOfThree ==
    ASSUME NEW S, NEW x \in S, NEW y \in S, NEW z \in S
    PROVE  <<x, y>> \o <<z>> = <<x, y, z>>
<1> DEFINE a == <<x, y>>
           b == <<z>>
           c == <<x, y, z>>
           d == a \o b
<1>1. /\ a \in Seq(S) /\ b \in Seq(S) /\ c \in Seq(S) /\ Len(a) = 2 /\ Len(b) = 1 /\ Len(c) = 3
      /\ a[1] = x /\ a[2] = y /\ b[1] = z /\ c[1] = x /\ c[2] = y /\ c[3] = z
  OBVIOUS
<1> HIDE DEF a, b, c
<1>2. /\ d \in Seq(S) /\ Len(d) = Len(a) + Len(b)
      /\ \A i \in 1 .. Len(a) + Len(b) : d[i] = IF i <= Len(a) THEN a[i] ELSE b[i - Len(a)]
  BY ONLY <1>1, ConcatProperties
<1> HIDE DEF d
<1>3. d[1] = x /\ d[2] = y /\ d[3] = z
  <2>1. d[1] = a[1] /\ d[2] = a[2]
    BY ONLY <1>1, <1>2
  <2>2. d[3] = b[3 - 2]
    BY ONLY <1>1, <1>2
  <2> QED BY ONLY <1>1, <2>1, <2>2
<1>4. \A i \in 1..Len(d) : d[i] = c[i]
  BY ONLY <1>1, <1>2, <1>3
<1>5. d = c
  BY ONLY <1>1, <1>2, <1>4, SeqEqual
<1> QED BY <1>5 DEF a, b, c, d

(* Two scripts, one after the other. *)
Joined(o1, o2, a1, a2, b1, b2) ==
    /\ Aligned(o1 \o o2, a1 \o a2, b1 \o b2)
    /\ \A op : Total(o1 \o o2, op) = Total(o1, op) + Total(o2, op)

LEMMA ScriptsJoin ==
    ASSUME NEW E, NEW a1 \in Seq(E), NEW b1 \in Seq(E), NEW a2 \in Seq(E), NEW b2 \in Seq(E), NEW o1, NEW o2,
           Aligned(o1, a1, b1), Aligned(o2, a2, b2)
    PROVE  Joined(o1, o2, a1, a2, b1, b2)
<1>1. Aligned(o1 \o o2, a1 \o a2, b1 \o b2)
  BY AlignedJoin
<1>2. \A op : Total(o1 \o o2, op) = Total(o1, op) + Total(o2, op)
  BY AlignedJoin
<1> QED BY <1>1, <1>2 DEF Joined

LEMMA OneRun ==
    ASSUME NEW r \in Run, NEW a, NEW b
    PROVE  /\ <<r>> \in Seq(Run)
           /\ Agree(<<r>>, a, b) <=> Fits(r, 0, 0, a, b)
           /\ \A op : Total(<<r>>, op) = Width(r, op)
<1> DEFINE none == <<>>
           one == <<r>>
<1>1. none \in Seq(Run) /\ Len(none) = 0 /\ none \o one = one
  OBVIOUS
<1>2. ASSUME NEW op PROVE Total(none, op) = 0
  <2>1. Consumed(none, op, 0) = 0
    <3>1. Len(none) \in Nat /\ \A k \in 1 .. Len(none) : none[k].n \in Nat
      BY <1>1
    <3> HIDE DEF none
    <3> QED BY <3>1, CursorSteps
  <2> QED BY <1>1, <2>1 DEF Total
<1>3. Agree(none, a, b)
  BY <1>1 DEF Agree
<1>4. /\ none \o one \in Seq(Run)
      /\ Agree(none \o one, a, b) <=> Agree(none, a, b) /\ Fits(r, Total(none, "delete"), Total(none, "insert"), a, b)
      /\ \A op : Total(none \o one, op) = Total(none, op) + Width(r, op)
  <2> HIDE DEF none
  <2> QED BY <1>1, AgreeOne
<1>5. \A op : Width(r, op) \in Nat
  BY DEF Width, Run
<1> HIDE DEF none, one
<1>6. one \in Seq(Run) /\ (Agree(one, a, b) <=> Fits(r, 0, 0, a, b))
  BY ONLY <1>1, <1>2, <1>3, <1>4
<1>7. \A op : Total(one, op) = Width(r, op)
  BY ONLY <1>1, <1>2, <1>4, <1>5
<1> QED BY <1>6, <1>7 DEF one

LEMMA EqualRun ==
    ASSUME NEW E, NEW t \in Seq(E)
    PROVE  Aligned(<<RunOf("equal", Len(t))>>, t, t) /\ Total(<<RunOf("equal", Len(t))>>, "equal") = Len(t)
<1> DEFINE r == RunOf("equal", Len(t))
<1>1. Len(t) \in Nat /\ \A m \in 1 .. Len(t) : 0 + m = m
  OBVIOUS
<1>2. r \in Run /\ r.op = "equal" /\ r.n = Len(t)
  BY <1>1 DEF Run, RunOf
<1> HIDE DEF r
<1>3. Fits(r, 0, 0, t, t) /\ \A op : Width(r, op) = Len(t)
  BY <1>1, <1>2 DEF Fits, Width
<1> QED BY <1>2, <1>3, OneRun DEF Aligned, r

LEMMA DeleteRun ==
    ASSUME NEW E, NEW t \in Seq(E)
    PROVE  Aligned(<<RunOf("delete", Len(t))>>, t, <<>>) /\ Total(<<RunOf("delete", Len(t))>>, "equal") = 0
<1> DEFINE r == RunOf("delete", Len(t))
<1>1. Len(t) \in Nat /\ Len(<<>>) = 0
  OBVIOUS
<1>2. r \in Run /\ r.op = "delete" /\ r.n = Len(t)
  BY <1>1 DEF Run, RunOf
<1> HIDE DEF r
<1>3. Fits(r, 0, 0, t, <<>>) /\ Width(r, "delete") = Len(t) /\ Width(r, "insert") = 0 /\ Width(r, "equal") = 0
  BY <1>1, <1>2 DEF Fits, Width
<1> QED BY <1>1, <1>2, <1>3, OneRun DEF Aligned, r

LEMMA InsertRun ==
    ASSUME NEW E, NEW t \in Seq(E)
    PROVE  Aligned(<<RunOf("insert", Len(t))>>, <<>>, t) /\ Total(<<RunOf("insert", Len(t))>>, "equal") = 0
<1> DEFINE r == RunOf("insert", Len(t))
<1>1. Len(t) \in Nat /\ Len(<<>>) = 0
  OBVIOUS
<1>2. r \in Run /\ r.op = "insert" /\ r.n = Len(t)
  BY <1>1 DEF Run, RunOf
<1> HIDE DEF r
<1>3. Fits(r, 0, 0, <<>>, t) /\ Width(r, "insert") = Len(t) /\ Width(r, "delete") = 0 /\ Width(r, "equal") = 0
  BY <1>1, <1>2 DEF Fits, Width
<1> QED BY <1>1, <1>2, <1>3, OneRun DEF Aligned, r

LEMMA ReplaceRuns ==
    ASSUME NEW E, NEW a \in Seq(E), NEW b \in Seq(E)
    PROVE  LET o == <<RunOf("delete", Len(a)), RunOf("insert", Len(b))>>
           IN  Aligned(o, a, b) /\ Total(o, "equal") = 0
<1> DEFINE d == <<RunOf("delete", Len(a))>>
           i == <<RunOf("insert", Len(b))>>
           none == <<>>
<1>1. Aligned(d, a, none) /\ Total(d, "equal") = 0
  BY DeleteRun
<1>2. Aligned(i, none, b) /\ Total(i, "equal") = 0
  BY InsertRun
<1>3. d \o i = <<RunOf("delete", Len(a)), RunOf("insert", Len(b))>> /\ none \in Seq(E) /\ a \o none = a /\ none \o b = b
  <2>1. RunOf("delete", Len(a)) \in Run /\ RunOf("insert", Len(b)) \in Run
    BY DEF Run, RunOf
  <2>2. d \o i = <<RunOf("delete", Len(a)), RunOf("insert", Len(b))>>
    BY <2>1, TupleOfTwo, Zenon
  <2> QED BY <2>2
<1> HIDE DEF d, i, none
<1>4. Aligned(d \o i, a \o none, none \o b) /\ \A op : Total(d \o i, op) = Total(d, op) + Total(i, op)
  <2>1. Joined(d, i, a, none, none, b)
    BY <1>1, <1>2, <1>3, ScriptsJoin
  <2> QED BY <2>1 DEF Joined
<1>5. Aligned(d \o i, a, b) /\ Total(d \o i, "equal") = 0
  <2>1. Total(d \o i, "equal") = 0
    BY ONLY <1>1, <1>2, <1>4
  <2> QED BY ONLY <1>3, <1>4, <2>1, Zenon
<1> QED BY ONLY <1>3, <1>5, Zenon

(* hirschberg with one element on the first side. *)
LEMMA SingleSolved ==
    ASSUME NEW E, NEW a \in Seq(E), Len(a) = 1, NEW b \in Seq(E)
    PROVE  Aligned(Single(a, b), a, b) /\ Longest(Total(Single(a, b), "equal"), a, b, E)
<1> DEFINE Found(k) == b[k] = a[1] /\ \A i \in 1 .. k - 1 : b[i] # a[1]
           n == Len(b)
<1>1. n \in Nat
  OBVIOUS
<1>2. CASE \E k \in 1 .. n : b[k] = a[1]
  <2> DEFINE k == CHOOSE k \in 1 .. n : Found(k)
             T == {x \in 1 .. n : b[x] = a[1]}
  <2>1. PICK x \in T : \A y \in T : x <= y
    <3>1. T \in SUBSET Nat /\ T # {}
      BY <1>1, <1>2
    <3> HIDE DEF T
    <3> QED BY <3>1, LeastNumber
  <2>2. x \in 1 .. n /\ Found(x)
    <3>1. ASSUME NEW i \in 1 .. x - 1 PROVE b[i] # a[1]
      <4>1. i \in 1 .. n /\ ~(x <= i)
        BY <1>1, <2>1
      <4> QED BY <2>1, <4>1
    <3> QED BY <2>1, <3>1
  <2>3. k \in 1 .. n /\ b[k] = a[1]
    <3>1. k \in 1 .. n /\ Found(k)
      <4> HIDE DEF Found
      <4> QED BY <2>2, Zenon
    <3> QED BY <3>1
  <2>4. Single(a, b) = <<RunOf("insert", k - 1), RunOf("equal", 1), RunOf("insert", n - k)>>
    BY <1>2 DEF Single, RunOf
  <2> HIDE DEF k
  <2> DEFINE p == k - 1
             q == n - k
  <2>5. p \in Nat /\ q \in Nat /\ p + q <= n /\ (n - p) - q = 1 /\ p + 1 = k
    BY ONLY <1>1, <2>3
  <2> HIDE DEF p, q
  <2>6. PICK h, m, t : ThreeParts(h, m, t, b, p, q, E)
    BY <2>5, PartsThree DEF n
  <2>7. /\ h \in Seq(E) /\ m \in Seq(E) /\ t \in Seq(E) /\ b = (h \o m) \o t
        /\ Len(h) = p /\ Len(m) = 1 /\ Len(t) = q
    BY <2>5, <2>6 DEF ThreeParts, n
  <2>8. m = a
    <3>1. b[p + 1] = m[1]
      BY ONLY <2>5, <2>7
    <3>2. m[1] = a[1]
      BY ONLY <2>3, <2>5, <3>1
    <3>3. Len(a) = Len(m) /\ \A i \in 1 .. Len(m) : m[i] = a[i]
      BY ONLY <2>7, <3>2, Len(a) = 1
    <3> QED BY ONLY <2>7, <3>3, a \in Seq(E), SeqEqual
  <2> DEFINE x1 == <<RunOf("insert", Len(h))>>
             x2 == <<RunOf("equal", Len(m))>>
             x3 == <<RunOf("insert", Len(t))>>
             none == <<>>
  <2>9. Aligned(x1, none, h) /\ Total(x1, "equal") = 0
    BY <2>7, InsertRun
  <2>10. Aligned(x2, m, m) /\ Total(x2, "equal") = 1
    BY <2>7, EqualRun
  <2>11. Aligned(x3, none, t) /\ Total(x3, "equal") = 0
    BY <2>7, InsertRun
  <2>12. /\ (x1 \o x2) \o x3 = Single(a, b)
         /\ none \in Seq(E) /\ none \o m = m /\ m \o none = m
    <3>1. x1 = <<RunOf("insert", p)>> /\ x2 = <<RunOf("equal", 1)>> /\ x3 = <<RunOf("insert", q)>>
      BY ONLY <2>7
    <3>2. RunOf("insert", p) \in Run /\ RunOf("equal", 1) \in Run /\ RunOf("insert", q) \in Run
      BY ONLY <2>5 DEF Run, RunOf
    <3> DEFINE r1 == RunOf("insert", p)
               r2 == RunOf("equal", 1)
               r3 == RunOf("insert", q)
    <3>3. Single(a, b) = <<r1, r2, r3>>
      BY ONLY <2>4, Zenon DEF p, q
    <3> HIDE DEF r1, r2, r3
    <3>4. <<r1>> \o <<r2>> = <<r1, r2>> /\ <<r1, r2>> \o <<r3>> = <<r1, r2, r3>>
      BY ONLY <3>2, TupleOfTwo, TupleOfThree, Zenon DEF r1, r2, r3
    <3>5. (x1 \o x2) \o x3 = Single(a, b)
      BY ONLY <3>1, <3>3, <3>4, Zenon DEF r1, r2, r3
    <3>6. none \in Seq(E) /\ none \o m = m /\ m \o none = m
      BY ONLY <2>7
    <3> QED BY <3>5, <3>6
  <2> HIDE DEF x1, x2, x3, none
  <2>13. Aligned(x1 \o x2, none \o m, h \o m) /\ \A op : Total(x1 \o x2, op) = Total(x1, op) + Total(x2, op)
    <3>1. Joined(x1, x2, none, m, h, m)
      BY ONLY <2>7, <2>9, <2>10, <2>12, ScriptsJoin
    <3> QED BY ONLY <3>1, Zenon DEF Joined
  <2>14. Aligned(x1 \o x2, m, h \o m) /\ h \o m \in Seq(E)
    BY ONLY <2>7, <2>12, <2>13
  <2> DEFINE y == x1 \o x2
             hm == h \o m
  <2>15. Aligned(y \o x3, m \o none, hm \o t) /\ \A op : Total(y \o x3, op) = Total(y, op) + Total(x3, op)
    <3>1. Aligned(y, m, hm) /\ hm \in Seq(E)
      BY <2>14
    <3> HIDE DEF y, hm
    <3>2. Joined(y, x3, m, none, hm, t)
      BY ONLY a \in Seq(E), <2>7, <2>11, <2>12, <3>1, ScriptsJoin
    <3> QED BY ONLY <3>2, Zenon DEF Joined
  <2>16. Aligned(Single(a, b), a, b)
    BY ONLY <2>7, <2>8, <2>12, <2>15
  <2>17. Total(Single(a, b), "equal") = 1
    <3>1. Total(Single(a, b), "equal") = Total(y, "equal") + Total(x3, "equal")
      BY ONLY <2>12, <2>15
    <3>2. Total(y, "equal") = Total(x1, "equal") + Total(x2, "equal")
      BY ONLY <2>13
    <3> QED BY ONLY <2>9, <2>10, <2>11, <3>1, <3>2
  <2>18. Longest(1, a, b, E)
    BY <1>2, LongestSingle
  <2> QED BY ONLY <2>16, <2>17, <2>18
<1>3. CASE ~(\E k \in 1 .. n : b[k] = a[1])
  <2>1. Single(a, b) = <<RunOf("delete", Len(a)), RunOf("insert", Len(b))>>
    BY <1>3 DEF Single, RunOf
  <2>2. Aligned(Single(a, b), a, b) /\ Total(Single(a, b), "equal") = 0
    BY <2>1, ReplaceRuns
  <2>3. Longest(0, a, b, E)
    BY <1>3, LongestSingle
  <2> QED BY <2>2, <2>3
<1> QED BY <1>2, <1>3

(* Two texts whose table is small enough to be filled. *)
Small(a, b) == a = <<>> \/ b = <<>> \/ Len(a) <= DiffWorkLimit \div Len(b)

(* A script from a to b that keeps as much as can be kept. *)
Solved(o, a, b, E) == Aligned(o, a, b) /\ (Small(a, b) => Longest(Total(o, "equal"), a, b, E))

LEMMA DivisionFalls ==
    ASSUME NEW n \in Nat, NEW d \in Nat, NEW e \in Nat, 0 < e, e <= d
    PROVE  n \div d <= n \div e
<1> DEFINE q == n \div d
           r == n \div e
<1>1. q \in Nat /\ r \in Nat
  OBVIOUS
<1>2. q * d <= n
  OBVIOUS
<1>3. n < (r + 1) * e
  OBVIOUS
<1> HIDE DEF q, r
<1>4. q * e <= q * d
  BY ONLY <1>1, d \in Nat, e \in Nat, e <= d
<1>5. ASSUME r + 1 <= q PROVE FALSE
  <2>1. (r + 1) * e <= q * e
    BY ONLY <1>1, <1>5, e \in Nat
  <2>2. q * e \in Nat /\ q * d \in Nat /\ (r + 1) * e \in Nat
    BY ONLY <1>1, d \in Nat, e \in Nat
  <2> QED BY <1>2, <1>3, <1>4, <2>1, <2>2
<1>6. q <= r
  BY <1>1, <1>5
<1> QED BY <1>6 DEF q, r

LEMMA SmallParts ==
    ASSUME NEW E, NEW a \in Seq(E), NEW b \in Seq(E), NEW x \in Seq(E), NEW y \in Seq(E),
           Len(x) <= Len(a), Len(y) <= Len(b), Small(a, b)
    PROVE  Small(x, y)
<1> SUFFICES ASSUME x # <<>>, y # <<>> PROVE Len(x) <= DiffWorkLimit \div Len(y)
  BY DEF Small
<1>1. Len(x) \in Nat /\ Len(a) \in Nat /\ Len(y) \in Nat /\ Len(b) \in Nat /\ 0 < Len(y) /\ 0 < Len(x)
  OBVIOUS
<1>2. a # <<>> /\ b # <<>>
  BY <1>1
<1>3. Len(a) <= DiffWorkLimit \div Len(b)
  BY <1>2 DEF Small
<1>4. DiffWorkLimit \in Nat
  BY DiffAssumption
<1>5. DiffWorkLimit \div Len(b) <= DiffWorkLimit \div Len(y)
  BY <1>1, <1>4, DivisionFalls
<1>6. DiffWorkLimit \div Len(b) \in Nat /\ DiffWorkLimit \div Len(y) \in Nat
  <2> DEFINE m == Len(b)
             k == Len(y)
  <2>1. m \in Nat /\ k \in Nat /\ 0 < m /\ 0 < k
    BY <1>1
  <2> HIDE DEF m, k
  <2>2. DiffWorkLimit \div m \in Nat /\ DiffWorkLimit \div k \in Nat
    BY ONLY <1>4, <2>1
  <2> QED BY ONLY <2>2 DEF m, k
<1> QED BY <1>1, <1>3, <1>5, <1>6

Mid(a) == Len(a) \div 2
Best(a, b) == Split(LcsRowPrefix(SubSeq(a, 1, Mid(a)), b), LcsRowSuffix(SubSeq(a, Mid(a) + 1, Len(a)), b))

(* The halves of a text and the parts of the other that match them best. *)
Halves(a1, b1, a2, b2, a, b, E) ==
    /\ a1 \in Seq(E) /\ a2 \in Seq(E) /\ a = a1 \o a2 /\ Len(a1) < Len(a) /\ Len(a2) < Len(a)
    /\ b1 \in Seq(E) /\ b2 \in Seq(E) /\ b = b1 \o b2 /\ Len(b1) <= Len(b) /\ Len(b2) <= Len(b)
    /\ \A k, m \in Nat : Longest(k, a1, b1, E) /\ Longest(m, a2, b2, E) => Longest(k + m, a, b, E)

LEMMA HalvesBest ==
    ASSUME NEW E, NEW a \in Seq(E), NEW b \in Seq(E), 1 < Len(a)
    PROVE  Halves(SubSeq(a, 1, Mid(a)), SubSeq(b, 1, Best(a, b)), SubSeq(a, Mid(a) + 1, Len(a)),
                  SubSeq(b, Best(a, b) + 1, Len(b)), a, b, E)
<1> DEFINE n == Len(a)
           w == Len(b)
           mid == Mid(a)
           a1 == SubSeq(a, 1, mid)
           a2 == SubSeq(a, mid + 1, Len(a))
           l == LcsRowPrefix(a1, b)
           r == LcsRowSuffix(a2, b)
           s == Split(l, r)
           b1 == SubSeq(b, 1, s)
           b2 == SubSeq(b, s + 1, Len(b))
<1>1. n \in Nat /\ w \in Nat
  OBVIOUS
<1>2. mid \in 0 .. n /\ 0 < mid /\ mid < n
  BY DEF Mid
<1> HIDE DEF mid
<1>3. a1 \o a2 = a /\ a1 \in Seq(E) /\ a2 \in Seq(E) /\ Len(a1) = mid /\ Len(a2) = n - mid
  BY <1>2, PartsJoin
<1> HIDE DEF a1, a2
<1>4. l \in [0 .. w -> Nat] /\ \A j \in 0 .. w : Longest(l[j], a1, SubSeq(b, 1, j), E)
  BY <1>3, LcsRowsExact
<1>5. r \in [0 .. w -> Nat] /\ \A j \in 0 .. w : Longest(r[j], a2, SubSeq(b, j + 1, Len(b)), E)
  BY <1>3, LcsSuffixExact
<1> HIDE DEF l, r
<1>6. s \in 0 .. w /\ \A k \in 0 .. w : l[k] + r[k] <= l[s] + r[s]
  BY <1>1, <1>4, <1>5, SplitBest
<1> HIDE DEF s
<1>7. b1 \o b2 = b /\ b1 \in Seq(E) /\ b2 \in Seq(E) /\ Len(b1) = s /\ Len(b2) = w - s
  BY <1>6, PartsJoin
<1>8. Len(a1) < n /\ Len(a2) < n /\ Len(b1) <= w /\ Len(b2) <= w
  BY ONLY <1>1, <1>2, <1>3, <1>6, <1>7
<1>9. Longest(l[s] + r[s], a, b, E)
  <2>1. \A j \in 0 .. w : /\ l[j] \in Nat /\ Longest(l[j], a1, SubSeq(b, 1, j), E)
                          /\ r[j] \in Nat /\ Longest(r[j], a2, SubSeq(b, j + 1, w), E)
    BY <1>4, <1>5
  <2>2. Longest(l[s] + r[s], a1 \o a2, b, E)
    BY <1>3, <1>6, <2>1, LongestDivided
  <2> QED BY <1>3, <2>2
<1>10. Longest(l[s], a1, b1, E) /\ Longest(r[s], a2, b2, E) /\ l[s] \in Nat /\ r[s] \in Nat
  BY <1>4, <1>5, <1>6
<1> HIDE DEF b1, b2, n, w
<1>11. ASSUME NEW k \in Nat, NEW m \in Nat, Longest(k, a1, b1, E), Longest(m, a2, b2, E)
       PROVE  Longest(k + m, a, b, E)
  <2>1. k = l[s] /\ m = r[s]
    BY ONLY k \in Nat, m \in Nat, <1>10, <1>11, LongestUnique
  <2> QED BY ONLY <1>9, <2>1
<1>12. Halves(a1, b1, a2, b2, a, b, E)
  BY ONLY <1>3, <1>7, <1>8, <1>11 DEF Halves, n, w
<1>13. s = Best(a, b)
  BY DEF Best, s, l, r, a1, a2, mid
<1> HIDE DEF Best
<1> QED BY ONLY <1>12, <1>13, Zenon DEF a1, a2, b1, b2, mid

(* hirschberg between the common ends. *)
LEMMA MiddleSolved ==
    ASSUME NEW E, NEW a \in Seq(E), NEW b \in Seq(E), Small(a, b), NEW rec,
           \A x, y \in Seq(E) : Len(x) < Len(a) => Solved(rec[<<x, y>>], x, y, E)
    PROVE  Aligned(DiffMiddle(rec, a, b), a, b) /\ Longest(Total(DiffMiddle(rec, a, b), "equal"), a, b, E)
<1> DEFINE o == DiffMiddle(rec, a, b)
<1>1. CASE a = <<>>
  <2>1. o = <<RunOf("insert", Len(b))>>
    BY <1>1 DEF DiffMiddle, RunOf
  <2>2. Aligned(o, a, b) /\ Total(o, "equal") = 0
    BY <1>1, <2>1, InsertRun
  <2>3. Longest(0, a, b, E)
    BY <1>1, LongestNone
  <2> QED BY <2>2, <2>3
<1>2. CASE a # <<>> /\ b = <<>>
  <2>1. o = <<RunOf("delete", Len(a))>>
    BY <1>2 DEF DiffMiddle, RunOf
  <2>2. Aligned(o, a, b) /\ Total(o, "equal") = 0
    BY <1>2, <2>1, DeleteRun
  <2>3. Longest(0, a, b, E)
    BY <1>2, LongestNone
  <2> QED BY <2>2, <2>3
<1>3. CASE a # <<>> /\ b # <<>> /\ Len(a) = 1
  <2>1. o = Single(a, b)
    BY <1>3 DEF DiffMiddle
  <2> QED BY <1>3, <2>1, SingleSolved
<1>4. CASE a # <<>> /\ b # <<>> /\ Len(a) # 1
  <2> DEFINE a1 == SubSeq(a, 1, Mid(a))
             a2 == SubSeq(a, Mid(a) + 1, Len(a))
             b1 == SubSeq(b, 1, Best(a, b))
             b2 == SubSeq(b, Best(a, b) + 1, Len(b))
             o1 == rec[<<a1, b1>>]
             o2 == rec[<<a2, b2>>]
  <2>1. o = o1 \o o2
    BY <1>4 DEF DiffMiddle, Mid, Best
  <2>2. 1 < Len(a)
    <3> DEFINE n == Len(a)
    <3>1. n \in Nat
      OBVIOUS
    <3>2. n # 0
      BY <1>4, EmptySeq
    <3>3. n # 1
      BY ONLY <1>4, Zenon
    <3> HIDE DEF n
    <3>4. 1 < n
      BY ONLY <3>1, <3>2, <3>3
    <3> QED BY ONLY <3>4 DEF n
  <2>3. Halves(a1, b1, a2, b2, a, b, E)
    BY <2>2, HalvesBest
  <2> HIDE DEF a1, a2, b1, b2
  <2>4. /\ a1 \in Seq(E) /\ a2 \in Seq(E) /\ a = a1 \o a2 /\ Len(a1) < Len(a) /\ Len(a2) < Len(a)
        /\ b1 \in Seq(E) /\ b2 \in Seq(E) /\ b = b1 \o b2 /\ Len(b1) <= Len(b) /\ Len(b2) <= Len(b)
        /\ \A k, m \in Nat : Longest(k, a1, b1, E) /\ Longest(m, a2, b2, E) => Longest(k + m, a, b, E)
    BY ONLY <2>3, Zenon DEF Halves
  <2>5. Small(a1, b1) /\ Small(a2, b2)
    <3>1. Len(a1) <= Len(a) /\ Len(a2) <= Len(a)
      BY <2>4
    <3> QED BY <2>4, <3>1, SmallParts
  <2>6. Solved(o1, a1, b1, E) /\ Solved(o2, a2, b2, E)
    BY <2>4, Zenon
  <2> HIDE DEF o1, o2, o
  <2>7. /\ Aligned(o1, a1, b1) /\ Longest(Total(o1, "equal"), a1, b1, E)
        /\ Aligned(o2, a2, b2) /\ Longest(Total(o2, "equal"), a2, b2, E)
    BY ONLY <2>5, <2>6, Zenon DEF Solved
  <2>8. Joined(o1, o2, a1, a2, b1, b2)
    BY ONLY <2>4, <2>7, ScriptsJoin
  <2>9. Aligned(o, a, b)
    BY ONLY <2>1, <2>4, <2>8 DEF Joined
  <2>10. Total(o, "equal") = Total(o1, "equal") + Total(o2, "equal")
    BY ONLY <2>1, <2>8 DEF Joined
  <2>11. Total(o1, "equal") \in Nat /\ Total(o2, "equal") \in Nat
    BY ONLY <2>7, TotalsType DEF Aligned
  <2>12. Longest(Total(o1, "equal") + Total(o2, "equal"), a, b, E)
    BY ONLY <2>4, <2>7, <2>11, Zenon
  <2> QED BY ONLY <2>9, <2>10, <2>12 DEF o
<1> QED BY <1>1, <1>2, <1>3, <1>4

(* One call of hirschberg, when the calls for shorter texts are right. *)
LEMMA StepSolved ==
    ASSUME NEW E, NEW a \in Seq(E), NEW b \in Seq(E), NEW rec,
           \A x, y \in Seq(E) : Len(x) < Len(a) => Solved(rec[<<x, y>>], x, y, E)
    PROVE  Solved(DiffStep(rec, a, b), a, b, E)
<1> DEFINE o == DiffStep(rec, a, b)
           p == CommonPrefix(a, b)
           s == CommonSuffix(SubSeq(a, p + 1, Len(a)), SubSeq(b, p + 1, Len(b)))
<1>1. CASE ~Small(a, b)
  <2>1. a # <<>> /\ b # <<>> /\ ~(Len(a) <= DiffWorkLimit \div Len(b))
    BY <1>1 DEF Small
  <2>2. Len(a) > DiffWorkLimit \div Len(b)
    <3> DEFINE n == Len(a)
               w == Len(b)
    <3>1. n \in Nat /\ w \in Nat
      OBVIOUS
    <3>2. w # 0 /\ ~(n <= DiffWorkLimit \div w)
      BY <2>1, EmptySeq
    <3>3. DiffWorkLimit \in Nat
      BY DiffAssumption
    <3> HIDE DEF n, w
    <3>4. n > DiffWorkLimit \div w
      BY ONLY <3>1, <3>2, <3>3
    <3> QED BY ONLY <3>4 DEF n, w
  <2>3. o = <<RunOf("delete", Len(a)), RunOf("insert", Len(b))>>
    BY <2>1, <2>2 DEF DiffStep, RunOf
  <2>4. Aligned(o, a, b)
    BY <2>3, ReplaceRuns
  <2> QED BY <1>1, <2>4 DEF Solved
<1>2. CASE Small(a, b)
  <2>1. ~(a # <<>> /\ b # <<>> /\ Len(a) > DiffWorkLimit \div Len(b))
    <3> SUFFICES ASSUME a # <<>>, b # <<>>, Len(a) > DiffWorkLimit \div Len(b) PROVE FALSE
      OBVIOUS
    <3> DEFINE n == Len(a)
               w == Len(b)
    <3>1. n \in Nat /\ w \in Nat
      OBVIOUS
    <3>2. w # 0 /\ n <= DiffWorkLimit \div w /\ n > DiffWorkLimit \div w
      BY <1>2, EmptySeq DEF Small
    <3>3. DiffWorkLimit \in Nat
      BY DiffAssumption
    <3> HIDE DEF n, w
    <3> QED BY ONLY <3>1, <3>2, <3>3
  <2> DEFINE m == SubSeq(a, p + 1, Len(a) - s)
             k == SubSeq(b, p + 1, Len(b) - s)
             mid == DiffMiddle(rec, m, k)
             e1 == <<RunOf("equal", p)>>
             e2 == <<RunOf("equal", s)>>
             y == e1 \o mid
  <2>2. o = y \o e2
    BY <2>1 DEF DiffStep, RunOf
  <2>3. Ends(a, b, p, s)
    BY DEF Ends
  <2> HIDE DEF p, s
  <2>4. /\ p \in Nat /\ s \in Nat
        /\ \E h, x, t, z : ThreeParts(h, x, t, a, p, s, E) /\ ThreeParts(h, z, t, b, p, s, E)
    BY <2>3, EndsApart
  <2>5. PICK h, x, t, z : ThreeParts(h, x, t, a, p, s, E) /\ ThreeParts(h, z, t, b, p, s, E)
    BY <2>4
  <2>6. x = m /\ z = k
    BY <2>5, Zenon DEF ThreeParts
  <2>7. /\ h \in Seq(E) /\ m \in Seq(E) /\ k \in Seq(E) /\ t \in Seq(E)
        /\ a = (h \o m) \o t /\ b = (h \o k) \o t /\ Len(h) = p /\ Len(t) = s
    BY ONLY <2>5, <2>6, Zenon DEF ThreeParts
  <2>8. Len(m) <= Len(a) /\ Len(k) <= Len(b)
    <3>1. Len(m) = (Len(a) - p) - s /\ Len(k) = (Len(b) - p) - s
      BY ONLY <2>5, <2>6, Zenon DEF ThreeParts
    <3>2. Len(a) \in Nat /\ Len(b) \in Nat
      OBVIOUS
    <3> HIDE DEF m, k
    <3> QED BY ONLY <2>4, <3>1, <3>2
  <2> HIDE DEF m, k, o
  <2>9. Small(m, k)
    BY <1>2, <2>7, <2>8, SmallParts
  <2>10. \A u, v \in Seq(E) : Len(u) < Len(m) => Solved(rec[<<u, v>>], u, v, E)
    <3> TAKE u, v \in Seq(E)
    <3> HAVE Len(u) < Len(m)
    <3>1. Len(u) < Len(a)
      <4>1. Len(u) \in Nat /\ Len(m) \in Nat /\ Len(a) \in Nat
        BY <2>7
      <4> QED BY ONLY <2>8, <4>1, Len(u) < Len(m)
    <3> QED BY <3>1
  <2>11. Aligned(mid, m, k) /\ Longest(Total(mid, "equal"), m, k, E)
    BY <2>7, <2>9, <2>10, MiddleSolved
  <2>12. Aligned(e1, h, h) /\ Total(e1, "equal") = p
    BY <2>7, EqualRun
  <2>13. Aligned(e2, t, t) /\ Total(e2, "equal") = s
    BY <2>7, EqualRun
  <2>14. Total(mid, "equal") \in Nat
    BY <2>11, TotalsType DEF Aligned
  <2> HIDE DEF mid, e1, e2
  <2>15. Joined(e1, mid, h, m, h, k)
    BY ONLY <2>7, <2>11, <2>12, ScriptsJoin
  <2> DEFINE ha == h \o m
             hb == h \o k
             total == Total(mid, "equal")
  <2>16. Aligned(y, ha, hb) /\ Total(y, "equal") = p + total
    BY ONLY <2>12, <2>15 DEF Joined
  <2>17. ha \in Seq(E) /\ hb \in Seq(E) /\ total \in Nat /\ p + total \in Nat
    BY ONLY <2>4, <2>7, <2>14
  <2>18. Longest(p + total, ha, hb, E)
    <3>1. Longest(Len(h) + total, h \o m, h \o k, E)
      <4> HIDE DEF total
      <4>1. Longest(total, m, k, E)
        BY ONLY <2>11 DEF total
      <4> QED BY ONLY <2>7, <2>17, <4>1, LongestBefore
    <3> QED BY ONLY <2>7, <3>1
  <2> HIDE DEF y, ha, hb, total
  <2>19. Joined(y, e2, ha, t, hb, t)
    BY ONLY <2>7, <2>13, <2>16, <2>17, ScriptsJoin
  <2>20. Aligned(o, a, b) /\ Total(o, "equal") = (p + total) + s
    BY ONLY <2>2, <2>7, <2>13, <2>16, <2>19 DEF Joined, ha, hb
  <2>21. Longest((p + total) + s, a, b, E)
    <3>1. Longest((p + total) + Len(t), ha \o t, hb \o t, E)
      BY ONLY <2>7, <2>17, <2>18, LongestAfter
    <3> QED BY ONLY <2>7, <3>1 DEF ha, hb
  <2> QED BY ONLY <2>20, <2>21, Zenon DEF Solved, o
<1> QED BY <1>1, <1>2

(* It looks at the calls for shorter texts only. *)
LEMMA StepLocal ==
    ASSUME NEW E, NEW a \in Seq(E), NEW b \in Seq(E), NEW r1, NEW r2,
           \A x, y \in Seq(E) : Len(x) < Len(a) => r1[<<x, y>>] = r2[<<x, y>>]
    PROVE  DiffStep(r1, a, b) = DiffStep(r2, a, b)
<1> DEFINE p == CommonPrefix(a, b)
           s == CommonSuffix(SubSeq(a, p + 1, Len(a)), SubSeq(b, p + 1, Len(b)))
           m == SubSeq(a, p + 1, Len(a) - s)
           k == SubSeq(b, p + 1, Len(b) - s)
<1>1. SUFFICES DiffMiddle(r1, m, k) = DiffMiddle(r2, m, k)
  <2> HIDE DEF DiffMiddle
  <2> QED BY <1>1, Zenon DEF DiffStep
<1>2. Ends(a, b, p, s)
  BY DEF Ends
<1> HIDE DEF p, s
<1>3. /\ p \in Nat /\ s \in Nat
      /\ \E h, x, t, z : ThreeParts(h, x, t, a, p, s, E) /\ ThreeParts(h, z, t, b, p, s, E)
  BY <1>2, EndsApart
<1>4. PICK h, x, t, z : ThreeParts(h, x, t, a, p, s, E) /\ ThreeParts(h, z, t, b, p, s, E)
  BY <1>3
<1>5. x = m /\ z = k
  BY <1>4, Zenon DEF ThreeParts
<1>6. m \in Seq(E) /\ k \in Seq(E) /\ Len(m) = (Len(a) - p) - s
  BY ONLY <1>4, <1>5, Zenon DEF ThreeParts
<1>7. Len(m) \in Nat /\ Len(a) \in Nat
  BY <1>6
<1>8. Len(m) <= Len(a)
  <2> HIDE DEF m, k
  <2> QED BY ONLY <1>3, <1>6, <1>7
<1> HIDE DEF m, k
<1>9. CASE ~(1 < Len(m))
  <2>1. m = <<>> \/ Len(m) = 1
    <3> DEFINE n == Len(m)
    <3>1. n \in Nat /\ (n = 0 => m = <<>>)
      BY <1>6, EmptySeq
    <3> HIDE DEF n
    <3>2. n = 0 \/ n = 1 \/ 1 < n
      BY ONLY <3>1
    <3> QED BY <1>9, <3>1, <3>2 DEF n
  <2>2. CASE m = <<>>
    <3>1. \A r : DiffMiddle(r, m, k) = <<RunOf("insert", Len(k))>>
      BY <2>2 DEF DiffMiddle, RunOf
    <3> QED BY <3>1
  <2>3. CASE m # <<>> /\ k = <<>>
    <3>1. \A r : DiffMiddle(r, m, k) = <<RunOf("delete", Len(m))>>
      BY <2>3 DEF DiffMiddle, RunOf
    <3> QED BY <3>1
  <2>4. CASE m # <<>> /\ k # <<>> /\ Len(m) = 1
    <3>1. \A r : DiffMiddle(r, m, k) = Single(m, k)
      BY <2>4 DEF DiffMiddle
    <3> QED BY <3>1
  <2> QED BY <2>1, <2>2, <2>3, <2>4
<1>10. CASE 1 < Len(m)
  <2> DEFINE a1 == SubSeq(m, 1, Mid(m))
             a2 == SubSeq(m, Mid(m) + 1, Len(m))
             b1 == SubSeq(k, 1, Best(m, k))
             b2 == SubSeq(k, Best(m, k) + 1, Len(k))
  <2>1. Halves(a1, b1, a2, b2, m, k, E)
    BY <1>6, <1>10, HalvesBest
  <2> HIDE DEF a1, a2, b1, b2
  <2>2. /\ a1 \in Seq(E) /\ a2 \in Seq(E) /\ Len(a1) < Len(m) /\ Len(a2) < Len(m)
        /\ b1 \in Seq(E) /\ b2 \in Seq(E)
    BY ONLY <2>1, Zenon DEF Halves
  <2>3. Len(a1) < Len(a) /\ Len(a2) < Len(a)
    <3>1. Len(a1) \in Nat /\ Len(a2) \in Nat
      BY <2>2
    <3> QED BY ONLY <1>7, <1>8, <2>2, <3>1
  <2>4. r1[<<a1, b1>>] = r2[<<a1, b1>>] /\ r1[<<a2, b2>>] = r2[<<a2, b2>>]
    BY <2>2, <2>3, Zenon
  <2> QED BY ONLY <2>4, Zenon DEF DiffMiddle, a1, a2, b1, b2, Mid, Best
<1> QED BY <1>9, <1>10

Pairs(E) == Seq(E) \X Seq(E)

(* The calls for texts shorter than n. *)
Shorter(n, E) == {p \in Pairs(E) : Len(p[1]) < n}

Partial(n, f, E) ==
    /\ f = [p \in Shorter(n, E) |-> f[p]]
    /\ \A p \in Shorter(n, E) : f[p] = DiffStep(f, p[1], p[2])

LEMMA PairTypes ==
    ASSUME NEW E, NEW p \in Pairs(E)
    PROVE  p[1] \in Seq(E) /\ p[2] \in Seq(E) /\ p = <<p[1], p[2]>> /\ Len(p[1]) \in Nat
BY DEF Pairs

LEMMA PairsMade ==
    ASSUME NEW E, NEW x \in Seq(E), NEW y \in Seq(E)
    PROVE  <<x, y>> \in Pairs(E) /\ <<x, y>>[1] = x /\ <<x, y>>[2] = y
BY DEF Pairs

(* What holds of a call when it holds of the calls for shorter texts. *)
LEMMA ByLength ==
    ASSUME NEW E, NEW S, \A p \in Pairs(E) : (\A q \in Pairs(E) : Len(q[1]) < Len(p[1]) => q \in S) => p \in S
    PROVE  \A p \in Pairs(E) : p \in S
<1> DEFINE T == {Len(p[1]) : p \in {q \in Pairs(E) : q \notin S}}
<1> SUFFICES ASSUME NEW r \in Pairs(E), r \notin S PROVE FALSE
  OBVIOUS
<1>1. T \in SUBSET Nat /\ T # {}
  <2>1. \A p \in Pairs(E) : Len(p[1]) \in Nat
    BY PairTypes
  <2>2. T \subseteq Nat
    BY ONLY <2>1
  <2>3. Len(r[1]) \in T
    OBVIOUS
  <2> QED BY ONLY <2>2, <2>3
<1>2. PICK n \in T : \A m \in T : n <= m
  <2> HIDE DEF T
  <2> QED BY <1>1, LeastNumber
<1>3. PICK p \in Pairs(E) : p \notin S /\ n = Len(p[1])
  BY <1>2
<1>4. ASSUME NEW q \in Pairs(E), Len(q[1]) < Len(p[1]) PROVE q \in S
  <2>1. Len(q[1]) \in Nat /\ n \in Nat
    BY <1>3, PairTypes
  <2>2. ~(n <= Len(q[1]))
    BY ONLY <1>3, <1>4, <2>1
  <2>3. Len(q[1]) \notin T
    <3> HIDE DEF T
    <3> QED BY <1>2, <2>2
  <2> QED BY <2>3
<1> QED BY <1>3, <1>4

LEMMA PairLocal ==
    ASSUME NEW E, NEW p \in Pairs(E), NEW r1, NEW r2,
           \A q \in Pairs(E) : Len(q[1]) < Len(p[1]) => r1[q] = r2[q]
    PROVE  DiffStep(r1, p[1], p[2]) = DiffStep(r2, p[1], p[2])
<1> DEFINE a == p[1]
           b == p[2]
<1>1. a \in Seq(E) /\ b \in Seq(E)
  BY PairTypes
<1>2. ASSUME NEW x \in Seq(E), NEW y \in Seq(E), Len(x) < Len(a) PROVE r1[<<x, y>>] = r2[<<x, y>>]
  <2> DEFINE q == <<x, y>>
  <2>1. q \in Pairs(E) /\ q[1] = x
    BY PairsMade
  <2> HIDE DEF q
  <2>2. r1[q] = r2[q]
    BY <1>2, <2>1
  <2> QED BY <2>2 DEF q
<1> HIDE DEF a, b
<1>3. DiffStep(r1, a, b) = DiffStep(r2, a, b)
  BY ONLY <1>1, <1>2, StepLocal, SMTT(30)
<1> QED BY <1>3 DEF a, b

LEMMA PartialsAgree ==
    ASSUME NEW E, NEW n \in Nat, NEW f, NEW m \in Nat, NEW g, Partial(n, f, E), Partial(m, g, E)
    PROVE  \A p \in Pairs(E) : p \in Shorter(n, E) /\ p \in Shorter(m, E) => f[p] = g[p]
<1> DEFINE S == {p \in Pairs(E) : p \in Shorter(n, E) /\ p \in Shorter(m, E) => f[p] = g[p]}
<1>1. ASSUME NEW p \in Pairs(E), \A q \in Pairs(E) : Len(q[1]) < Len(p[1]) => q \in S PROVE p \in S
  <2> SUFFICES ASSUME p \in Shorter(n, E), p \in Shorter(m, E) PROVE f[p] = g[p]
    OBVIOUS
  <2>1. p[1] \in Seq(E) /\ p[2] \in Seq(E) /\ Len(p[1]) \in Nat /\ Len(p[1]) < n /\ Len(p[1]) < m
    BY PairTypes DEF Shorter
  <2>2. ASSUME NEW q \in Pairs(E), Len(q[1]) < Len(p[1]) PROVE f[q] = g[q]
    <3>1. Len(q[1]) \in Nat
      BY PairTypes
    <3>2. Len(q[1]) < n /\ Len(q[1]) < m
      BY ONLY <2>1, <2>2, <3>1, n \in Nat, m \in Nat
    <3>3. q \in Shorter(n, E) /\ q \in Shorter(m, E)
      BY <3>2 DEF Shorter
    <3>4. q \in S
      BY <1>1, <2>2
    <3> QED BY <3>3, <3>4
  <2>3. DiffStep(f, p[1], p[2]) = DiffStep(g, p[1], p[2])
    BY <2>2, PairLocal
  <2>4. f[p] = DiffStep(f, p[1], p[2]) /\ g[p] = DiffStep(g, p[1], p[2])
    BY Zenon DEF Partial
  <2> QED BY <2>3, <2>4
<1>2. \A p \in Pairs(E) : p \in S
  <2> HIDE DEF S
  <2> QED BY <1>1, ByLength
<1> QED BY <1>2

LEMMA PartialsExist ==
    ASSUME NEW E, NEW n \in Nat
    PROVE  \E f : Partial(n, f, E)
<1> DEFINE T == {k \in 0 .. n : \E f : Partial(k, f, E)}
<1>1. 0 \in T
  <2> DEFINE f == [p \in Shorter(0, E) |-> 0]
  <2>1. ~(\E p : p \in Shorter(0, E))
    BY PairTypes DEF Shorter
  <2>2. f = [p \in Shorter(0, E) |-> f[p]]
    BY <2>1
  <2> HIDE DEF f
  <2>3. Partial(0, f, E)
    BY <2>1, <2>2 DEF Partial
  <2> QED BY <2>3
<1>2. ASSUME NEW k \in 1 .. n, k - 1 \in T PROVE k \in T
  <2>1. PICK f : Partial(k - 1, f, E)
    BY <1>2
  <2> DEFINE g == [p \in Shorter(k, E) |-> DiffStep(f, p[1], p[2])]
  <2>2. \A p \in Shorter(k, E) : g[p] = DiffStep(f, p[1], p[2])
    BY Zenon
  <2>3. g = [p \in Shorter(k, E) |-> g[p]]
    OBVIOUS
  <2> HIDE DEF g
  <2>4. ASSUME NEW q \in Shorter(k - 1, E) PROVE f[q] = g[q] /\ q \in Shorter(k, E)
    <3>1. q \in Shorter(k, E)
      <4>1. q \in Pairs(E) /\ Len(q[1]) < k - 1 /\ Len(q[1]) \in Nat
        BY PairTypes DEF Shorter
      <4> QED BY <4>1 DEF Shorter
    <3>2. f[q] = DiffStep(f, q[1], q[2])
      BY <2>1, Zenon DEF Partial
    <3> QED BY <2>2, <3>1, <3>2
  <2>5. ASSUME NEW p \in Shorter(k, E) PROVE g[p] = DiffStep(g, p[1], p[2])
    <3>1. p \in Pairs(E) /\ p[1] \in Seq(E) /\ p[2] \in Seq(E) /\ Len(p[1]) \in Nat /\ Len(p[1]) < k
      BY PairTypes DEF Shorter
    <3>2. ASSUME NEW q \in Pairs(E), Len(q[1]) < Len(p[1]) PROVE f[q] = g[q]
      <4>1. Len(q[1]) \in Nat
        BY PairTypes
      <4>2. Len(q[1]) < k - 1
        BY ONLY <3>1, <3>2, <4>1, k \in 1 .. n, n \in Nat
      <4>3. q \in Shorter(k - 1, E)
        BY <4>2 DEF Shorter
      <4> QED BY <2>4, <4>3
    <3>3. DiffStep(f, p[1], p[2]) = DiffStep(g, p[1], p[2])
      BY <3>1, <3>2, PairLocal
    <3> QED BY <2>2, <3>3
  <2>6. Partial(k, g, E)
    BY ONLY <2>3, <2>5, Zenon DEF Partial
  <2>7. k \in 0 .. n
    OBVIOUS
  <2> QED BY <2>6, <2>7
<1>3. \A k \in 0 .. n : k \in T
  <2> HIDE DEF T
  <2> QED BY <1>1, <1>2, Counted
<1> QED BY <1>3

(* The recursive function is defined by its equation. *)
LEMMA ScriptsExist ==
    ASSUME NEW E
    PROVE  \E rec : rec = [p \in Pairs(E) |-> DiffStep(rec, p[1], p[2])]
<1> DEFINE Pick(n) == CHOOSE f : Partial(n, f, E)
           rec == [p \in Pairs(E) |-> Pick(Len(p[1]) + 1)[p]]
<1>1. ASSUME NEW n \in Nat PROVE Partial(n, Pick(n), E)
  BY PartialsExist, Zenon
<1> HIDE DEF Pick
<1>2. \A p \in Pairs(E) : rec[p] = Pick(Len(p[1]) + 1)[p]
  OBVIOUS
<1>3. rec = [p \in Pairs(E) |-> rec[p]]
  OBVIOUS
<1> HIDE DEF rec
<1>4. ASSUME NEW p \in Pairs(E) PROVE rec[p] = DiffStep(rec, p[1], p[2])
  <2> DEFINE n == Len(p[1]) + 1
             f == Pick(n)
  <2>1. p[1] \in Seq(E) /\ p[2] \in Seq(E) /\ Len(p[1]) \in Nat
    BY PairTypes
  <2>2. n \in Nat /\ Len(p[1]) < n
    BY <2>1
  <2>3. Partial(n, f, E)
    <3> HIDE DEF n
    <3> QED BY <1>1, <2>2
  <2>4. p \in Shorter(n, E)
    <3> HIDE DEF n
    <3> QED BY <2>2 DEF Shorter
  <2>5. rec[p] = f[p]
    BY <1>2
  <2> HIDE DEF f
  <2>6. f[p] = DiffStep(f, p[1], p[2])
    BY <2>3, <2>4, Zenon DEF Partial
  <2>7. ASSUME NEW q \in Pairs(E), Len(q[1]) < Len(p[1]) PROVE f[q] = rec[q]
    <3> DEFINE m == Len(q[1]) + 1
    <3>1. q \in Pairs(E) /\ Len(q[1]) \in Nat
      BY PairTypes
    <3>2. m \in Nat /\ Len(q[1]) < m /\ Len(q[1]) < n
      BY ONLY <2>1, <2>7, <3>1
    <3>3. rec[q] = Pick(m)[q]
      BY <1>2, <3>1
    <3>4. q \in Shorter(n, E) /\ q \in Shorter(m, E)
      <4> HIDE DEF n, m
      <4> QED BY ONLY <3>1, <3>2 DEF Shorter
    <3> HIDE DEF n, m
    <3>5. f[q] = Pick(m)[q]
      BY <1>1, <2>2, <2>3, <3>1, <3>2, <3>4, PartialsAgree
    <3> QED BY <3>3, <3>5
  <2>8. DiffStep(f, p[1], p[2]) = DiffStep(rec, p[1], p[2])
    BY <2>7, PairLocal
  <2> QED BY <2>5, <2>6, <2>8
<1>5. rec = [p \in Pairs(E) |-> DiffStep(rec, p[1], p[2])]
  BY ONLY <1>3, <1>4
<1> QED BY <1>5

(* diff_seq: a script of the two texts, and a shortest one when the table is small enough. *)
LEMMA DiffSeqSolved ==
    ASSUME NEW E, NEW a \in Seq(E), NEW b \in Seq(E)
    PROVE  Solved(DiffSeq(a, b, E), a, b, E)
<1> DEFINE rec[p \in Seq(E) \X Seq(E)] == DiffStep(rec, p[1], p[2])
<1>1. DiffSeq(a, b, E) = PushOps(rec[<<a, b>>])
  BY DEF DiffSeq
<1>2. rec = [p \in Pairs(E) |-> DiffStep(rec, p[1], p[2])]
  <2>1. PICK f : f = [p \in Seq(E) \X Seq(E) |-> DiffStep(f, p[1], p[2])]
    BY ScriptsExist DEF Pairs
  <2>2. rec = [p \in Seq(E) \X Seq(E) |-> DiffStep(rec, p[1], p[2])]
    BY <2>1, Zenon
  <2> QED BY <2>2, Zenon DEF Pairs
<1> HIDE DEF rec
<1>3. \A p \in Pairs(E) : rec[p] = DiffStep(rec, p[1], p[2])
  BY <1>2, Zenon
<1> DEFINE S == {p \in Pairs(E) : Solved(rec[p], p[1], p[2], E)}
<1>4. ASSUME NEW p \in Pairs(E), \A q \in Pairs(E) : Len(q[1]) < Len(p[1]) => q \in S PROVE p \in S
  <2>1. p[1] \in Seq(E) /\ p[2] \in Seq(E)
    BY PairTypes
  <2>2. ASSUME NEW x \in Seq(E), NEW y \in Seq(E), Len(x) < Len(p[1]) PROVE Solved(rec[<<x, y>>], x, y, E)
    <3> DEFINE q == <<x, y>>
    <3>1. q \in Pairs(E) /\ q[1] = x /\ q[2] = y
      BY PairsMade
    <3> HIDE DEF q
    <3>2. q \in S
      BY <1>4, <2>2, <3>1
    <3>3. Solved(rec[q], x, y, E)
      BY <3>1, <3>2
    <3> QED BY <3>3 DEF q
  <2>3. Solved(DiffStep(rec, p[1], p[2]), p[1], p[2], E)
    BY <2>1, <2>2, StepSolved
  <2> QED BY <1>3, <2>3
<1>5. \A p \in Pairs(E) : p \in S
  <2> HIDE DEF S
  <2> QED BY <1>4, ByLength
<1> DEFINE o == rec[<<a, b>>]
<1>6. Solved(o, a, b, E)
  <2> DEFINE q == <<a, b>>
  <2>1. q \in Pairs(E) /\ q[1] = a /\ q[2] = b
    BY PairsMade
  <2> HIDE DEF q
  <2>2. Solved(rec[q], a, b, E)
    BY <1>5, <2>1
  <2> QED BY <2>2 DEF q
<1> HIDE DEF o
<1>7. Aligned(PushOps(o), a, b) /\ Total(PushOps(o), "equal") = Total(o, "equal")
  BY <1>6, PushOpsAlign DEF Solved
<1>8. Solved(PushOps(o), a, b, E)
  BY <1>6, <1>7 DEF Solved
<1> QED BY ONLY <1>1, <1>8, Zenon DEF o

(* One cell of the table of the definition. *)
Cell(p, f, a, b) ==
    IF p[1] = 0 \/ p[2] = 0 THEN 0
    ELSE IF a[p[1]] = b[p[2]] THEN f[<<p[1] - 1, p[2] - 1>>] + 1
    ELSE Larger(f[<<p[1] - 1, p[2]>>], f[<<p[1], p[2] - 1>>])

(* The cell of i and j is right when those before it are. *)
LEMMA CellExact ==
    ASSUME NEW E, NEW a \in Seq(E), NEW b \in Seq(E), NEW f, NEW i \in 0 .. Len(a), NEW j \in 0 .. Len(b),
           \A x \in 0 .. i, y \in 0 .. j :
             <<x, y>> # <<i, j>> => f[<<x, y>>] \in Nat /\ LongestOf(f[<<x, y>>], a, b, x, y, E)
    PROVE  Cell(<<i, j>>, f, a, b) \in Nat /\ LongestOf(Cell(<<i, j>>, f, a, b), a, b, i, j, E)
<1>1. Len(a) \in Nat /\ Len(b) \in Nat
  OBVIOUS
<1>2. CASE i = 0 \/ j = 0
  <2>1. Cell(<<i, j>>, f, a, b) = 0
    BY <1>2 DEF Cell
  <2>2. SubSeq(a, 1, i) \in Seq(E) /\ SubSeq(b, 1, j) \in Seq(E) /\ Len(SubSeq(a, 1, i)) = i /\ Len(SubSeq(b, 1, j)) = j
    BY PartsJoin
  <2>3. SubSeq(a, 1, i) = <<>> \/ SubSeq(b, 1, j) = <<>>
    BY <1>2, <2>2, EmptySeq
  <2>4. Longest(0, SubSeq(a, 1, i), SubSeq(b, 1, j), E)
    BY <2>2, <2>3, LongestNone
  <2> QED BY <2>1, <2>4 DEF LongestOf
<1>3. CASE i # 0 /\ j # 0
  <2>1. i \in 1 .. Len(a) /\ j \in 1 .. Len(b) /\ i - 1 \in 0 .. i /\ j - 1 \in 0 .. j /\ i \in 0 .. i /\ j \in 0 .. j
    BY <1>1, <1>3
  <2> DEFINE d == f[<<i - 1, j - 1>>]
             u == f[<<i - 1, j>>]
             l == f[<<i, j - 1>>]
  <2>2. d \in Nat /\ LongestOf(d, a, b, i - 1, j - 1, E)
    BY <2>1
  <2>3. u \in Nat /\ LongestOf(u, a, b, i - 1, j, E)
    BY <2>1
  <2>4. l \in Nat /\ LongestOf(l, a, b, i, j - 1, E)
    BY <2>1
  <2>5. Cell(<<i, j>>, f, a, b) = IF a[i] = b[j] THEN d + 1 ELSE Larger(u, l)
    BY <1>3 DEF Cell
  <2> HIDE DEF d, u, l
  <2>6. CASE a[i] = b[j]
    <3>1. LongestOf(d + 1, a, b, i, j, E)
      BY <2>1, <2>2, <2>6, LongestSteps
    <3> QED BY <2>2, <2>5, <2>6, <3>1
  <2>7. CASE a[i] # b[j]
    <3>1. LongestOf(IF l >= u THEN l ELSE u, a, b, i, j, E)
      BY <2>1, <2>3, <2>4, <2>7, LongestSteps
    <3>2. Larger(u, l) = (IF l >= u THEN l ELSE u) /\ Larger(u, l) \in Nat
      BY <2>3, <2>4 DEF Larger
    <3> QED BY <2>5, <2>7, <3>1, <3>2
  <2> QED BY <2>6, <2>7
<1> QED BY <1>2, <1>3

(* The reference definition is the length of the longest common subsequence. *)
LEMMA LcsLengthExact ==
    ASSUME NEW E, NEW a \in Seq(E), NEW b \in Seq(E)
    PROVE  LcsLength(a, b) \in Nat /\ Longest(LcsLength(a, b), a, b, E)
<1> DEFINE n == Len(a)
           w == Len(b)
           D == (0 .. Len(a)) \X (0 .. Len(b))
           lcs[p \in (0 .. Len(a)) \X (0 .. Len(b))] ==
             LET i == p[1]
                 j == p[2]
             IN  IF i = 0 \/ j = 0 THEN 0
                 ELSE IF a[i] = b[j] THEN lcs[<<i - 1, j - 1>>] + 1
                 ELSE Larger(lcs[<<i - 1, j>>], lcs[<<i, j - 1>>])
           f == [p \in D |-> LcsRowPrefix(SubSeq(a, 1, p[1]), b)[p[2]]]
<1>1. n \in Nat /\ w \in Nat
  OBVIOUS
<1>2. ASSUME NEW i \in 0 .. n, NEW j \in 0 .. w
      PROVE  <<i, j>> \in D /\ f[<<i, j>>] \in Nat /\ LongestOf(f[<<i, j>>], a, b, i, j, E)
  <2> DEFINE t == SubSeq(a, 1, i)
  <2>1. t \in Seq(E)
    BY PartsJoin
  <2>2. <<i, j>> \in D /\ f[<<i, j>>] = LcsRowPrefix(t, b)[j]
    OBVIOUS
  <2> HIDE DEF t
  <2>3. LcsRowPrefix(t, b)[j] \in Nat /\ Longest(LcsRowPrefix(t, b)[j], t, SubSeq(b, 1, j), E)
    BY <2>1, LcsRowsExact
  <2> HIDE DEF f
  <2> QED BY ONLY <2>2, <2>3, Zenon DEF LongestOf, t
<1>3. f = [p \in D |-> f[p]]
  OBVIOUS
<1> HIDE DEF f
<1>4. ASSUME NEW p \in D PROVE f[p] = Cell(p, f, a, b)
  <2>1. PICK i \in 0 .. n, j \in 0 .. w : p = <<i, j>>
    OBVIOUS
  <2>2. \A x \in 0 .. i, y \in 0 .. j : x \in 0 .. n /\ y \in 0 .. w
    BY <1>1
  <2> HIDE DEF n, w, D
  <2>3. \A x \in 0 .. i, y \in 0 .. j :
          <<x, y>> # <<i, j>> => f[<<x, y>>] \in Nat /\ LongestOf(f[<<x, y>>], a, b, x, y, E)
    BY <1>2, <2>2
  <2>4. Cell(<<i, j>>, f, a, b) \in Nat /\ LongestOf(Cell(<<i, j>>, f, a, b), a, b, i, j, E)
    BY <2>3, CellExact DEF n, w
  <2>5. f[<<i, j>>] \in Nat /\ LongestOf(f[<<i, j>>], a, b, i, j, E)
    BY <1>2
  <2>6. f[<<i, j>>] = Cell(<<i, j>>, f, a, b)
    BY ONLY <2>4, <2>5, LongestUnique DEF LongestOf
  <2> QED BY <2>1, <2>6
<1>5. lcs = [p \in D |-> Cell(p, lcs, a, b)]
  <2>1. f = [p \in D |-> Cell(p, f, a, b)]
    BY ONLY <1>3, <1>4
  <2>2. f = [p \in (0 .. Len(a)) \X (0 .. Len(b)) |->
               IF p[1] = 0 \/ p[2] = 0 THEN 0
               ELSE IF a[p[1]] = b[p[2]] THEN f[<<p[1] - 1, p[2] - 1>>] + 1
               ELSE Larger(f[<<p[1] - 1, p[2]>>], f[<<p[1], p[2] - 1>>])]
    BY ONLY <2>1, Zenon DEF Cell, D
  <2>3. lcs = [p \in (0 .. Len(a)) \X (0 .. Len(b)) |->
               IF p[1] = 0 \/ p[2] = 0 THEN 0
               ELSE IF a[p[1]] = b[p[2]] THEN lcs[<<p[1] - 1, p[2] - 1>>] + 1
               ELSE Larger(lcs[<<p[1] - 1, p[2]>>], lcs[<<p[1], p[2] - 1>>])]
    BY ONLY <2>2, Zenon
  <2> HIDE DEF lcs
  <2> QED BY ONLY <2>3, Zenon DEF Cell, D
<1>6. LcsLength(a, b) = lcs[<<n, w>>]
  BY DEF LcsLength
<1> HIDE DEF lcs
<1>7. \A i \in 0 .. n, j \in 0 .. w : lcs[<<i, j>>] = Cell(<<i, j>>, lcs, a, b)
  <2> TAKE i \in 0 .. n, j \in 0 .. w
  <2>1. <<i, j>> \in D
    OBVIOUS
  <2> HIDE DEF D
  <2> QED BY ONLY <1>5, <2>1, Zenon
<1> HIDE DEF D
<1> DEFINE Right(i, j) == lcs[<<i, j>>] \in Nat /\ LongestOf(lcs[<<i, j>>], a, b, i, j, E)
           T == {i \in 0 .. n : \A x \in 0 .. i, j \in 0 .. w : Right(x, j)}
<1>8. ASSUME NEW i \in 0 .. n, \A x \in 0 .. n, j \in 0 .. w : x < i => Right(x, j)
      PROVE  \A j \in 0 .. w : Right(i, j)
  <2> DEFINE U == {j \in 0 .. w : \A y \in 0 .. j : Right(i, y)}
  <2>1. ASSUME NEW j \in 0 .. w, \A y \in 0 .. w : y < j => Right(i, y) PROVE Right(i, j)
    <3>1. ASSUME NEW x \in 0 .. i, NEW y \in 0 .. j, <<x, y>> # <<i, j>>
          PROVE  lcs[<<x, y>>] \in Nat /\ LongestOf(lcs[<<x, y>>], a, b, x, y, E)
      <4>1. x \in 0 .. n /\ y \in 0 .. w /\ (x < i \/ (x = i /\ y < j))
        BY ONLY <1>1, <3>1, i \in 0 .. n, j \in 0 .. w
      <4>2. CASE x < i
        BY <1>8, <4>1, <4>2
      <4>3. CASE x = i /\ y < j
        BY <2>1, <4>1, <4>3
      <4> QED BY <4>1, <4>2, <4>3
    <3>2. Cell(<<i, j>>, lcs, a, b) \in Nat /\ LongestOf(Cell(<<i, j>>, lcs, a, b), a, b, i, j, E)
      BY <3>1, CellExact
    <3> QED BY <1>7, <3>2
  <2>2. 0 \in U
    <3>1. \A y \in 0 .. w : ~(y < 0)
      BY <1>1
    <3>2. 0 \in 0 .. w /\ \A y \in 0 .. 0 : y = 0
      BY <1>1
    <3> HIDE DEF Right
    <3>3. Right(i, 0)
      BY <2>1, <3>1, <3>2
    <3> QED BY <3>2, <3>3
  <2>3. ASSUME NEW j \in 1 .. w, j - 1 \in U PROVE j \in U
    <3>1. j \in 0 .. w /\ \A y \in 0 .. w : y < j => y \in 0 .. j - 1
      BY <1>1
    <3>2. \A y \in 0 .. j : y = j \/ y \in 0 .. j - 1
      BY <1>1
    <3> HIDE DEF Right
    <3>3. \A y \in 0 .. j - 1 : Right(i, y)
      BY <2>3
    <3>4. Right(i, j)
      BY <2>1, <3>1, <3>3
    <3> QED BY <3>1, <3>2, <3>3, <3>4
  <2>4. \A j \in 0 .. w : j \in U
    <3> HIDE DEF U
    <3> QED BY <1>1, <2>2, <2>3, Counted
  <2>5. \A j \in 0 .. w : j \in 0 .. j
    BY <1>1
  <2> HIDE DEF Right
  <2> QED BY <2>4, <2>5
<1>9. 0 \in T
  <2>1. 0 \in 0 .. n /\ (\A x \in 0 .. n : ~(x < 0)) /\ \A x \in 0 .. 0 : x = 0
    BY <1>1
  <2> HIDE DEF Right
  <2> QED BY <1>8, <2>1
<1>10. ASSUME NEW i \in 1 .. n, i - 1 \in T PROVE i \in T
  <2>1. i \in 0 .. n /\ \A x \in 0 .. n : x < i => x \in 0 .. i - 1
    BY <1>1
  <2>2. \A x \in 0 .. i : x = i \/ x \in 0 .. i - 1
    BY <1>1
  <2> HIDE DEF Right
  <2>3. \A x \in 0 .. i - 1, j \in 0 .. w : Right(x, j)
    BY <1>10
  <2>4. \A j \in 0 .. w : Right(i, j)
    BY <1>8, <2>1, <2>3
  <2> QED BY <2>1, <2>2, <2>3, <2>4
<1>11. n \in T
  <2>1. \A i \in 0 .. n : i \in T
    <3> HIDE DEF T
    <3> QED BY <1>1, <1>9, <1>10, Counted
  <2> QED BY <1>1, <2>1
<1>12. Right(n, w)
  BY <1>1, <1>11
<1>13. SubSeq(a, 1, n) = a /\ SubSeq(b, 1, w) = b
  OBVIOUS
<1> QED BY ONLY <1>6, <1>12, <1>13 DEF LongestOf

(* What a comparison keeps is the longest that it could keep. *)
LEMMA DiffSeqShortest ==
    ASSUME NEW E, NEW a \in Seq(E), NEW b \in Seq(E), Small(a, b)
    PROVE  Total(DiffSeq(a, b, E), "equal") = LcsLength(a, b)
<1> DEFINE o == DiffSeq(a, b, E)
           l == LcsLength(a, b)
           k == Total(o, "equal")
<1>1. Solved(o, a, b, E)
  BY DiffSeqSolved
<1>2. l \in Nat /\ Longest(l, a, b, E)
  BY LcsLengthExact
<1> HIDE DEF o, l
<1>3. k \in Nat /\ Longest(k, a, b, E)
  BY <1>1, TotalsType DEF Solved, Aligned
<1> HIDE DEF k
<1>4. k = l
  BY ONLY <1>2, <1>3, LongestUnique
<1> QED BY <1>4 DEF o, l, k

-----------------------------------------------------------------------------
(* TextsOf put together of parts. *)

(* TextsOf put together one after the other. *)
Grows(f, parts) == f[0] = <<>> /\ \A k \in 1 .. Len(parts) : f[k] = f[k - 1] \o parts[k]

LEMMA FlattenBy ==
    ASSUME NEW S, NEW parts \in Seq(Seq(S)), NEW f, Grows(f, parts)
    PROVE  FlattenSeq(parts) = f[Len(parts)] /\ \A k \in 0 .. Len(parts) : f[k] \in Seq(S)
<1> DEFINE n == Len(parts)
           D == Seq(S)
           Next(k, o) == IF k = 1 THEN parts[k] ELSE o[k - 1] \o parts[k]
           flatten[k \in 1 .. n] == IF k = 1 THEN parts[k] ELSE flatten[k - 1] \o parts[k]
           h == [k \in 1 .. n |-> f[k]]
<1>1. n \in Nat /\ \A k \in 1 .. n : parts[k] \in D
  <2>1. parts \in Seq(D)
    OBVIOUS
  <2> HIDE DEF D
  <2> QED BY <2>1
<1>2. f[0] = <<>> /\ \A k \in 1 .. n : f[k] = f[k - 1] \o parts[k]
  BY DEF Grows
<1>3. FlattenSeq(parts) = IF n = 0 THEN parts ELSE flatten[n]
  BY DEF FlattenSeq
<1>4. ASSUME NEW x \in D PROVE <<>> \o x = x
  OBVIOUS
<1>5. <<>> \in D /\ \A x, y \in D : x \o y \in D
  OBVIOUS
<1> DEFINE T == {k \in 0 .. n : f[k] \in D}
<1>6. \A k \in 0 .. n : f[k] \in D
  <2>1. 0 \in T
    <3>1. 0 \in 0 .. n /\ f[0] \in D
      <4> HIDE DEF D
      <4> QED BY ONLY <1>1, <1>2, <1>5
    <3> QED BY <3>1
  <2>2. ASSUME NEW k \in 1 .. n, k - 1 \in T PROVE k \in T
    <3>1. k \in 0 .. n /\ f[k - 1] \in D /\ parts[k] \in D
      BY <1>1, <2>2
    <3>2. f[k] = f[k - 1] \o parts[k]
      BY <1>2
    <3> HIDE DEF D
    <3> QED BY <1>5, <3>1, <3>2
  <2>3. \A k \in 0 .. n : k \in T
    <3> HIDE DEF T
    <3> QED BY <1>1, <2>1, <2>2, Counted
  <2> QED BY <2>3
<1>7. CASE n = 0
  <2>1. parts = <<>>
    BY <1>7, EmptySeq
  <2> QED BY <1>2, <1>3, <1>6, <1>7, <2>1
<1>8. CASE n # 0
  <2> HIDE DEF n, D
  <2>1. \A k \in 1 .. n : h[k] = f[k]
    OBVIOUS
  <2>2. h = [k \in 1 .. n |-> h[k]]
    OBVIOUS
  <2> HIDE DEF h
  <2>3. ASSUME NEW k \in 1 .. n PROVE h[k] = Next(k, h)
    <3>1. CASE k = 1
      <4>1. k - 1 = 0 /\ parts[k] \in D
        BY <1>1, <3>1
      <4>2. f[k] = <<>> \o parts[k]
        BY ONLY <1>2, <4>1, k \in 1 .. n
      <4> QED BY ONLY <1>4, <2>1, <3>1, <4>1, <4>2, k \in 1 .. n
    <3>2. CASE k # 1
      <4>1. k - 1 \in 1 .. n
        BY <1>1, <3>2
      <4> QED BY ONLY <1>2, <2>1, <3>2, <4>1, k \in 1 .. n
    <3> QED BY <3>1, <3>2
  <2>4. h = [k \in 1 .. n |-> Next(k, h)]
    <3> HIDE DEF Next
    <3> QED BY <2>2, <2>3
  <2>5. flatten = [k \in 1 .. n |-> Next(k, flatten)]
    <3>1. h = [k \in 1 .. n |-> IF k = 1 THEN parts[k] ELSE h[k - 1] \o parts[k]]
      BY <2>4, Zenon
    <3>2. flatten = [k \in 1 .. n |-> IF k = 1 THEN parts[k] ELSE flatten[k - 1] \o parts[k]]
      BY <3>1, Zenon
    <3> HIDE DEF flatten
    <3> QED BY <3>2, Zenon
  <2> HIDE DEF flatten
  <2>6. \A k \in 1 .. n : flatten[k] = Next(k, flatten)
    <3> HIDE DEF Next
    <3> QED BY <2>5, Zenon
  <2> DEFINE U == {k \in 0 .. n : k = 0 \/ flatten[k] = f[k]}
  <2>7. ASSUME NEW k \in 1 .. n, k - 1 \in U PROVE k \in U
    <3>1. k \in 0 .. n
      BY <1>1
    <3>2. CASE k = 1
      <4>1. flatten[k] = parts[k]
        BY <2>6, <3>2
      <4>2. h[k] = parts[k]
        BY <2>3, <3>2
      <4> QED BY <2>1, <3>1, <4>1, <4>2
    <3>3. CASE k # 1
      <4>1. k - 1 # 0 /\ flatten[k - 1] = f[k - 1]
        BY <1>1, <2>7, <3>3
      <4>2. flatten[k] = flatten[k - 1] \o parts[k]
        BY <2>6, <3>3
      <4>3. f[k] = f[k - 1] \o parts[k]
        BY <1>2
      <4> QED BY ONLY <3>1, <4>1, <4>2, <4>3
    <3> QED BY <3>2, <3>3
  <2>8. 0 \in U
    BY <1>1
  <2>9. \A k \in 0 .. n : k \in U
    <3> HIDE DEF U
    <3> QED BY <1>1, <2>7, <2>8, Counted
  <2>10. n \in 0 .. n
    BY <1>1
  <2>11. flatten[n] = f[n]
    BY <1>8, <2>9, <2>10
  <2> QED BY <1>3, <1>6, <1>8, <2>11 DEF n, D
<1> QED BY <1>7, <1>8

LEMMA FlattenSteps ==
    ASSUME NEW S, NEW parts \in Seq(Seq(S))
    PROVE  \E f : Grows(f, parts)
<1> DEFINE n == Len(parts)
           D == Seq(S)
           F == [k \in 1 .. n |-> [d \in D |-> d \o parts[k]]]
           G == [k \in 0 .. n |-> D]
<1>1. n \in Nat /\ \A k \in 1 .. n : parts[k] \in D
  <2>1. parts \in Seq(D)
    OBVIOUS
  <2> HIDE DEF D
  <2> QED BY <2>1
<1> HIDE DEF n
<1>2. <<>> \in G[0] /\ \A k \in 1 .. n : \A d \in G[k - 1] : F[k][d] \in G[k]
  <2>1. <<>> \in G[0]
    BY <1>1
  <2>2. ASSUME NEW k \in 1 .. n, NEW d \in G[k - 1] PROVE F[k][d] \in G[k]
    <3>1. k - 1 \in 0 .. n /\ k \in 0 .. n
      BY <1>1
    <3>2. d \in D
      BY <3>1
    <3>3. d \o parts[k] \in D
      BY <1>1, <3>2
    <3> HIDE DEF D
    <3> QED BY <3>1, <3>2, <3>3
  <2> QED BY <2>1, <2>2
<1>3. PICK f : Iterated(n, <<>>, F, f) /\ \A k \in 0 .. n : f[k] \in G[k]
  <2> HIDE DEF F, G
  <2> QED BY <1>1, <1>2, Iterates
<1>4. f[0] = <<>> /\ \A k \in 1 .. n : f[k] = F[k][f[k - 1]]
  <2> HIDE DEF F, G
  <2> QED BY <1>3, Zenon DEF Iterated
<1>5. \A k \in 0 .. n : f[k] \in D
  <2> HIDE DEF D
  <2> QED BY <1>3
<1>6. ASSUME NEW k \in 1 .. n PROVE f[k] = f[k - 1] \o parts[k]
  <2>1. k - 1 \in 0 .. n
    BY <1>1
  <2>2. f[k] = F[k][f[k - 1]] /\ f[k - 1] \in D
    <3> HIDE DEF F, D
    <3> QED BY <1>4, <1>5, <2>1, Zenon
  <2>3. F[k][f[k - 1]] = f[k - 1] \o parts[k]
    <3> HIDE DEF D
    <3> QED BY <2>1, <2>2, Zenon
  <2> QED BY <2>2, <2>3
<1>7. Grows(f, parts)
  BY ONLY <1>4, <1>6, Zenon DEF Grows, n
<1> QED BY <1>7

LEMMA FlattenType ==
    ASSUME NEW S, NEW parts \in Seq(Seq(S))
    PROVE  FlattenSeq(parts) \in Seq(S)
<1>1. PICK f : Grows(f, parts)
  BY FlattenSteps
<1>2. Len(parts) \in 0 .. Len(parts)
  OBVIOUS
<1> QED BY <1>1, <1>2, FlattenBy

LEMMA FlattenJoin ==
    ASSUME NEW S, NEW p \in Seq(Seq(S)), NEW q \in Seq(Seq(S))
    PROVE  FlattenSeq(p \o q) = FlattenSeq(p) \o FlattenSeq(q)
<1> DEFINE m == Len(p)
           n == Len(q)
           D == Seq(S)
           pq == p \o q
<1>1. p \in Seq(D) /\ q \in Seq(D)
  OBVIOUS
<1>2. PICK f : Grows(f, p)
  BY FlattenSteps
<1>3. PICK g : Grows(g, q)
  BY FlattenSteps
<1>4. FlattenSeq(p) = f[m] /\ \A k \in 0 .. m : f[k] \in D
  BY <1>2, FlattenBy
<1>5. FlattenSeq(q) = g[n] /\ \A k \in 0 .. n : g[k] \in D
  BY <1>3, FlattenBy
<1> HIDE DEF D
<1>6. m \in Nat /\ n \in Nat /\ \A k \in 1 .. n : q[k] \in D
  BY <1>1
<1>7. /\ pq \in Seq(D) /\ Len(pq) = m + n
      /\ \A k \in 1 .. m : pq[k] = p[k]
      /\ \A k \in m + 1 .. m + n : pq[k] = q[k - m]
  BY <1>1
<1>8. f[0] = <<>> /\ \A k \in 1 .. m : f[k] = f[k - 1] \o p[k]
  BY <1>2 DEF Grows
<1>9. g[0] = <<>> /\ \A k \in 1 .. n : g[k] = g[k - 1] \o q[k]
  BY <1>3 DEF Grows
<1> HIDE DEF m, n, pq
<1> DEFINE h == [k \in 0 .. m + n |-> IF k <= m THEN f[k] ELSE f[m] \o g[k - m]]
<1>10. \A k \in 0 .. m + n : h[k] = IF k <= m THEN f[k] ELSE f[m] \o g[k - m]
  OBVIOUS
<1> HIDE DEF h
<1>11. h[m] = f[m] \o g[0]
  <2>1. m \in 0 .. m + n /\ m \in 0 .. m /\ m <= m
    BY ONLY <1>6
  <2>2. h[m] = f[m] /\ f[m] \in D
    BY ONLY <1>4, <1>10, <2>1
  <2>3. f[m] \o <<>> = f[m]
    BY ONLY <2>2 DEF D
  <2> QED BY ONLY <1>9, <2>2, <2>3
<1>12. ASSUME NEW k \in 0 .. n PROVE h[m + k] = f[m] \o g[k]
  <2>1. CASE k = 0
    <3>1. m + k = m /\ k = 0
      BY ONLY <1>6, <2>1
    <3> QED BY ONLY <1>11, <3>1
  <2>2. CASE k # 0
    <3>1. m + k \in 0 .. m + n /\ ~(m + k <= m) /\ (m + k) - m = k
      BY ONLY <1>6, <2>2, k \in 0 .. n
    <3> QED BY ONLY <1>10, <3>1
  <2> QED BY <2>1, <2>2
<1>13. ASSUME NEW k \in 1 .. m + n PROVE h[k] = h[k - 1] \o pq[k]
  <2>1. CASE k <= m
    <3>1. k \in 1 .. m /\ k - 1 <= m /\ k - 1 \in 0 .. m + n /\ k \in 0 .. m + n
      BY ONLY <1>6, <2>1, k \in 1 .. m + n
    <3>2. h[k] = f[k] /\ h[k - 1] = f[k - 1] /\ pq[k] = p[k] /\ f[k] = f[k - 1] \o p[k]
      BY ONLY <1>7, <1>8, <1>10, <2>1, <3>1
    <3> QED BY ONLY <3>2
  <2>2. CASE ~(k <= m)
    <3> DEFINE i == k - m
    <3>1. i \in 1 .. n /\ i - 1 \in 0 .. n /\ i \in 0 .. n /\ m + i = k /\ m + (i - 1) = k - 1 /\ k \in m + 1 .. m + n /\ m \in 0 .. m
      BY ONLY <1>6, <2>2, k \in 1 .. m + n
    <3>2. pq[k] = q[i]
      BY ONLY <1>7, <3>1
    <3> HIDE DEF i
    <3> DEFINE j == i - 1
    <3>3. h[k] = f[m] \o g[i]
      BY ONLY <1>12, <3>1
    <3>4. j \in 0 .. n /\ m + j = k - 1
      BY ONLY <3>1
    <3>5. g[i] = g[j] \o q[i]
      BY ONLY <1>9, <3>1
    <3> HIDE DEF j
    <3>6. h[k - 1] = f[m] \o g[j]
      BY ONLY <1>12, <3>4
    <3>7. f[m] \in D /\ g[j] \in D /\ q[i] \in D
      BY ONLY <1>4, <1>5, <1>6, <3>1, <3>4
    <3>8. f[m] \o (g[j] \o q[i]) = (f[m] \o g[j]) \o q[i]
      <4> DEFINE u == f[m]
                 v == g[j]
                 w == q[i]
      <4>1. u \in Seq(S) /\ v \in Seq(S) /\ w \in Seq(S)
        BY ONLY <3>7 DEF D
      <4> HIDE DEF u, v, w
      <4>2. u \o (v \o w) = (u \o v) \o w
        BY ONLY <4>1, ConcatAssociative, SMTT(30)
      <4> QED BY ONLY <4>2, Zenon DEF u, v, w
    <3> QED BY ONLY <3>2, <3>3, <3>5, <3>6, <3>8, Zenon
  <2> QED BY <2>1, <2>2
<1>14. h[0] = <<>>
  <2>1. 0 \in 0 .. m + n /\ 0 <= m
    BY ONLY <1>6
  <2> QED BY ONLY <1>8, <1>10, <2>1
<1>15. Grows(h, pq)
  BY ONLY <1>7, <1>13, <1>14 DEF Grows
<1>16. FlattenSeq(pq) = h[m + n]
  <2>1. pq \in Seq(Seq(S))
    BY <1>7 DEF D
  <2>2. FlattenSeq(pq) = h[Len(pq)]
    BY ONLY <1>15, <2>1, FlattenBy
  <2> QED BY ONLY <1>7, <2>2
<1>17. h[m + n] = f[m] \o g[n]
  <2>1. n \in 0 .. n
    BY ONLY <1>6
  <2> QED BY ONLY <1>12, <2>1
<1> QED BY ONLY <1>4, <1>5, <1>16, <1>17, Zenon DEF pq

LEMMA FlattenOne ==
    ASSUME NEW S, NEW t \in Seq(S)
    PROVE  FlattenSeq(<<t>>) = t /\ FlattenSeq(<<>>) = <<>>
<1> DEFINE one == <<t>>
           D == Seq(S)
           f == [k \in 0 .. 1 |-> IF k = 0 THEN <<>> ELSE t]
<1>1. one \in Seq(D) /\ Len(one) = 1 /\ one[1] = t
  <2>1. t \in D
    OBVIOUS
  <2> HIDE DEF D
  <2> QED BY <2>1
<1>2. f[0] = <<>> /\ f[1] = t
  OBVIOUS
<1>3. <<>> \o t = t
  OBVIOUS
<1> HIDE DEF one, f
<1>4. Grows(f, one)
  <2>1. \A k \in 1 .. Len(one) : k = 1 /\ k - 1 = 0
    BY ONLY <1>1
  <2> QED BY ONLY <1>1, <1>2, <1>3, <2>1 DEF Grows
<1>5. FlattenSeq(one) = t
  BY ONLY <1>1, <1>2, <1>4, FlattenBy
<1>6. FlattenSeq(<<>>) = <<>>
  BY DEF FlattenSeq
<1> QED BY <1>5, <1>6 DEF one

(* A text up to a place, and from there on to another. *)
LEMMA PartsFollow ==
    ASSUME NEW E, NEW u \in Seq(E), NEW j \in 0 .. Len(u), NEW i \in 0 .. j
    PROVE  /\ SubSeq(u, 1, j) = SubSeq(u, 1, i) \o SubSeq(u, i + 1, j)
           /\ SubSeq(u, 1, i) \in Seq(E) /\ SubSeq(u, i + 1, j) \in Seq(E) /\ SubSeq(u, 1, j) \in Seq(E)
           /\ Len(SubSeq(u, i + 1, j)) = j - i
<1> DEFINE n == Len(u)
           s == n - j
           hm == SubSeq(u, 1, j)
           h == SubSeq(u, 1, i)
           m == SubSeq(u, i + 1, j)
<1>1. n \in Nat /\ i \in Nat /\ s \in Nat /\ i + s <= n /\ n - s = j /\ j \in Nat /\ i <= j /\ (n - i) - s = j - i
  OBVIOUS
<1>2. PICK x, y, z : ThreeParts(x, y, z, u, i, s, E)
  <2> HIDE DEF s
  <2> QED BY <1>1, PartsThree DEF n
<1>3. /\ x \in Seq(E) /\ y \in Seq(E) /\ z \in Seq(E) /\ u = (x \o y) \o z
      /\ y = m /\ Len(x) = i /\ Len(y) = j - i /\ \A k \in 1 .. i : x[k] = u[k]
  <2> HIDE DEF s
  <2> QED BY ONLY <1>1, <1>2 DEF ThreeParts, n, m
<1>4. hm \in Seq(E) /\ Len(hm) = j /\ \A k \in 1 .. j : hm[k] = u[k]
  BY PartsJoin
<1>5. h \in Seq(E) /\ Len(h) = i /\ \A k \in 1 .. i : h[k] = u[k]
  <2>1. i \in 0 .. n
    BY <1>1
  <2> QED BY <2>1, PartsJoin
<1> HIDE DEF h, hm, m, n, s
<1>6. h = x
  BY ONLY <1>3, <1>5, SeqEqual
<1>7. hm = x \o y
  <2> DEFINE xy == x \o y
  <2>1. xy \in Seq(E) /\ Len(xy) = j
    <3>1. xy \in Seq(E) /\ Len(xy) = Len(x) + Len(y)
      BY ONLY <1>3, ConcatProperties
    <3>2. Len(x) = i /\ Len(y) = j - i /\ i \in Nat /\ j \in Nat
      BY ONLY <1>1, <1>3
    <3> HIDE DEF xy
    <3> QED BY ONLY <3>1, <3>2
  <2>2. u = xy \o z
    BY <1>3
  <2> HIDE DEF xy
  <2>3. \A k \in 1 .. j : u[k] = xy[k]
    BY ONLY <1>3, <2>1, <2>2
  <2>4. \A k \in 1 .. j : hm[k] = xy[k]
    BY ONLY <1>4, <2>3
  <2>5. hm = xy
    BY ONLY <1>4, <2>1, <2>4, SeqEqual
  <2> QED BY ONLY <2>5 DEF xy
<1> QED BY ONLY <1>3, <1>4, <1>6, <1>7 DEF h, hm, m

(* Places that cut m parts out of n elements. *)
Cuts(at, m, n) ==
    /\ at[0] = 0 /\ at[m] = n
    /\ \A k \in 0 .. m : at[k] \in 0 .. n
    /\ \A k \in 1 .. m : at[k - 1] <= at[k]

(* The parts between the places make the text. *)
LEMMA PartsMake ==
    ASSUME NEW S, NEW t \in Seq(S), NEW at, NEW parts, NEW m \in Nat, Cuts(at, m, Len(t)),
           Len(parts) = m, parts = [k \in 1 .. m |-> parts[k]],
           \A k \in 1 .. m : parts[k] = SubSeq(t, at[k - 1] + 1, at[k])
    PROVE  parts \in Seq(Seq(S)) /\ FlattenSeq(parts) = t
<1> DEFINE n == Len(t)
           D == Seq(S)
           f == [k \in 0 .. m |-> SubSeq(t, 1, at[k])]
<1>1. n \in Nat
  OBVIOUS
<1>2. /\ at[0] = 0 /\ at[m] = n
      /\ \A k \in 0 .. m : at[k] \in 0 .. n
      /\ \A k \in 1 .. m : at[k - 1] <= at[k]
  BY DEF Cuts
<1>3. \A k \in 0 .. m : f[k] = SubSeq(t, 1, at[k])
  OBVIOUS
<1> HIDE DEF f, n, D
<1>4. ASSUME NEW k \in 1 .. m PROVE parts[k] \in D /\ f[k] = f[k - 1] \o parts[k]
  <2> DEFINE i == at[k - 1]
             j == at[k]
  <2>1. k - 1 \in 0 .. m /\ k \in 0 .. m
    OBVIOUS
  <2>2. j \in 0 .. n /\ i \in 0 .. j
    <3>1. i \in 0 .. n /\ j \in 0 .. n /\ i <= j
      BY ONLY <1>2, <2>1, k \in 1 .. m
    <3> HIDE DEF i, j
    <3> QED BY ONLY <1>1, <3>1
  <2>3. parts[k] = SubSeq(t, i + 1, j) /\ f[k] = SubSeq(t, 1, j) /\ f[k - 1] = SubSeq(t, 1, i)
    BY <1>3, <2>1
  <2> HIDE DEF i, j
  <2>4. SubSeq(t, 1, j) = SubSeq(t, 1, i) \o SubSeq(t, i + 1, j) /\ SubSeq(t, i + 1, j) \in Seq(S)
    BY <2>2, PartsFollow, ZenonT(40) DEF n
  <2> QED BY ONLY <2>3, <2>4 DEF D
<1>5. parts \in Seq(D)
  <2>1. \A k \in 1 .. m : parts[k] \in D
    BY <1>4
  <2> QED BY ONLY <2>1, m \in Nat, parts = [k \in 1 .. m |-> parts[k]]
<1>6. f[0] = <<>>
  <2>1. 0 \in 0 .. m /\ f[0] = SubSeq(t, 1, 0)
    BY ONLY <1>2, <1>3, m \in Nat
  <2> QED BY <2>1
<1>7. Grows(f, parts)
  BY ONLY <1>4, <1>6, Len(parts) = m DEF Grows
<1>8. FlattenSeq(parts) = f[m]
  <2>1. parts \in Seq(Seq(S))
    BY <1>5 DEF D
  <2>2. FlattenSeq(parts) = f[Len(parts)]
    BY ONLY <1>7, <2>1, FlattenBy
  <2> QED BY ONLY <2>2, Len(parts) = m
<1>9. f[m] = t
  <2>1. m \in 0 .. m
    OBVIOUS
  <2>2. f[m] = SubSeq(t, 1, n)
    BY ONLY <1>2, <1>3, <2>1
  <2>3. SubSeq(t, 1, Len(t)) = t
    OBVIOUS
  <2> QED BY <2>2, <2>3 DEF n
<1> QED BY ONLY <1>5, <1>8, <1>9 DEF D

Until(tokens, k) == FlattenSeq(SubSeq(tokens, 1, k))
Span(tokens, i, j) == FlattenSeq(SubSeq(tokens, i + 1, j))

LEMMA SpanFollows ==
    ASSUME NEW S, NEW tokens \in Seq(Seq(S)), NEW j \in 0 .. Len(tokens), NEW i \in 0 .. j
    PROVE  /\ Until(tokens, j) = Until(tokens, i) \o Span(tokens, i, j)
           /\ Span(tokens, i, j) \in Seq(S) /\ Until(tokens, i) \in Seq(S) /\ Until(tokens, j) \in Seq(S)
<1> DEFINE x == SubSeq(tokens, 1, i)
           y == SubSeq(tokens, i + 1, j)
           z == SubSeq(tokens, 1, j)
           D == Seq(S)
<1>1. z = x \o y /\ x \in Seq(D) /\ y \in Seq(D) /\ z \in Seq(D)
  <2>1. tokens \in Seq(D)
    OBVIOUS
  <2> HIDE DEF D
  <2> QED BY <2>1, PartsFollow
<1> HIDE DEF x, y, z
<1>2. FlattenSeq(z) = FlattenSeq(x) \o FlattenSeq(y)
  BY <1>1, FlattenJoin
<1>3. FlattenSeq(x) \in Seq(S) /\ FlattenSeq(y) \in Seq(S) /\ FlattenSeq(z) \in Seq(S)
  BY <1>1, FlattenType
<1> QED BY ONLY <1>2, <1>3, Zenon DEF x, y, z, Until, Span

LEMMA UntilEnds ==
    ASSUME NEW S, NEW tokens \in Seq(Seq(S))
    PROVE  Until(tokens, 0) = <<>> /\ Until(tokens, Len(tokens)) = FlattenSeq(tokens)
<1>1. SubSeq(tokens, 1, 0) = <<>> /\ SubSeq(tokens, 1, Len(tokens)) = tokens
  <2> DEFINE D == Seq(S)
  <2>1. tokens \in Seq(D)
    OBVIOUS
  <2> HIDE DEF D
  <2> QED BY <2>1
<1>2. FlattenSeq(<<>>) = <<>>
  BY DEF FlattenSeq
<1> QED BY ONLY <1>1, <1>2 DEF Until

(* The spans between the places make the text of all. *)
LEMMA SpansCover ==
    ASSUME NEW S, NEW tokens \in Seq(Seq(S)), NEW at, NEW parts, NEW m \in Nat, Cuts(at, m, Len(tokens)),
           Len(parts) = m, parts = [k \in 1 .. m |-> parts[k]],
           \A k \in 1 .. m : parts[k] = Span(tokens, at[k - 1], at[k])
    PROVE  parts \in Seq(Seq(S)) /\ FlattenSeq(parts) = FlattenSeq(tokens)
<1> DEFINE n == Len(tokens)
           D == Seq(S)
           f == [k \in 0 .. m |-> Until(tokens, at[k])]
<1>1. n \in Nat
  OBVIOUS
<1>2. /\ at[0] = 0 /\ at[m] = n
      /\ \A k \in 0 .. m : at[k] \in 0 .. n
      /\ \A k \in 1 .. m : at[k - 1] <= at[k]
  BY DEF Cuts
<1>3. \A k \in 0 .. m : f[k] = Until(tokens, at[k])
  OBVIOUS
<1> HIDE DEF f, n, D
<1>4. ASSUME NEW k \in 1 .. m PROVE parts[k] \in D /\ f[k] = f[k - 1] \o parts[k]
  <2> DEFINE i == at[k - 1]
             j == at[k]
  <2>1. k - 1 \in 0 .. m /\ k \in 0 .. m
    OBVIOUS
  <2>2. j \in 0 .. n /\ i \in 0 .. j
    <3>1. i \in 0 .. n /\ j \in 0 .. n /\ i <= j
      BY ONLY <1>2, <2>1, k \in 1 .. m
    <3> HIDE DEF i, j
    <3> QED BY ONLY <1>1, <3>1
  <2>3. parts[k] = Span(tokens, i, j) /\ f[k] = Until(tokens, j) /\ f[k - 1] = Until(tokens, i)
    BY <1>3, <2>1
  <2> HIDE DEF i, j
  <2>4. Until(tokens, j) = Until(tokens, i) \o Span(tokens, i, j) /\ Span(tokens, i, j) \in Seq(S)
    BY <2>2, SpanFollows, ZenonT(40) DEF n
  <2> QED BY ONLY <2>3, <2>4 DEF D
<1>5. parts \in Seq(D)
  <2>1. \A k \in 1 .. m : parts[k] \in D
    BY <1>4
  <2> QED BY ONLY <2>1, m \in Nat, parts = [k \in 1 .. m |-> parts[k]]
<1>6. f[0] = <<>>
  <2>1. 0 \in 0 .. m /\ f[0] = Until(tokens, 0)
    BY ONLY <1>2, <1>3, m \in Nat
  <2> QED BY <2>1, UntilEnds
<1>7. Grows(f, parts)
  BY ONLY <1>4, <1>6, Len(parts) = m DEF Grows
<1>8. FlattenSeq(parts) = f[m]
  <2>1. parts \in Seq(Seq(S))
    BY <1>5 DEF D
  <2>2. FlattenSeq(parts) = f[Len(parts)]
    BY ONLY <1>7, <2>1, FlattenBy
  <2> QED BY ONLY <2>2, Len(parts) = m
<1>9. f[m] = FlattenSeq(tokens)
  <2>1. m \in 0 .. m
    OBVIOUS
  <2>2. f[m] = Until(tokens, n)
    BY ONLY <1>2, <1>3, <2>1
  <2> QED BY <2>2, UntilEnds DEF n
<1> QED BY ONLY <1>5, <1>8, <1>9 DEF D

-----------------------------------------------------------------------------
(* Changes, and the sides that they make. *)

Change(S) == [op : {"equal", "delete", "insert"}, text : Seq(S)]
Given(c, op) == IF c.op \in {"equal", op} THEN c.text ELSE <<>>
TextsOf(changes, op) == [k \in 1 .. Len(changes) |-> Given(changes[k], op)]

LEMMA ChangeTypes ==
    ASSUME NEW S, NEW c \in Change(S)
    PROVE  c.op \in {"equal", "delete", "insert"} /\ c.text \in Seq(S) /\ \A op : Given(c, op) \in Seq(S)
BY DEF Change, Given

LEMMA SideIs ==
    ASSUME NEW changes, NEW op
    PROVE  Side(changes, op) = FlattenSeq(TextsOf(changes, op))
BY DEF Side, TextsOf, Given

LEMMA TextsTypes ==
    ASSUME NEW S, NEW x \in Seq(Change(S)), NEW op
    PROVE  /\ TextsOf(x, op) \in Seq(Seq(S)) /\ Len(TextsOf(x, op)) = Len(x)
           /\ \A k \in 1 .. Len(x) : TextsOf(x, op)[k] = Given(x[k], op)
           /\ Side(x, op) \in Seq(S)
<1> DEFINE D == Seq(S)
           n == Len(x)
           t == [k \in 1 .. n |-> Given(x[k], op)]
           C == Change(S)
<1>1. n \in Nat /\ \A k \in 1 .. n : x[k] \in Change(S)
  <2>1. x \in Seq(C)
    OBVIOUS
  <2> HIDE DEF C
  <2>2. n \in Nat /\ \A k \in 1 .. n : x[k] \in C
    BY <2>1
  <2> QED BY <2>2 DEF C
<1>2. \A k \in 1 .. n : Given(x[k], op) \in D
  BY <1>1, ChangeTypes
<1> HIDE DEF n, D
<1>3. t \in Seq(D) /\ Len(t) = n /\ \A k \in 1 .. n : t[k] = Given(x[k], op)
  BY ONLY <1>1, <1>2
<1>4. TextsOf(x, op) = t
  BY DEF TextsOf, n
<1> HIDE DEF t
<1>5. FlattenSeq(t) \in Seq(S)
  BY <1>3, FlattenType DEF D
<1> QED BY <1>3, <1>4, <1>5, SideIs DEF D, n

LEMMA SideJoin ==
    ASSUME NEW S, NEW x \in Seq(Change(S)), NEW y \in Seq(Change(S)), NEW op
    PROVE  Side(x \o y, op) = Side(x, op) \o Side(y, op)
<1> DEFINE C == Change(S)
           D == Seq(S)
           z == x \o y
           tx == TextsOf(x, op)
           ty == TextsOf(y, op)
           tz == TextsOf(z, op)
           p == tx \o ty
           m == Len(x)
           n == Len(y)
<1>1. /\ z \in Seq(C) /\ Len(z) = m + n /\ m \in Nat /\ n \in Nat
      /\ \A k \in 1 .. m : z[k] = x[k]
      /\ \A k \in m + 1 .. m + n : z[k] = y[k - m]
  <2>1. x \in Seq(C) /\ y \in Seq(C)
    OBVIOUS
  <2> HIDE DEF C
  <2> QED BY <2>1
<1> HIDE DEF z
<1>2. tx \in Seq(D) /\ Len(tx) = m /\ \A k \in 1 .. m : tx[k] = Given(x[k], op)
  BY TextsTypes
<1>3. ty \in Seq(D) /\ Len(ty) = n /\ \A k \in 1 .. n : ty[k] = Given(y[k], op)
  BY TextsTypes
<1>4. tz \in Seq(D) /\ Len(tz) = m + n /\ \A k \in 1 .. m + n : tz[k] = Given(z[k], op)
  BY <1>1, TextsTypes
<1> HIDE DEF tx, ty, tz, m, n, D
<1>5. /\ p \in Seq(D) /\ Len(p) = m + n
      /\ \A k \in 1 .. m : p[k] = tx[k]
      /\ \A k \in m + 1 .. m + n : p[k] = ty[k - m]
  <2>1. /\ p \in Seq(D) /\ Len(p) = Len(tx) + Len(ty)
        /\ \A i \in 1 .. Len(tx) + Len(ty) : p[i] = IF i <= Len(tx) THEN tx[i] ELSE ty[i - Len(tx)]
    BY ONLY <1>2, <1>3, ConcatProperties
  <2> HIDE DEF p
  <2>2. \A k \in 1 .. m + n : p[k] = IF k <= m THEN tx[k] ELSE ty[k - m]
    BY ONLY <1>2, <1>3, <2>1
  <2>3. /\ \A k \in 1 .. m : k \in 1 .. m + n /\ k <= m
        /\ \A k \in m + 1 .. m + n : k \in 1 .. m + n /\ ~(k <= m)
    BY ONLY <1>1
  <2> QED BY ONLY <1>2, <1>3, <2>1, <2>2, <2>3
<1> HIDE DEF p
<1>6. ASSUME NEW k \in 1 .. m + n PROVE p[k] = tz[k]
  <2>1. CASE k \in 1 .. m
    <3>1. p[k] = tx[k] /\ tx[k] = Given(x[k], op) /\ z[k] = x[k] /\ tz[k] = Given(z[k], op)
      BY ONLY <1>1, <1>2, <1>4, <1>5, <2>1, k \in 1 .. m + n
    <3> QED BY ONLY <3>1
  <2>2. CASE k \in m + 1 .. m + n
    <3> DEFINE i == k - m
    <3>1. i \in 1 .. n
      BY ONLY <1>1, <2>2
    <3>2. p[k] = ty[i] /\ z[k] = y[i] /\ tz[k] = Given(z[k], op)
      BY ONLY <1>1, <1>4, <1>5, <2>2, k \in 1 .. m + n
    <3> HIDE DEF i
    <3>3. ty[i] = Given(y[i], op)
      BY ONLY <1>3, <3>1
    <3> QED BY ONLY <3>2, <3>3
  <2>3. k \in 1 .. m \/ k \in m + 1 .. m + n
    BY <1>1
  <2> QED BY <2>1, <2>2, <2>3
<1>7. p = tz
  BY ONLY <1>4, <1>5, <1>6, SeqEqual
<1>8. FlattenSeq(tx \o ty) = FlattenSeq(tx) \o FlattenSeq(ty)
  BY <1>2, <1>3, FlattenJoin DEF D
<1>9. Side(z, op) = FlattenSeq(tz) /\ Side(x, op) = FlattenSeq(tx) /\ Side(y, op) = FlattenSeq(ty)
  BY SideIs DEF tx, ty, tz
<1> QED BY ONLY <1>7, <1>8, <1>9, Zenon DEF p, z

LEMMA SideOne ==
    ASSUME NEW S, NEW c \in Change(S), NEW op
    PROVE  Side(<<c>>, op) = Given(c, op) /\ Side(<<>>, op) = <<>>
<1> DEFINE C == Change(S)
           D == Seq(S)
           one == <<c>>
           g == Given(c, op)
           two == <<g>>
           tt == TextsOf(one, op)
<1>1. one \in Seq(C) /\ Len(one) = 1 /\ one[1] = c
  <2>1. c \in C
    OBVIOUS
  <2> HIDE DEF C
  <2> QED BY <2>1
<1> HIDE DEF one
<1>2. tt \in Seq(D) /\ Len(tt) = 1 /\ tt[1] = g
  <2>1. tt \in Seq(D) /\ Len(tt) = Len(one) /\ \A k \in 1 .. Len(one) : tt[k] = Given(one[k], op)
    BY <1>1, TextsTypes
  <2> HIDE DEF tt, D
  <2> QED BY ONLY <1>1, <2>1
<1>3. g \in D
  BY ChangeTypes
<1> HIDE DEF g, tt
<1>4. two \in Seq(D) /\ Len(two) = 1 /\ two[1] = g
  <2> HIDE DEF D
  <2> QED BY <1>3
<1> HIDE DEF D, two
<1>5. tt = two
  BY ONLY <1>2, <1>4, SeqEqual
<1>6. FlattenSeq(two) = g
  BY <1>3, FlattenOne DEF D, two
<1>7. Side(<<>>, op) = <<>>
  BY DEF Side, FlattenSeq
<1>8. Side(one, op) = FlattenSeq(tt)
  BY SideIs DEF tt
<1> QED BY <1>5, <1>6, <1>7, <1>8 DEF one, g

(* Neighbours differ. *)
Alternating(x) == \A k \in 1 .. Len(x) - 1 : x[k].op # x[k + 1].op

(* A list of changes with one change more. *)
Adds(o, out, c, S) ==
    /\ o \in Seq(Change(S))
    /\ \A op : Side(o, op) = Side(out, op) \o Given(c, op)
    /\ Alternating(out) => Alternating(o)

LEMMA PushChangeKeeps ==
    ASSUME NEW S, NEW out \in Seq(Change(S)), NEW c \in Change(S)
    PROVE  Adds(PushChange(out, c.op, c.text), out, c, S)
<1> DEFINE o == PushChange(out, c.op, c.text)
           C == Change(S)
           one == <<c>>
<1>1. c.op \in {"equal", "delete", "insert"} /\ c.text \in Seq(S) /\ c = [op |-> c.op, text |-> c.text]
  BY DEF Change
<1>2. out \in Seq(C) /\ one \in Seq(C) /\ Len(one) = 1 /\ one[1] = c
  <2>1. c \in C /\ out \in Seq(C)
    OBVIOUS
  <2> HIDE DEF C
  <2> QED BY <2>1
<1>3. CASE ~(out # <<>> /\ Last(out).op = c.op)
  <2> HIDE DEF one
  <2>1. o = out \o one
    <3>1. o = Append(out, c)
      BY <1>1, <1>3 DEF PushChange
    <3> QED BY <3>1, AppendIsConcat DEF one
  <2>2. \A op : Side(out \o one, op) = Side(out, op) \o Side(one, op)
    BY <1>2, SideJoin
  <2>3. \A op : Side(one, op) = Given(c, op)
    BY SideOne DEF one
  <2> DEFINE p == out \o one
             m == Len(out)
  <2>4. /\ p \in Seq(C) /\ Len(p) = m + 1 /\ m \in Nat
        /\ \A k \in 1 .. m : p[k] = out[k]
        /\ p[m + 1] = c
    <3>1. /\ p \in Seq(C) /\ Len(p) = Len(out) + Len(one)
          /\ \A i \in 1 .. Len(out) + Len(one) : p[i] = IF i <= Len(out) THEN out[i] ELSE one[i - Len(out)]
      BY ONLY <1>2, ConcatProperties
    <3>2. m \in Nat
      OBVIOUS
    <3> HIDE DEF p, m
    <3>3. Len(p) = m + 1 /\ \A i \in 1 .. m + 1 : p[i] = IF i <= m THEN out[i] ELSE one[i - m]
      BY ONLY <1>2, <3>1 DEF m
    <3>4. (\A k \in 1 .. m : k \in 1 .. m + 1 /\ k <= m) /\ m + 1 \in 1 .. m + 1 /\ ~(m + 1 <= m) /\ (m + 1) - m = 1
      BY ONLY <3>2
    <3> QED BY ONLY <1>2, <3>1, <3>2, <3>3, <3>4
  <2>5. m = 0 \/ out[m].op # c.op
    BY <1>3 DEF Last
  <2>6. ASSUME Alternating(out) PROVE Alternating(p)
    <3> HIDE DEF p
    <3> SUFFICES ASSUME NEW k \in 1 .. Len(p) - 1 PROVE p[k].op # p[k + 1].op
      BY DEF Alternating
    <3>1. CASE k = m
      <4>1. m # 0 /\ m \in 1 .. m
        BY <2>4, <3>1
      <4>2. p[k] = out[m] /\ p[k + 1] = c
        BY ONLY <2>4, <3>1, <4>1
      <4> QED BY ONLY <2>5, <4>1, <4>2
    <3>2. CASE k # m
      <4>1. k \in 1 .. m - 1 /\ k \in 1 .. m /\ k + 1 \in 1 .. m
        BY <2>4, <3>2
      <4>2. p[k] = out[k] /\ p[k + 1] = out[k + 1]
        BY ONLY <2>4, <4>1
      <4>3. out[k].op # out[k + 1].op
        BY ONLY <2>6, <4>1 DEF Alternating
      <4> QED BY ONLY <4>2, <4>3
    <3> QED BY <3>1, <3>2
  <2> QED BY ONLY <2>1, <2>2, <2>3, <2>4, <2>6, Zenon DEF Adds
<1>4. CASE out # <<>> /\ Last(out).op = c.op
  <2> DEFINE m == Len(out)
             front == SubSeq(out, 1, m - 1)
             last == out[m]
             both == [op |-> c.op, text |-> last.text \o c.text]
  <2>1. m \in Nat \ {0} /\ m \in 1 .. m /\ last \in C
    <3> HIDE DEF C
    <3> QED BY <1>2, <1>4
  <2>2. last.op = c.op /\ last.text \in Seq(S) /\ both \in C
    <3>1. last.op = c.op
      BY <1>4 DEF Last
    <3>2. last.text \in Seq(S)
      BY <2>1, ChangeTypes
    <3> HIDE DEF last
    <3>3. last.text \o c.text \in Seq(S)
      BY ONLY <1>1, <3>2, ConcatProperties
    <3>4. both \in C
      BY ONLY <1>1, <3>3 DEF Change
    <3> QED BY <3>1, <3>2, <3>4
  <2> HIDE DEF C
  <2>3. front \in Seq(C) /\ Len(front) = m - 1 /\ \A k \in 1 .. m - 1 : front[k] = out[k]
    <3>1. m - 1 \in 0 .. Len(out)
      BY <2>1
    <3>2. /\ SubSeq(out, 1, m - 1) \in Seq(C) /\ Len(SubSeq(out, 1, m - 1)) = m - 1
          /\ \A k \in 1 .. m - 1 : SubSeq(out, 1, m - 1)[k] = out[k]
      <4> HIDE DEF m, front, last, both, o, one
      <4> QED BY ONLY <1>2, <3>1, PartsJoin
    <3> QED BY ONLY <3>2
  <2>4. out = front \o <<last>>
    <3>1. SubSeq(out, 1, m) = SubSeq(out, 1, m - 1) \o <<out[m]>>
      <4>1. 1 \in 1 .. m /\ m \in 1 .. m
        BY <2>1
      <4> QED BY <1>2, <4>1, SubSeqRecursiveSecond
    <3> QED BY <1>2, <3>1, SubSeqFull
  <2>5. o = front \o <<both>> /\ o \in Seq(C) /\ Len(o) = m /\ \A k \in 1 .. m : o[k] = IF k = m THEN both ELSE out[k]
    <3>1. o = [out EXCEPT ![m] = both]
      <4>1. o = [out EXCEPT ![Len(out)].text = @ \o c.text]
        BY <1>1, <1>4 DEF PushChange
      <4>2. [out[m] EXCEPT !.text = @ \o c.text] = both
        <5> DEFINE w == last.text \o c.text
        <5>1. last \in [op : {"equal", "delete", "insert"}, text : Seq(S)] /\ last.op = c.op
          BY ONLY <2>1, <2>2 DEF Change, C
        <5> HIDE DEF last, w
        <5>2. [last EXCEPT !.text = w] = [op |-> c.op, text |-> w]
          BY ONLY <5>1
        <5> QED BY ONLY <5>2, Zenon DEF w, last
      <4> QED BY <4>1, <4>2
    <3>2. o \in Seq(C) /\ Len(o) = m /\ \A k \in 1 .. m : o[k] = IF k = m THEN both ELSE out[k]
      <4>1. m \in 1 .. Len(out)
        BY <2>1
      <4> HIDE DEF both, o
      <4> QED BY <1>2, <2>2, <3>1, <4>1, ExceptSeq
    <3> DEFINE p == front \o <<both>>
    <3>3. p \in Seq(C) /\ Len(p) = m /\ \A k \in 1 .. m : p[k] = IF k = m THEN both ELSE out[k]
      <4> HIDE DEF both, front, m
      <4> QED BY <2>1, <2>2, <2>3
    <3> HIDE DEF o, p
    <3>4. o = p
      BY <3>2, <3>3, SeqEqual, ZenonT(40)
    <3> QED BY <3>2, <3>4 DEF p
  <2> HIDE DEF front, last, o
  <2> DEFINE old == <<last>>
             new == <<both>>
  <2>6. old \in Seq(C) /\ new \in Seq(C)
    <3> HIDE DEF both
    <3> QED BY <2>1, <2>2
  <2>7. /\ \A op : Side(old, op) = Given(last, op)
        /\ \A op : Side(new, op) = Given(both, op)
    BY <2>1, <2>2, SideOne DEF C
  <2>8. both.op = c.op /\ both.text = last.text \o c.text
    OBVIOUS
  <2> HIDE DEF old, new, both
  <2>9. /\ \A op : Side(front \o old, op) = Side(front, op) \o Side(old, op)
        /\ \A op : Side(front \o new, op) = Side(front, op) \o Side(new, op)
    <3>1. front \in Seq(Change(S)) /\ old \in Seq(Change(S)) /\ new \in Seq(Change(S))
      BY ONLY <2>3, <2>6 DEF C
    <3>2. \A op : Side(front \o old, op) = Side(front, op) \o Side(old, op)
      BY ONLY <3>1, SideJoin, SMTT(30)
    <3>3. \A op : Side(front \o new, op) = Side(front, op) \o Side(new, op)
      BY ONLY <3>1, SideJoin, SMTT(30)
    <3> QED BY <3>2, <3>3
  <2>10. ASSUME NEW op PROVE Side(o, op) = Side(out, op) \o Given(c, op)
    <3> DEFINE f == Side(front, op)
               g == Given(last, op)
               h == Given(c, op)
    <3>1. Side(o, op) = f \o Given(both, op) /\ Side(out, op) = f \o g
      BY ONLY <2>4, <2>5, <2>7, <2>9, Zenon DEF old, new
    <3>2. f \in Seq(S)
      BY <2>3, TextsTypes DEF C
    <3>3. g \in Seq(S) /\ h \in Seq(S)
      BY <2>1, ChangeTypes DEF C
    <3>4. Given(both, op) = g \o h
      <4>1. CASE c.op \in {"equal", op}
        BY <2>2, <2>8, <4>1 DEF Given
      <4>2. CASE c.op \notin {"equal", op}
        <5>1. Given(both, op) = <<>> /\ g = <<>> /\ h = <<>>
          BY <2>2, <2>8, <4>2 DEF Given
        <5> QED BY ONLY <5>1
      <4> QED BY <4>1, <4>2
    <3> HIDE DEF f, g, h
    <3>5. f \o (g \o h) = (f \o g) \o h
      BY ONLY <3>2, <3>3, ConcatAssociative, SMTT(30)
    <3> QED BY ONLY <3>1, <3>4, <3>5, Zenon DEF h
  <2>11. ASSUME Alternating(out) PROVE Alternating(o)
    <3> SUFFICES ASSUME NEW k \in 1 .. Len(o) - 1 PROVE o[k].op # o[k + 1].op
      BY DEF Alternating
    <3>1. k \in 1 .. m - 1 /\ k \in 1 .. m /\ k + 1 \in 1 .. m /\ k # m
      BY ONLY <2>1, <2>5, k \in 1 .. Len(o) - 1
    <3>2. out[k].op # out[k + 1].op
      BY ONLY <2>11, <3>1 DEF Alternating
    <3>3. o[k] = out[k] /\ o[k + 1] = IF k + 1 = m THEN both ELSE out[k + 1]
      BY ONLY <2>5, <3>1
    <3>4. both.op = out[m].op
      BY ONLY <2>2, <2>8 DEF last
    <3> QED BY ONLY <3>2, <3>3, <3>4
  <2> QED BY ONLY <2>5, <2>10, <2>11, Zenon DEF Adds, C, o
<1> QED BY <1>3, <1>4

(* The same sides, and neighbours that differ. *)
Merges(o, changes, S) ==
    /\ o \in Seq(Change(S)) /\ Alternating(o)
    /\ \A op : Side(o, op) = Side(changes, op)

LEMMA PushChangesKeeps ==
    ASSUME NEW S, NEW changes \in Seq(Change(S))
    PROVE  Merges(PushChanges(changes), changes, S)
<1> DEFINE n == Len(changes)
           C == Change(S)
           D == Seq(C)
           F == [k \in 1 .. n |-> [d \in D |-> PushChange(d, changes[k].op, changes[k].text)]]
           G == [k \in 0 .. n |-> D]
           Next(k, o) == IF k = 0 THEN <<>> ELSE PushChange(o[k - 1], changes[k].op, changes[k].text)
           out[k \in 0 .. n] == IF k = 0 THEN <<>> ELSE PushChange(out[k - 1], changes[k].op, changes[k].text)
           T == {k \in 0 .. n : out[k] \in D /\ Alternating(out[k])}
<1>1. PushChanges(changes) = out[n]
  BY DEF PushChanges
<1>2. n \in Nat /\ \A k \in 1 .. n : changes[k] \in C
  <2>1. changes \in Seq(C)
    OBVIOUS
  <2> HIDE DEF C
  <2> QED BY <2>1
<1>3. \A k \in 1 .. n : \A d \in D : Adds(PushChange(d, changes[k].op, changes[k].text), d, changes[k], S)
  <2> TAKE k \in 1 .. n
  <2> TAKE d \in D
  <2>1. changes[k] \in Change(S) /\ d \in Seq(Change(S))
    BY <1>2
  <2> QED BY ONLY <2>1, PushChangeKeeps
<1> HIDE DEF n
<1>4. <<>> \in G[0] /\ \A k \in 1 .. n : \A d \in G[k - 1] : F[k][d] \in G[k]
  <2>1. <<>> \in G[0]
    BY <1>2
  <2>2. ASSUME NEW k \in 1 .. n, NEW d \in G[k - 1] PROVE F[k][d] \in G[k]
    <3>1. k - 1 \in 0 .. n /\ k \in 0 .. n
      BY <1>2
    <3>2. d \in D
      BY <3>1
    <3>3. PushChange(d, changes[k].op, changes[k].text) \in D
      <4>1. Adds(PushChange(d, changes[k].op, changes[k].text), d, changes[k], S)
        <5> HIDE DEF D
        <5> QED BY <1>3, <3>2
      <4> QED BY <4>1 DEF Adds
    <3> HIDE DEF D
    <3> QED BY <3>1, <3>2, <3>3
  <2> QED BY <2>1, <2>2
<1>5. PICK f : Iterated(n, <<>>, F, f) /\ \A k \in 0 .. n : f[k] \in G[k]
  <2> HIDE DEF F, G
  <2> QED BY <1>2, <1>4, Iterates
<1>6. f = [k \in 0 .. n |-> f[k]] /\ f[0] = <<>> /\ \A k \in 1 .. n : f[k] = F[k][f[k - 1]]
  <2> HIDE DEF F, G
  <2> QED BY <1>5, Zenon DEF Iterated
<1>7. \A k \in 0 .. n : f[k] \in D
  <2> HIDE DEF D
  <2> QED BY <1>5
<1>8. ASSUME NEW k \in 0 .. n PROVE f[k] = Next(k, f)
  <2>1. CASE k = 0
    BY <1>6, <2>1, Zenon
  <2>2. CASE k # 0
    <3>1. k \in 1 .. n /\ k - 1 \in 0 .. n
      BY <1>2, <2>2
    <3>2. f[k] = F[k][f[k - 1]] /\ f[k - 1] \in D
      <4> HIDE DEF F, D
      <4> QED BY <1>6, <1>7, <3>1, Zenon
    <3>3. F[k][f[k - 1]] = PushChange(f[k - 1], changes[k].op, changes[k].text)
      <4> HIDE DEF D
      <4> QED BY <3>1, <3>2, Zenon
    <3> QED BY <2>2, <3>2, <3>3, Zenon
  <2> QED BY <2>1, <2>2
<1>9. f = [k \in 0 .. n |-> Next(k, f)]
  <2> HIDE DEF Next
  <2> QED BY <1>6, <1>8
<1>10. out = [k \in 0 .. n |-> Next(k, out)]
  <2>1. f = [k \in 0 .. n |-> IF k = 0 THEN <<>> ELSE PushChange(f[k - 1], changes[k].op, changes[k].text)]
    BY <1>9, Zenon
  <2>2. out = [k \in 0 .. n |-> IF k = 0 THEN <<>> ELSE PushChange(out[k - 1], changes[k].op, changes[k].text)]
    BY <2>1, Zenon
  <2> HIDE DEF out
  <2> QED BY <2>2, Zenon
<1> HIDE DEF out
<1>11. \A k \in 0 .. n : out[k] = Next(k, out)
  <2> HIDE DEF Next
  <2> QED BY <1>10, Zenon
<1>12. out[0] = <<>> /\ \A k \in 1 .. n : out[k] = PushChange(out[k - 1], changes[k].op, changes[k].text)
  <2>1. 0 \in 0 .. n /\ \A k \in 1 .. n : k \in 0 .. n /\ k # 0
    BY <1>2
  <2> QED BY <1>11, <2>1, Zenon
<1>13. 0 \in T
  <2>1. <<>> \in D /\ Alternating(<<>>) /\ 0 \in 0 .. n
    BY <1>2 DEF Alternating
  <2> HIDE DEF D
  <2> QED BY <1>12, <2>1
<1>14. ASSUME NEW k \in 1 .. n, out[k - 1] \in D
       PROVE  Adds(out[k], out[k - 1], changes[k], S)
  <2> HIDE DEF D
  <2> QED BY <1>3, <1>12, <1>14
<1>15. ASSUME NEW k \in 1 .. n, k - 1 \in T PROVE k \in T
  <2>1. out[k - 1] \in D /\ Alternating(out[k - 1]) /\ k \in 0 .. n
    BY <1>2, <1>15
  <2>2. Adds(out[k], out[k - 1], changes[k], S)
    <3> HIDE DEF D
    <3> QED BY <1>14, <2>1
  <2>3. out[k] \in D /\ Alternating(out[k])
    BY <2>1, <2>2 DEF Adds
  <2> HIDE DEF D
  <2> QED BY <2>1, <2>3
<1>16. \A k \in 0 .. n : k \in T
  <2> HIDE DEF T
  <2> QED BY <1>2, <1>13, <1>15, Counted
<1> HIDE DEF D, C
<1>17. \A k \in 0 .. n : out[k] \in D /\ Alternating(out[k])
  BY <1>16
<1>18. ASSUME NEW op PROVE Side(out[n], op) = Side(changes, op)
  <2> DEFINE h == [k \in 0 .. n |-> Side(out[k], op)]
             t == TextsOf(changes, op)
  <2>1. \A k \in 0 .. n : h[k] = Side(out[k], op)
    OBVIOUS
  <2> HIDE DEF h
  <2>2. t \in Seq(Seq(S)) /\ Len(t) = n /\ \A k \in 1 .. n : t[k] = Given(changes[k], op)
    BY TextsTypes DEF n
  <2> HIDE DEF t
  <2>3. h[0] = <<>>
    <3>1. 0 \in 0 .. n
      BY <1>2
    <3>2. Side(<<>>, op) = <<>>
      BY DEF Side, FlattenSeq
    <3> QED BY <1>12, <2>1, <3>1, <3>2
  <2>4. ASSUME NEW k \in 1 .. n PROVE h[k] = h[k - 1] \o t[k]
    <3>1. k \in 0 .. n /\ k - 1 \in 0 .. n
      BY <1>2
    <3>2. Adds(out[k], out[k - 1], changes[k], S)
      BY <1>14, <1>17, <3>1
    <3>3. Side(out[k], op) = Side(out[k - 1], op) \o Given(changes[k], op)
      BY ONLY <3>2, Zenon DEF Adds
    <3> QED BY ONLY <2>1, <2>2, <3>1, <3>3, k \in 1 .. n
  <2>5. Grows(h, t)
    BY ONLY <2>2, <2>3, <2>4 DEF Grows
  <2>6. FlattenSeq(t) = h[n]
    <3>1. FlattenSeq(t) = h[Len(t)]
      BY ONLY <2>2, <2>5, FlattenBy
    <3> QED BY ONLY <2>2, <3>1
  <2>7. Side(changes, op) = FlattenSeq(t)
    BY SideIs DEF t
  <2>8. n \in 0 .. n
    BY <1>2
  <2> QED BY ONLY <2>1, <2>6, <2>7, <2>8
<1>19. n \in 0 .. n
  BY <1>2
<1>20. out[n] \in D /\ Alternating(out[n])
  BY <1>17, <1>19
<1> QED BY ONLY <1>1, <1>18, <1>20, Zenon DEF Merges, D, C

(* Changes that make the one text from the other. *)
Faithful(changes, old, new, S) ==
    /\ changes \in Seq(Change(S))
    /\ Side(changes, "delete") = old /\ Side(changes, "insert") = new

LEMMA PushedFaithful ==
    ASSUME NEW S, NEW changes, NEW old, NEW new, Faithful(changes, old, new, S)
    PROVE  Faithful(PushChanges(changes), old, new, S) /\ Alternating(PushChanges(changes))
<1>1. Merges(PushChanges(changes), changes, S)
  BY PushChangesKeeps DEF Faithful
<1> QED BY <1>1 DEF Merges, Faithful

(* The sides of lists in a row. *)
LEMMA SideFlat ==
    ASSUME NEW S, NEW lists \in Seq(Seq(Change(S))), NEW op, NEW sides,
           sides \in Seq(Seq(S)), Len(sides) = Len(lists), \A k \in 1 .. Len(lists) : sides[k] = Side(lists[k], op)
    PROVE  FlattenSeq(lists) \in Seq(Change(S)) /\ Side(FlattenSeq(lists), op) = FlattenSeq(sides)
<1> DEFINE n == Len(lists)
           C == Change(S)
           D == Seq(C)
<1>1. n \in Nat /\ \A k \in 1 .. n : lists[k] \in D
  <2>1. lists \in Seq(D)
    OBVIOUS
  <2> HIDE DEF D
  <2> QED BY <2>1
<1> HIDE DEF C
<1>2. PICK f : Grows(f, lists)
  BY FlattenSteps DEF C
<1>3. FlattenSeq(lists) = f[n] /\ \A k \in 0 .. n : f[k] \in D
  BY <1>2, FlattenBy DEF C
<1>4. f[0] = <<>> /\ \A k \in 1 .. n : f[k] = f[k - 1] \o lists[k]
  BY <1>2 DEF Grows
<1> DEFINE h == [k \in 0 .. n |-> Side(f[k], op)]
<1>5. \A k \in 0 .. n : h[k] = Side(f[k], op)
  OBVIOUS
<1>6. \A k \in 1 .. n : sides[k] = Side(lists[k], op)
  OBVIOUS
<1>7. Len(sides) = n
  OBVIOUS
<1> HIDE DEF h, n
<1>8. ASSUME NEW k \in 1 .. n PROVE h[k] = h[k - 1] \o sides[k]
  <2>1. k \in 0 .. n /\ k - 1 \in 0 .. n
    BY <1>1
  <2> DEFINE x == f[k - 1]
             y == lists[k]
  <2>2. x \in D /\ y \in D /\ f[k] = x \o y
    BY ONLY <1>1, <1>3, <1>4, <2>1, k \in 1 .. n
  <2> HIDE DEF x, y
  <2>3. Side(x \o y, op) = Side(x, op) \o Side(y, op)
    BY ONLY <2>2, SideJoin DEF C
  <2>4. h[k] = Side(x \o y, op) /\ h[k - 1] = Side(x, op) /\ sides[k] = Side(y, op)
    BY ONLY <1>5, <1>6, <2>1, <2>2, k \in 1 .. n DEF x, y
  <2> QED BY ONLY <2>3, <2>4
<1>9. h[0] = <<>>
  <2>1. 0 \in 0 .. n
    BY <1>1
  <2>2. Side(<<>>, op) = <<>>
    BY ONLY TRUE DEF Side, FlattenSeq
  <2> QED BY <1>4, <1>5, <2>1, <2>2
<1>10. Grows(h, sides)
  BY ONLY <1>7, <1>8, <1>9 DEF Grows
<1>11. FlattenSeq(sides) = h[n]
  <2>1. FlattenSeq(sides) = h[Len(sides)]
    BY ONLY sides \in Seq(Seq(S)), <1>10, FlattenBy
  <2> QED BY ONLY <1>7, <2>1
<1>12. n \in 0 .. n
  BY <1>1
<1>13. h[n] = Side(f[n], op) /\ f[n] \in D
  BY <1>3, <1>5, <1>12
<1> QED BY ONLY <1>3, <1>11, <1>13, Zenon DEF D, C

-----------------------------------------------------------------------------
(* What the runs of a script cover. *)

(* The cursor of a side never moves back, from the start to the end. *)
Cursor(ops, op) == [k \in 0 .. Len(ops) |-> Consumed(ops, op, k)]

Rises(c, n, total) ==
    /\ c[0] = 0 /\ c[n] = total
    /\ \A k \in 0 .. n : c[k] \in 0 .. total
    /\ \A j \in 0 .. n : \A i \in 0 .. j : c[i] <= c[j]

LEMMA CursorsRise ==
    ASSUME NEW ops \in Seq(Run), NEW op
    PROVE  Rises(Cursor(ops, op), Len(ops), Total(ops, op))
<1> DEFINE n == Len(ops)
           c == Cursor(ops, op)
           T == {j \in 0 .. n : \A i \in 0 .. j : c[i] <= c[j]}
<1>1. n \in Nat /\ n \in 0 .. n /\ 0 \in 0 .. n
  BY RunTypes
<1>2. /\ \A k \in 0 .. n : Consumed(ops, op, k) \in Nat
      /\ Consumed(ops, op, 0) = 0
      /\ \A k \in 1 .. n : Consumed(ops, op, k) = Consumed(ops, op, k - 1) + Width(ops[k], op)
  BY RunTypes, CursorSteps
<1>3. \A k \in 1 .. n : Width(ops[k], op) \in Nat
  BY RunTypes DEF Width
<1>4. \A k \in 0 .. n : c[k] = Consumed(ops, op, k)
  BY DEF Cursor
<1>5. c[n] = Total(ops, op)
  BY <1>1, <1>4 DEF Total
<1> HIDE DEF n, c
<1>6. c[0] = 0 /\ \A k \in 0 .. n : c[k] \in Nat
  BY <1>1, <1>2, <1>4
<1>7. 0 \in T
  BY <1>1, <1>6
<1>8. ASSUME NEW k \in 1 .. n, k - 1 \in T PROVE k \in T
  <2>1. k \in 0 .. n /\ k - 1 \in 0 .. n
    BY <1>1
  <2>2. c[k] = c[k - 1] + Width(ops[k], op) /\ c[k] \in Nat /\ c[k - 1] \in Nat /\ Width(ops[k], op) \in Nat
    BY <1>2, <1>3, <1>4, <1>6, <2>1
  <2>3. c[k - 1] <= c[k]
    BY ONLY <2>2
  <2>4. ASSUME NEW i \in 0 .. k PROVE c[i] <= c[k]
    <3>1. CASE i = k
      BY <2>2, <3>1
    <3>2. CASE i # k
      <4>1. i \in 0 .. k - 1 /\ i \in 0 .. n
        BY <1>1, <3>2
      <4>2. c[i] <= c[k - 1] /\ c[i] \in Nat
        BY <1>6, <1>8, <4>1
      <4> QED BY ONLY <2>2, <2>3, <4>2
    <3> QED BY <3>1, <3>2
  <2> QED BY <2>1, <2>4
<1>9. \A j \in 0 .. n : j \in T
  <2> HIDE DEF T
  <2> QED BY <1>1, <1>7, <1>8, Counted
<1>10. \A j \in 0 .. n : \A i \in 0 .. j : c[i] <= c[j]
  BY <1>9
<1>11. \A k \in 0 .. n : c[k] \in 0 .. c[n]
  <2> TAKE k \in 0 .. n
  <2>1. k \in 0 .. n /\ n \in 0 .. n
    BY <1>1
  <2> QED BY <1>6, <1>10, <2>1
<1> QED BY ONLY <1>5, <1>6, <1>10, <1>11, Zenon DEF Rises, c, n

(* What the runs cover of a side, cut at runs, is the side. *)
Shares(parts, tokens, ops, op, m, e) ==
    /\ Len(parts) = m /\ parts = [k \in 1 .. m |-> parts[k]]
    /\ \A k \in 1 .. m : parts[k] = Covered(tokens, ops, op, e[k - 1], e[k])

LEMMA CoveredParts ==
    ASSUME NEW S, NEW tokens \in Seq(Seq(S)), NEW ops \in Seq(Run), NEW op, Total(ops, op) = Len(tokens),
           NEW m \in Nat, NEW e, Cuts(e, m, Len(ops)), NEW parts, Shares(parts, tokens, ops, op, m, e)
    PROVE  parts \in Seq(Seq(S)) /\ FlattenSeq(parts) = FlattenSeq(tokens)
<1> DEFINE n == Len(ops)
           c == Cursor(ops, op)
           at == [k \in 0 .. m |-> c[e[k]]]
<1>1. n \in Nat
  BY RunTypes
<1>2. Rises(c, n, Len(tokens))
  BY CursorsRise
<1>3. \A k \in 0 .. n : c[k] = Consumed(ops, op, k)
  BY DEF Cursor
<1>4. \A k \in 0 .. m : at[k] = c[e[k]]
  OBVIOUS
<1>5. /\ e[0] = 0 /\ e[m] = n
      /\ \A k \in 0 .. m : e[k] \in 0 .. n
      /\ \A k \in 1 .. m : e[k - 1] <= e[k]
  BY DEF Cuts
<1> HIDE DEF n, c, at
<1>6. Cuts(at, m, Len(tokens))
  <2>1. 0 \in 0 .. m /\ m \in 0 .. m
    OBVIOUS
  <2>2. at[0] = 0 /\ at[m] = Len(tokens)
    BY ONLY <1>2, <1>4, <1>5, <2>1 DEF Rises
  <2>3. \A k \in 0 .. m : at[k] \in 0 .. Len(tokens)
    BY ONLY <1>2, <1>4, <1>5 DEF Rises
  <2>4. ASSUME NEW k \in 1 .. m PROVE at[k - 1] <= at[k]
    <3> DEFINE i == e[k - 1]
               j == e[k]
    <3>1. k - 1 \in 0 .. m /\ k \in 0 .. m
      OBVIOUS
    <3>2. i \in 0 .. n /\ j \in 0 .. n /\ i <= j /\ at[k - 1] = c[i] /\ at[k] = c[j]
      BY ONLY <1>4, <1>5, <3>1, k \in 1 .. m
    <3> HIDE DEF i, j
    <3>3. i \in 0 .. j
      BY ONLY <1>1, <3>2
    <3> QED BY ONLY <1>2, <3>2, <3>3 DEF Rises
  <2> QED BY ONLY <2>2, <2>3, <2>4 DEF Cuts
<1>7. ASSUME NEW k \in 1 .. m PROVE parts[k] = Span(tokens, at[k - 1], at[k])
  <2> DEFINE i == e[k - 1]
             j == e[k]
  <2>1. k - 1 \in 0 .. m /\ k \in 0 .. m
    OBVIOUS
  <2>2. i \in 0 .. n /\ j \in 0 .. n /\ at[k - 1] = c[i] /\ at[k] = c[j]
    BY ONLY <1>4, <1>5, <2>1
  <2>3. parts[k] = Covered(tokens, ops, op, i, j)
    BY DEF Shares
  <2> HIDE DEF i, j
  <2>4. c[i] = Consumed(ops, op, i) /\ c[j] = Consumed(ops, op, j)
    BY ONLY <1>3, <2>2
  <2>5. Covered(tokens, ops, op, i, j) = Span(tokens, Consumed(ops, op, i), Consumed(ops, op, j))
    BY DEF Covered, Span
  <2> QED BY ONLY <2>2, <2>3, <2>4, <2>5
<1>8. Len(parts) = m /\ parts = [k \in 1 .. m |-> parts[k]]
  BY DEF Shares
<1> QED BY <1>6, <1>7, <1>8, SpansCover

LEMMA PartAt ==
    ASSUME NEW E, NEW u \in Seq(E), NEW j \in 0 .. Len(u), NEW i \in 0 .. j
    PROVE  /\ SubSeq(u, i + 1, j) \in Seq(E) /\ Len(SubSeq(u, i + 1, j)) = j - i
           /\ \A m \in 1 .. j - i : SubSeq(u, i + 1, j)[m] = u[i + m]
<1>1. SubSeq(u, i + 1, j) \in Seq(E) /\ Len(SubSeq(u, i + 1, j)) = j - i
  BY PartsFollow
<1>2. ASSUME NEW m \in 1 .. j - i PROVE SubSeq(u, i + 1, j)[m] = u[i + m]
  OBVIOUS
<1> QED BY <1>1, <1>2

(* What a run covers of the two sides. *)
RunSides(op, x, y) ==
    /\ op = "insert" => x = <<>>
    /\ op = "delete" => y = <<>>
    /\ op = "equal" => x = y

LEMMA RunCovers ==
    ASSUME NEW S, NEW a \in Seq(Seq(S)), NEW b \in Seq(Seq(S)), NEW ops, Aligned(ops, a, b),
           NEW k \in 1 .. Len(ops)
    PROVE  /\ Covered(a, ops, "delete", k - 1, k) \in Seq(S) /\ Covered(b, ops, "insert", k - 1, k) \in Seq(S)
           /\ RunSides(ops[k].op, Covered(a, ops, "delete", k - 1, k), Covered(b, ops, "insert", k - 1, k))
<1> DEFINE r == ops[k]
           i == Consumed(ops, "delete", k - 1)
           ii == Consumed(ops, "delete", k)
           j == Consumed(ops, "insert", k - 1)
           jj == Consumed(ops, "insert", k)
           x == SubSeq(a, i + 1, ii)
           y == SubSeq(b, j + 1, jj)
           D == Seq(S)
<1>1. ops \in Seq(Run) /\ Total(ops, "delete") = Len(a) /\ Total(ops, "insert") = Len(b) /\ Agree(ops, a, b)
  BY DEF Aligned
<1>2. Len(ops) \in Nat /\ r.n \in Nat /\ r.op \in {"equal", "delete", "insert"}
      /\ \A m \in 1 .. Len(ops) : ops[m].n \in Nat
  BY <1>1, RunTypes
<1>3. k \in 0 .. Len(ops) /\ k - 1 \in 0 .. Len(ops) /\ k - 1 \in 0 .. k
  BY <1>2
<1>4. /\ ii = i + Width(r, "delete") /\ jj = j + Width(r, "insert")
      /\ i \in Nat /\ j \in Nat /\ ii \in Nat /\ jj \in Nat
  BY <1>2, <1>3, CursorSteps
<1>5. ii <= Len(a) /\ jj <= Len(b)
  <2>1. /\ Cursor(ops, "delete")[k] \in 0 .. Len(a) /\ Cursor(ops, "delete")[k] = ii
        /\ Cursor(ops, "insert")[k] \in 0 .. Len(b) /\ Cursor(ops, "insert")[k] = jj
    <3>1. Rises(Cursor(ops, "delete"), Len(ops), Len(a)) /\ Rises(Cursor(ops, "insert"), Len(ops), Len(b))
      BY <1>1, CursorsRise
    <3>2. Cursor(ops, "delete")[k] = ii /\ Cursor(ops, "insert")[k] = jj
      BY ONLY <1>3 DEF Cursor
    <3> QED BY ONLY <1>3, <3>1, <3>2 DEF Rises
  <2> HIDE DEF ii, jj
  <2> QED BY ONLY <2>1
<1>6. Fits(r, i, j, a, b)
  BY <1>1 DEF Agree
<1>7. Covered(a, ops, "delete", k - 1, k) = FlattenSeq(x) /\ Covered(b, ops, "insert", k - 1, k) = FlattenSeq(y)
  BY DEF Covered
<1>8. a \in Seq(D) /\ b \in Seq(D) /\ Len(a) \in Nat /\ Len(b) \in Nat
  OBVIOUS
<1> HIDE DEF i, ii, j, jj, r, D
<1>9. x \in Seq(D) /\ Len(x) = ii - i /\ \A m \in 1 .. ii - i : x[m] = a[i + m]
  <2>1. i \in 0 .. ii /\ ii \in 0 .. Len(a)
    <3>1. Width(r, "delete") \in Nat
      BY <1>2 DEF Width
    <3> QED BY ONLY <1>4, <1>5, <1>8, <3>1
  <2> QED BY ONLY <1>8, <2>1, PartAt DEF x
<1>10. y \in Seq(D) /\ Len(y) = jj - j /\ \A m \in 1 .. jj - j : y[m] = b[j + m]
  <2>1. j \in 0 .. jj /\ jj \in 0 .. Len(b)
    <3>1. Width(r, "insert") \in Nat
      BY <1>2 DEF Width
    <3> QED BY ONLY <1>4, <1>5, <1>8, <3>1
  <2> QED BY ONLY <1>8, <2>1, PartAt DEF y
<1> HIDE DEF x, y
<1>11. FlattenSeq(x) \in Seq(S) /\ FlattenSeq(y) \in Seq(S)
  BY <1>9, <1>10, FlattenType DEF D
<1>12. FlattenSeq(<<>>) = <<>>
  BY ONLY TRUE DEF FlattenSeq
<1>13. ASSUME r.op = "insert" PROVE x = <<>>
  <2>1. ii = i
    BY <1>4, <1>13 DEF Width
  <2>2. Len(x) = 0
    BY ONLY <1>4, <1>9, <2>1
  <2> QED BY ONLY <1>9, <2>2, EmptySeq
<1>14. ASSUME r.op = "delete" PROVE y = <<>>
  <2>1. jj = j
    BY <1>4, <1>14 DEF Width
  <2>2. Len(y) = 0
    BY ONLY <1>4, <1>10, <2>1
  <2> QED BY ONLY <1>10, <2>2, EmptySeq
<1>15. ASSUME r.op = "equal" PROVE x = y
  <2>1. ii - i = r.n /\ jj - j = r.n
    BY <1>2, <1>4, <1>15 DEF Width
  <2>2. \A m \in 1 .. r.n : a[i + m] = b[j + m]
    BY <1>6, <1>15 DEF Fits
  <2>3. Len(x) = r.n /\ Len(y) = r.n /\ \A m \in 1 .. r.n : x[m] = y[m]
    BY ONLY <1>9, <1>10, <2>1, <2>2
  <2> QED BY ONLY <1>9, <1>10, <2>3, SeqEqual
<1> QED BY ONLY <1>7, <1>11, <1>12, <1>13, <1>14, <1>15 DEF RunSides, r

(* The change that a run is, from what it covers. *)
LEMMA RunGives ==
    ASSUME NEW S, NEW op \in {"equal", "delete", "insert"}, NEW x \in Seq(S), NEW y \in Seq(S), RunSides(op, x, y)
    PROVE  LET c == [op |-> op, text |-> IF op = "insert" THEN y ELSE x]
           IN  c \in Change(S) /\ Given(c, "delete") = x /\ Given(c, "insert") = y
<1> DEFINE t == IF op = "insert" THEN y ELSE x
           c == [op |-> op, text |-> t]
<1>1. t \in Seq(S)
  OBVIOUS
<1>2. c.op = op /\ c.text = t
  OBVIOUS
<1>3. c \in Change(S)
  <2> HIDE DEF t
  <2> QED BY <1>1 DEF Change
<1> HIDE DEF c
<1>7. Given(c, "delete") = x /\ Given(c, "insert") = y
  <2>1. CASE op = "equal"
    BY <1>2, <2>1 DEF Given, RunSides
  <2>2. CASE op = "delete"
    BY <1>2, <2>2 DEF Given, RunSides
  <2>3. CASE op = "insert"
    BY <1>2, <2>3 DEF Given, RunSides
  <2> QED BY <2>1, <2>2, <2>3
<1> QED BY ONLY <1>3, <1>7 DEF c

LEMMA FunctionIsSeq ==
    ASSUME NEW C, NEW n \in Nat, NEW s, s = [k \in 1 .. n |-> s[k]], \A k \in 1 .. n : s[k] \in C
    PROVE  s \in Seq(C) /\ Len(s) = n
OBVIOUS

LEMMA RunTextsFaithful ==
    ASSUME NEW S, NEW a \in Seq(Seq(S)), NEW b \in Seq(Seq(S)), NEW ops, Aligned(ops, a, b)
    PROVE  Faithful(RunTexts(a, b, ops), FlattenSeq(a), FlattenSeq(b), S)
<1> DEFINE n == Len(ops)
           x(k) == Covered(a, ops, "delete", k - 1, k)
           y(k) == Covered(b, ops, "insert", k - 1, k)
           c(k) == [op |-> ops[k].op, text |-> IF ops[k].op = "insert" THEN y(k) ELSE x(k)]
           changes == RunTexts(a, b, ops)
           C == Change(S)
           e == [k \in 0 .. n |-> k]
           dels == TextsOf(changes, "delete")
           inss == TextsOf(changes, "insert")
<1>1. ops \in Seq(Run) /\ Total(ops, "delete") = Len(a) /\ Total(ops, "insert") = Len(b)
  BY DEF Aligned
<1>2. n \in Nat /\ \A k \in 1 .. n : ops[k].op \in {"equal", "delete", "insert"}
  BY <1>1, RunTypes
<1>3. changes = [k \in 1 .. n |-> c(k)]
  BY DEF RunTexts
<1>4. ASSUME NEW k \in 1 .. n
      PROVE  c(k) \in C /\ Given(c(k), "delete") = x(k) /\ Given(c(k), "insert") = y(k)
  <2>1. x(k) \in Seq(S) /\ y(k) \in Seq(S) /\ RunSides(ops[k].op, x(k), y(k))
    BY RunCovers
  <2>2. ops[k].op \in {"equal", "delete", "insert"}
    BY <1>2
  <2> HIDE DEF x, y
  <2> QED BY ONLY <2>1, <2>2, RunGives DEF C
<1> HIDE DEF c, C, n, changes
<1>5. changes \in Seq(C) /\ Len(changes) = n /\ \A k \in 1 .. n : changes[k] = c(k)
  <2>1. \A k \in 1 .. n : changes[k] = c(k)
    BY ONLY <1>3, Zenon
  <2>2. \A k \in 1 .. n : changes[k] \in C
    BY ONLY <1>4, <2>1, Zenon
  <2>3. changes = [k \in 1 .. n |-> changes[k]]
    BY ONLY <1>3, Zenon
  <2>4. n \in Nat
    BY <1>2
  <2>5. changes \in Seq(C) /\ Len(changes) = n
    BY ONLY <2>2, <2>3, <2>4, FunctionIsSeq
  <2> QED BY <2>1, <2>5
<1>6. e[0] = 0 /\ e[n] = n /\ \A k \in 0 .. n : e[k] = k
  BY <1>2
<1>7. Cuts(e, n, n)
  <2>1. \A k \in 1 .. n : k - 1 \in 0 .. n /\ k \in 0 .. n
    BY <1>2
  <2> HIDE DEF e
  <2> QED BY <1>2, <1>6, <2>1 DEF Cuts
<1>8. \A k \in 1 .. n : e[k - 1] = k - 1 /\ e[k] = k
  BY <1>2
<1> HIDE DEF e
<1>9. \A op : /\ TextsOf(changes, op) = [k \in 1 .. n |-> Given(changes[k], op)]
              /\ Side(changes, op) = FlattenSeq(TextsOf(changes, op))
  BY <1>5, SideIs DEF TextsOf
<1>10. Side(changes, "delete") = FlattenSeq(a)
  <2>1. dels = [k \in 1 .. n |-> dels[k]] /\ Len(dels) = n
    BY <1>2, <1>9
  <2>2. \A k \in 1 .. n : dels[k] = Covered(a, ops, "delete", e[k - 1], e[k])
    <3> TAKE k \in 1 .. n
    <3>1. dels[k] = Given(changes[k], "delete") /\ changes[k] = c(k)
      BY <1>5, <1>9
    <3> QED BY ONLY <1>4, <1>8, <3>1, k \in 1 .. n
  <2> HIDE DEF dels
  <2>3. Shares(dels, a, ops, "delete", n, e)
    BY ONLY <2>1, <2>2 DEF Shares
  <2>4. FlattenSeq(dels) = FlattenSeq(a)
    BY <1>1, <1>2, <1>7, <2>3, CoveredParts DEF n
  <2> QED BY <1>9, <2>4 DEF dels
<1>11. Side(changes, "insert") = FlattenSeq(b)
  <2>1. inss = [k \in 1 .. n |-> inss[k]] /\ Len(inss) = n
    BY <1>2, <1>9
  <2>2. \A k \in 1 .. n : inss[k] = Covered(b, ops, "insert", e[k - 1], e[k])
    <3> TAKE k \in 1 .. n
    <3>1. inss[k] = Given(changes[k], "insert") /\ changes[k] = c(k)
      BY <1>5, <1>9
    <3> QED BY ONLY <1>4, <1>8, <3>1, k \in 1 .. n
  <2> HIDE DEF inss
  <2>3. Shares(inss, b, ops, "insert", n, e)
    BY ONLY <2>1, <2>2 DEF Shares
  <2>4. FlattenSeq(inss) = FlattenSeq(b)
    BY <1>1, <1>2, <1>7, <2>3, CoveredParts DEF n
  <2> QED BY <1>9, <2>4 DEF inss
<1> QED BY ONLY <1>5, <1>10, <1>11 DEF Faithful, C, changes

LEMMA CharsSplit ==
    ASSUME NEW S, NEW t \in Seq(S)
    PROVE  SplitChars(t) \in Seq(Seq(S)) /\ FlattenSeq(SplitChars(t)) = t /\ Len(SplitChars(t)) = Len(t)
<1> DEFINE n == Len(t)
           parts == SplitChars(t)
           at == [k \in 0 .. n |-> k]
<1>1. n \in Nat
  OBVIOUS
<1>2. parts = [k \in 1 .. n |-> <<t[k]>>]
  BY DEF SplitChars
<1> HIDE DEF parts, n
<1>3. parts = [k \in 1 .. n |-> parts[k]] /\ Len(parts) = n /\ \A k \in 1 .. n : parts[k] = <<t[k]>>
  BY <1>1, <1>2
<1>4. Cuts(at, n, n) /\ \A k \in 1 .. n : at[k - 1] = k - 1 /\ at[k] = k
  <2>1. \A k \in 1 .. n : k - 1 \in 0 .. n /\ k \in 0 .. n /\ k - 1 <= k
    BY <1>1
  <2>2. 0 \in 0 .. n /\ n \in 0 .. n /\ \A k \in 0 .. n : at[k] = k
    BY <1>1
  <2> HIDE DEF at
  <2> QED BY <2>1, <2>2 DEF Cuts
<1> HIDE DEF at
<1>5. ASSUME NEW k \in 1 .. n PROVE parts[k] = SubSeq(t, at[k - 1] + 1, at[k])
  <2>1. SubSeq(t, k, k) = <<t[k]>>
    <3>1. k \in 1 .. Len(t)
      BY DEF n
    <3>2. k \in Int /\ \A i \in k .. k : t[i] \in S
      BY <3>1
    <3> DEFINE u == SubSeq(t, k, k)
               v == <<t[k]>>
               y == t[k]
    <3>3. u \in Seq(S) /\ Len(u) = 1 /\ u[1] = y
      <4>1. /\ u \in Seq(S) /\ Len(u) = IF k <= k THEN k - k + 1 ELSE 0
            /\ \A i \in 1 .. k - k + 1 : u[i] = t[k + i - 1]
        BY <3>2, SubSeqProperties
      <4>2. 1 \in 1 .. k - k + 1 /\ k + 1 - 1 = k /\ k <= k /\ k - k + 1 = 1
        BY <3>2
      <4> HIDE DEF u
      <4> QED BY ONLY <4>1, <4>2
    <3>4. y \in S
      BY <3>1
    <3> HIDE DEF u, y
    <3>5. v \in Seq(S) /\ Len(v) = 1 /\ v[1] = y
      BY <3>4 DEF y
    <3> HIDE DEF v
    <3>6. u = v
      BY ONLY <3>3, <3>5, SeqEqual
    <3> QED BY <3>6 DEF u, v
  <2>2. at[k - 1] + 1 = k /\ at[k] = k
    BY <1>1, <1>4
  <2> QED BY ONLY <1>3, <2>1, <2>2
<1>6. parts \in Seq(Seq(S)) /\ FlattenSeq(parts) = t
  BY <1>1, <1>3, <1>4, <1>5, PartsMake DEF n
<1> QED BY ONLY <1>3, <1>6 DEF parts, n

LEMMA OnlyChange ==
    ASSUME NEW S, NEW op \in {"equal", "delete", "insert"}, NEW t \in Seq(S)
    PROVE  LET c == [op |-> op, text |-> t]
           IN  c \in Change(S) /\ <<c>> \in Seq(Change(S)) /\ \A side : Side(<<c>>, side) = IF op \in {"equal", side} THEN t ELSE <<>>
<1> DEFINE C == Change(S)
           c == [op |-> op, text |-> t]
<1>1. c \in C /\ c.op = op /\ c.text = t
  BY DEF Change
<1> HIDE DEF c
<1>2. \A side : Side(<<c>>, side) = Given(c, side)
  BY <1>1, SideOne
<1>3. \A side : Given(c, side) = IF op \in {"equal", side} THEN t ELSE <<>>
  BY <1>1 DEF Given
<1> HIDE DEF C
<1>4. <<c>> \in Seq(C)
  BY <1>1
<1> QED BY ONLY <1>1, <1>2, <1>3, <1>4 DEF C, c

(* refine_chars makes the one text from the other. *)
LEMMA RefineFaithful ==
    ASSUME NEW S, NEW old \in Seq(S), NEW new \in Seq(S)
    PROVE  Faithful(RefineChars(old, new, S), old, new, S)
<1>1. CASE old = <<>>
  <2> DEFINE c == [op |-> "insert", text |-> new]
  <2>1. RefineChars(old, new, S) = <<c>>
    BY <1>1 DEF RefineChars
  <2>2. <<c>> \in Seq(Change(S)) /\ Side(<<c>>, "delete") = <<>> /\ Side(<<c>>, "insert") = new
    BY OnlyChange
  <2> HIDE DEF c
  <2> QED BY ONLY <1>1, <2>1, <2>2 DEF Faithful
<1>2. CASE old # <<>> /\ new = <<>>
  <2> DEFINE c == [op |-> "delete", text |-> old]
  <2>1. RefineChars(old, new, S) = <<c>>
    BY <1>2 DEF RefineChars
  <2>2. <<c>> \in Seq(Change(S)) /\ Side(<<c>>, "delete") = old /\ Side(<<c>>, "insert") = <<>>
    BY OnlyChange
  <2> HIDE DEF c
  <2> QED BY ONLY <1>2, <2>1, <2>2 DEF Faithful
<1>3. CASE old # <<>> /\ new # <<>>
  <2> DEFINE a == SplitChars(old)
             b == SplitChars(new)
             ops == DiffSeq(a, b, Seq(S))
  <2>1. a \in Seq(Seq(S)) /\ FlattenSeq(a) = old /\ b \in Seq(Seq(S)) /\ FlattenSeq(b) = new
    BY CharsSplit
  <2>2. RefineChars(old, new, S) = PushChanges(RunTexts(a, b, ops))
    BY <1>3 DEF RefineChars
  <2> HIDE DEF a, b
  <2>3. Aligned(ops, a, b)
    BY <2>1, DiffSeqSolved DEF Solved
  <2> HIDE DEF ops
  <2>4. Faithful(RunTexts(a, b, ops), FlattenSeq(a), FlattenSeq(b), S)
    BY <2>1, <2>3, RunTextsFaithful
  <2>5. Faithful(PushChanges(RunTexts(a, b, ops)), old, new, S)
    <3>1. Faithful(RunTexts(a, b, ops), old, new, S)
      BY ONLY <2>1, <2>4
    <3> QED BY ONLY <3>1, PushedFaithful
  <2> QED BY ONLY <2>2, <2>5
<1> QED BY <1>1, <1>2, <1>3

-----------------------------------------------------------------------------
(* Parts and groups, in order. *)

LEMMA NthIs ==
    ASSUME NEW n \in Nat, NEW places \in SUBSET (1 .. n), NEW k \in 1 .. Cardinality(places)
    PROVE  Nth(places, k) \in places /\ Rank(places, Nth(places, k)) = k
<1>1. \E i \in places : Cardinality(places \cap (1 .. i)) = k
  BY RanksReach DEF Rank
<1>2. k # 0
  BY Ranks
<1>3. Nth(places, k) = CHOOSE i \in places : Cardinality(places \cap (1 .. i)) = k
  BY <1>2 DEF Nth
<1> DEFINE p == CHOOSE i \in places : Cardinality(places \cap (1 .. i)) = k
<1>4. p \in places /\ Cardinality(places \cap (1 .. p)) = k
  BY <1>1, Zenon
<1> QED BY ONLY <1>3, <1>4, Zenon DEF Rank

(* The places in their order: nothing of the set lies between two of them. *)
InOrder(at, places, m, n) ==
    /\ m \in Nat /\ at[0] = 0
    /\ \A k \in 0 .. m : at[k] \in 0 .. n
    /\ \A k \in 1 .. m : at[k] \in places /\ at[k - 1] < at[k]
    /\ \A k \in 1 .. m : \A i \in places : i <= at[k - 1] \/ at[k] <= i
    /\ \A i \in places : i <= at[m]

Ordered(places) == [k \in 0 .. Cardinality(places) |-> Nth(places, k)]

LEMMA NthInOrder ==
    ASSUME NEW n \in Nat, NEW places \in SUBSET (1 .. n)
    PROVE  InOrder(Ordered(places), places, Cardinality(places), n)
<1> DEFINE m == Cardinality(places)
           at == Ordered(places)
           R(i) == Rank(places, i)
<1>1. /\ \A i \in 0 .. n : R(i) \in Nat
      /\ R(0) = 0 /\ R(n) = m
      /\ \A i \in 0 .. n, j \in places : i < j => R(i) < R(j)
  BY Ranks
<1>2. m \in Nat
  BY <1>1
<1>3. \A k \in 0 .. m : at[k] = Nth(places, k)
  BY DEF Ordered
<1>4. ASSUME NEW k \in 1 .. m PROVE at[k] \in places /\ R(at[k]) = k
  <2>1. k \in 0 .. m
    BY <1>2
  <2>2. Nth(places, k) \in places /\ R(Nth(places, k)) = k
    BY NthIs
  <2> QED BY ONLY <1>3, <2>1, <2>2
<1>5. at[0] = 0
  <2>1. 0 \in 0 .. m
    BY <1>2
  <2> QED BY <1>3, <2>1 DEF Nth
<1> HIDE DEF m, at, R
<1>6. \A i \in places : i \in 0 .. n /\ i \in Nat
  OBVIOUS
<1>7. \A k \in 0 .. m : at[k] \in 0 .. n /\ R(at[k]) = k
  <2> TAKE k \in 0 .. m
  <2>1. CASE k = 0
    BY <1>1, <1>5, <2>1
  <2>2. CASE k # 0
    <3>1. k \in 1 .. m
      BY <1>2, <2>2
    <3> QED BY ONLY <1>4, <1>6, <3>1
  <2> QED BY <2>1, <2>2
<1>8. ASSUME NEW k \in 1 .. m PROVE at[k - 1] < at[k] /\ \A i \in places : i <= at[k - 1] \/ at[k] <= i
  <2> DEFINE p == at[k - 1]
             q == at[k]
  <2>1. k - 1 \in 0 .. m /\ k \in 0 .. m /\ k \in Nat
    BY <1>2
  <2>2. p \in 0 .. n /\ R(p) = k - 1 /\ q \in 0 .. n /\ R(q) = k /\ q \in places
    BY <1>4, <1>7, <2>1
  <2> HIDE DEF p, q
  <2>3. p < q
    <3> SUFFICES ASSUME ~(p < q) PROVE FALSE
      OBVIOUS
    <3>1. CASE p = q
      BY <2>1, <2>2, <3>1
    <3>2. CASE p # q
      <4>1. q < p /\ p # 0 /\ k - 1 # 0
        <5>1. q < p
          BY <2>2, <3>2
        <5>2. p # 0
          BY <2>2, <5>1
        <5>3. k # 1
          BY <1>5, <5>2 DEF p
        <5> QED BY <2>1, <5>1, <5>2, <5>3
      <4>2. k - 1 \in 1 .. m
        BY <1>2, <2>1, <4>1
      <4>3. p \in places
        BY <1>4, <4>2 DEF p
      <4>4. R(q) < R(p)
        BY <1>1, <2>2, <4>1, <4>3
      <4> QED BY <2>1, <2>2, <4>4
    <3> QED BY <3>1, <3>2
  <2>4. ASSUME NEW i \in places, ~(i <= p \/ q <= i) PROVE FALSE
    <3>1. i \in 0 .. n /\ p < i /\ i < q
      BY <1>6, <2>2, <2>4
    <3>2. R(p) < R(i) /\ R(i) < R(q) /\ R(i) \in Nat
      BY <1>1, <2>2, <3>1
    <3> QED BY ONLY <2>1, <2>2, <3>2
  <2> QED BY <2>3, <2>4 DEF p, q
<1>9. ASSUME NEW i \in places PROVE i <= at[m]
  <2>1. m \in 0 .. m /\ at[m] \in 0 .. n /\ R(at[m]) = m
    BY <1>2, <1>7
  <2>2. i \in 0 .. n /\ R(i) \in Nat
    BY <1>1, <1>6
  <2>3. R(i) <= m
    <3>1. i = n \/ i < n
      BY <2>2
    <3>2. CASE i = n
      BY <1>1, <2>2, <3>2
    <3>3. CASE i < n
      <4>1. R(i) <= R(n)
        <5>1. (places \cap (1 .. i)) \subseteq (places \cap (1 .. n)) /\ IsFiniteSet(places \cap (1 .. n))
          <6>1. places \cap (1 .. n) = places
            OBVIOUS
          <6>2. IsFiniteSet(places)
            BY Ranks
          <6> QED BY <2>2, <3>3, <6>1, <6>2
        <5> QED BY <5>1, FS_Subset DEF Rank, R
      <4> QED BY <1>1, <4>1
    <3> QED BY <3>1, <3>2, <3>3
  <2> SUFFICES ASSUME at[m] < i PROVE FALSE
    BY <2>1, <2>2
  <2>4. R(at[m]) < R(i)
    BY <1>1, <2>1, <2>2
  <2> QED BY <1>2, <2>1, <2>2, <2>3, <2>4
<1>10. \A k \in 1 .. m : at[k] \in places
  BY <1>4
<1>11. \A k \in 0 .. m : at[k] \in 0 .. n
  BY <1>7
<1> QED BY ONLY <1>2, <1>5, <1>8, <1>9, <1>10, <1>11, Zenon DEF InOrder, m, at

LEMMA OrderedCuts ==
    ASSUME NEW n \in Nat, NEW places \in SUBSET (1 .. n), n = 0 \/ n \in places
    PROVE  Cuts(Ordered(places), Cardinality(places), n)
<1> DEFINE m == Cardinality(places)
           at == Ordered(places)
<1>1. InOrder(at, places, m, n)
  BY NthInOrder
<1> HIDE DEF at, m
<1>2. /\ m \in Nat /\ at[0] = 0
      /\ \A k \in 0 .. m : at[k] \in 0 .. n
      /\ \A k \in 1 .. m : at[k] \in places /\ at[k - 1] < at[k]
      /\ \A i \in places : i <= at[m]
  BY <1>1 DEF InOrder
<1>3. m \in 0 .. m /\ at[m] \in 0 .. n
  BY <1>2
<1>4. at[m] = n
  BY <1>2, <1>3
<1>5. \A k \in 1 .. m : at[k - 1] <= at[k]
  <2> TAKE k \in 1 .. m
  <2>1. k - 1 \in 0 .. m /\ k \in 0 .. m
    BY <1>2
  <2>2. at[k - 1] < at[k] /\ at[k - 1] \in 0 .. n /\ at[k] \in 0 .. n
    BY ONLY <1>2, <2>1, k \in 1 .. m
  <2> QED BY ONLY <2>2
<1> QED BY ONLY <1>2, <1>4, <1>5 DEF Cuts, m, at

(* A text cut after places is cut into parts that make it. *)
LEMMA CutParts ==
    ASSUME NEW S, NEW t \in Seq(S), NEW places \in SUBSET (1 .. Len(t))
    PROVE  CutAfter(t, places) \in Seq(Seq(S)) /\ FlattenSeq(CutAfter(t, places)) = t
<1> DEFINE n == Len(t)
           ends == places \cup (IF t = <<>> THEN {} ELSE {n})
           m == Cardinality(ends)
           at == Ordered(ends)
           parts == CutAfter(t, places)
<1>1. n \in Nat /\ (t = <<>> <=> n = 0)
  BY EmptySeq
<1>2. ends \in SUBSET (1 .. n) /\ (n = 0 \/ n \in ends)
  <2>1. CASE t = <<>>
    <3>1. ends = places /\ n = 0
      BY <1>1, <2>1
    <3> QED BY <3>1
  <2>2. CASE t # <<>>
    <3>1. n \in 1 .. n
      BY <1>1, <2>2
    <3>2. ends = places \cup {n}
      BY <2>2
    <3> HIDE DEF ends
    <3> QED BY <3>1, <3>2
  <2> QED BY <2>1, <2>2
<1>3. parts = [k \in 1 .. m |-> SubSeq(t, Nth(ends, k - 1) + 1, Nth(ends, k))]
  BY DEF CutAfter
<1> HIDE DEF ends, parts
<1>4. Cuts(at, m, n) /\ m \in Nat
  <2>1. Cuts(at, m, n)
    BY <1>1, <1>2, OrderedCuts
  <2>2. InOrder(at, ends, m, n)
    BY <1>1, <1>2, NthInOrder
  <2> QED BY <2>1, <2>2 DEF InOrder
<1>5. \A k \in 0 .. m : at[k] = Nth(ends, k)
  BY DEF Ordered
<1> HIDE DEF at, m
<1>6. \A k \in 1 .. m : parts[k] = SubSeq(t, at[k - 1] + 1, at[k])
  <2> TAKE k \in 1 .. m
  <2>1. k - 1 \in 0 .. m /\ k \in 0 .. m
    BY <1>4
  <2>2. parts[k] = SubSeq(t, Nth(ends, k - 1) + 1, Nth(ends, k))
    BY <1>3
  <2> QED BY ONLY <1>5, <2>1, <2>2
<1>7. parts = [k \in 1 .. m |-> parts[k]] /\ Len(parts) = m
  <2>1. parts = [k \in 1 .. m |-> parts[k]]
    BY ONLY <1>3, Zenon
  <2>2. m \in Nat
    BY <1>4
  <2> QED BY ONLY <2>1, <2>2
<1>8. parts \in Seq(Seq(S)) /\ FlattenSeq(parts) = t
  BY <1>4, <1>6, <1>7, PartsMake DEF n
<1> QED BY ONLY <1>8 DEF parts

LEMMA LinesAndWords ==
    ASSUME NEW S, NEW t \in Seq(S)
    PROVE  /\ SplitLines(t) \in Seq(Seq(S)) /\ FlattenSeq(SplitLines(t)) = t
           /\ SplitWords(t) \in Seq(Seq(S)) /\ FlattenSeq(SplitWords(t)) = t
<1> DEFINE lines == {i \in 1 .. Len(t) : t[i] = Newline}
           words == {i \in 1 .. Len(t) - 1 : (t[i] \in Whitespace) # (t[i + 1] \in Whitespace)}
<1>1. lines \in SUBSET (1 .. Len(t)) /\ words \in SUBSET (1 .. Len(t))
  OBVIOUS
<1>2. SplitLines(t) = CutAfter(t, lines) /\ SplitWords(t) = CutAfter(t, words)
  BY DEF SplitLines, SplitWords
<1> HIDE DEF lines, words
<1> QED BY <1>1, <1>2, CutParts

(* What the k-th group covers of the two sides. *)
GroupOld(a, ops, k) == Covered(a, ops, "delete", Nth(GroupEnds(ops), k - 1), Nth(GroupEnds(ops), k))
GroupNew(b, ops, k) == Covered(b, ops, "insert", Nth(GroupEnds(ops), k - 1), Nth(GroupEnds(ops), k))
Groups(ops) == Cardinality(GroupEnds(ops))
Kind(ops, k) == ops[Nth(GroupEnds(ops), k)].op

(* The groups share out the two sides, and an equal one has the same of both. *)
Grouped(a, b, ops, olds, news, S) ==
    /\ olds \in Seq(Seq(S)) /\ Len(olds) = Groups(ops) /\ FlattenSeq(olds) = FlattenSeq(a)
    /\ news \in Seq(Seq(S)) /\ Len(news) = Groups(ops) /\ FlattenSeq(news) = FlattenSeq(b)
    /\ \A k \in 1 .. Groups(ops) :
         /\ olds[k] = GroupOld(a, ops, k) /\ news[k] = GroupNew(b, ops, k)
         /\ olds[k] \in Seq(S) /\ news[k] \in Seq(S)
         /\ Kind(ops, k) = "equal" => olds[k] = news[k]

GroupOlds(a, ops) == [k \in 1 .. Groups(ops) |-> GroupOld(a, ops, k)]
GroupNews(b, ops) == [k \in 1 .. Groups(ops) |-> GroupNew(b, ops, k)]

LEMMA GroupsShare ==
    ASSUME NEW S, NEW a \in Seq(Seq(S)), NEW b \in Seq(Seq(S)), NEW ops, Aligned(ops, a, b)
    PROVE  Grouped(a, b, ops, GroupOlds(a, ops), GroupNews(b, ops), S) /\ Groups(ops) \in Nat
<1> DEFINE n == Len(ops)
           ends == GroupEnds(ops)
           m == Groups(ops)
           at == Ordered(ends)
           olds == GroupOlds(a, ops)
           news == GroupNews(b, ops)
<1>1. ops \in Seq(Run) /\ Total(ops, "delete") = Len(a) /\ Total(ops, "insert") = Len(b) /\ n \in Nat
  BY RunTypes DEF Aligned
<1>2. /\ ends \in SUBSET (1 .. n) /\ (n = 0 \/ n \in ends)
      /\ \A i \in 1 .. n : (i = n \/ ops[i].op = "equal" \/ ops[i + 1].op = "equal") => i \in ends
  BY <1>1 DEF GroupEnds
<1>3. m = Cardinality(ends)
  BY DEF Groups
<1>4. \A k \in 0 .. m : at[k] = Nth(ends, k)
  BY DEF Ordered, Groups
<1>5. /\ olds = [k \in 1 .. m |-> GroupOld(a, ops, k)] /\ news = [k \in 1 .. m |-> GroupNew(b, ops, k)]
      /\ \A k : /\ GroupOld(a, ops, k) = Covered(a, ops, "delete", Nth(ends, k - 1), Nth(ends, k))
                /\ GroupNew(b, ops, k) = Covered(b, ops, "insert", Nth(ends, k - 1), Nth(ends, k))
                /\ Kind(ops, k) = ops[Nth(ends, k)].op
  BY DEF GroupOlds, GroupNews, GroupOld, GroupNew, Kind
<1> HIDE DEF ends, m, at, n, olds, news
<1>6. InOrder(at, ends, m, n) /\ Cuts(at, m, n)
  BY <1>1, <1>2, <1>3, NthInOrder, OrderedCuts DEF at
<1>7. /\ m \in Nat /\ at[0] = 0
      /\ \A k \in 0 .. m : at[k] \in 0 .. n
      /\ \A k \in 1 .. m : at[k] \in ends /\ at[k - 1] < at[k]
      /\ \A k \in 1 .. m : \A i \in ends : i <= at[k - 1] \/ at[k] <= i
  BY <1>6 DEF InOrder
<1>8. \A k \in 1 .. m : Nth(ends, k - 1) = at[k - 1] /\ Nth(ends, k) = at[k]
  <2> TAKE k \in 1 .. m
  <2>1. k - 1 \in 0 .. m /\ k \in 0 .. m
    BY <1>7
  <2> QED BY ONLY <1>4, <2>1
<1>9. /\ \A k \in 1 .. m : /\ olds[k] = GroupOld(a, ops, k)
                           /\ olds[k] = Covered(a, ops, "delete", at[k - 1], at[k])
                           /\ news[k] = GroupNew(b, ops, k)
                           /\ news[k] = Covered(b, ops, "insert", at[k - 1], at[k])
                           /\ Kind(ops, k) = ops[at[k]].op
  BY ONLY <1>5, <1>8
<1>10. /\ olds = [k \in 1 .. m |-> olds[k]] /\ Len(olds) = m
       /\ news = [k \in 1 .. m |-> news[k]] /\ Len(news) = m
  <2>1. olds = [k \in 1 .. m |-> olds[k]] /\ news = [k \in 1 .. m |-> news[k]]
    BY ONLY <1>5, Zenon
  <2> QED BY ONLY <1>7, <2>1
<1>11. Shares(olds, a, ops, "delete", m, at) /\ Shares(news, b, ops, "insert", m, at)
  BY ONLY <1>9, <1>10 DEF Shares
<1>12. /\ olds \in Seq(Seq(S)) /\ FlattenSeq(olds) = FlattenSeq(a)
       /\ news \in Seq(Seq(S)) /\ FlattenSeq(news) = FlattenSeq(b)
  BY <1>1, <1>6, <1>7, <1>11, CoveredParts DEF n
<1>13. ASSUME NEW k \in 1 .. m PROVE olds[k] \in Seq(S) /\ news[k] \in Seq(S)
  <2> DEFINE D == Seq(S)
  <2>1. olds \in Seq(D) /\ news \in Seq(D)
    BY <1>12
  <2> HIDE DEF D
  <2>2. olds[k] \in D
    <3>1. olds \in Seq(D) /\ Len(olds) = m
      BY <1>10, <2>1
    <3> QED BY ONLY <3>1, k \in 1 .. m
  <2>3. news[k] \in D
    <3>1. news \in Seq(D) /\ Len(news) = m
      BY <1>10, <2>1
    <3> QED BY ONLY <3>1, k \in 1 .. m
  <2> QED BY <2>2, <2>3 DEF D
<1>14. ASSUME NEW k \in 1 .. m, Kind(ops, k) = "equal" PROVE olds[k] = news[k]
  <2> DEFINE i == at[k]
             h == at[k - 1]
  <2>1. i \in ends /\ i \in 1 .. n /\ h \in 0 .. n /\ h < i
    <3>1. k - 1 \in 0 .. m
      BY <1>7
    <3> QED BY <1>2, <1>7, <3>1
  <2>2. \A j \in ends : j <= h \/ i <= j
    BY <1>7
  <2>3. ops[i].op = "equal"
    BY <1>9, <1>14
  <2>4. olds[k] = Covered(a, ops, "delete", h, i) /\ news[k] = Covered(b, ops, "insert", h, i)
    BY <1>9
  <2> HIDE DEF i, h
  <2>5. h = i - 1
    <3>1. CASE i = 1
      BY <2>1, <3>1
    <3>2. CASE i # 1
      <4>1. i - 1 \in 1 .. n /\ (i - 1) + 1 = i
        BY <1>1, <2>1, <3>2
      <4>2. i - 1 \in ends
        <5> DEFINE j == i - 1
        <5>1. j \in 1 .. n /\ j + 1 = i
          BY <4>1
        <5> HIDE DEF j
        <5>2. j \in ends
          BY ONLY <1>2, <2>3, <5>1
        <5> QED BY <5>2 DEF j
      <4>3. i - 1 <= h \/ i <= i - 1
        BY ONLY <2>2, <4>2
      <4> QED BY ONLY <2>1, <4>1, <4>3
    <3> QED BY <3>1, <3>2
  <2>6. RunSides(ops[i].op, Covered(a, ops, "delete", i - 1, i), Covered(b, ops, "insert", i - 1, i))
    BY <2>1, RunCovers DEF n
  <2> QED BY ONLY <2>3, <2>4, <2>5, <2>6 DEF RunSides
<1> QED BY ONLY <1>7, <1>9, <1>10, <1>12, <1>13, <1>14 DEF Grouped, m, olds, news

(* Groups whose changes are faithful make a faithful whole. *)
LEMMA GroupsFaithful ==
    ASSUME NEW S, NEW a \in Seq(Seq(S)), NEW b \in Seq(Seq(S)), NEW ops, Aligned(ops, a, b), NEW lists,
           lists = [k \in 1 .. Groups(ops) |-> lists[k]],
           \A k \in 1 .. Groups(ops) : Faithful(lists[k], GroupOld(a, ops, k), GroupNew(b, ops, k), S)
    PROVE  /\ Faithful(PushChanges(FlattenSeq(lists)), FlattenSeq(a), FlattenSeq(b), S)
           /\ Alternating(PushChanges(FlattenSeq(lists)))
<1> DEFINE m == Groups(ops)
           olds == GroupOlds(a, ops)
           news == GroupNews(b, ops)
           C == Change(S)
           D == Seq(C)
<1>1. Grouped(a, b, ops, olds, news, S) /\ m \in Nat
  BY GroupsShare
<1>2. /\ olds \in Seq(Seq(S)) /\ Len(olds) = m /\ FlattenSeq(olds) = FlattenSeq(a)
      /\ news \in Seq(Seq(S)) /\ Len(news) = m /\ FlattenSeq(news) = FlattenSeq(b)
      /\ \A k \in 1 .. m : olds[k] = GroupOld(a, ops, k) /\ news[k] = GroupNew(b, ops, k)
  BY <1>1 DEF Grouped
<1>3. lists = [k \in 1 .. m |-> lists[k]]
  OBVIOUS
<1>4. \A k \in 1 .. m : Faithful(lists[k], GroupOld(a, ops, k), GroupNew(b, ops, k), S)
  OBVIOUS
<1> HIDE DEF m, olds, news
<1>5. \A k \in 1 .. m : lists[k] \in D /\ olds[k] = Side(lists[k], "delete") /\ news[k] = Side(lists[k], "insert")
  BY ONLY <1>2, <1>4 DEF Faithful
<1> HIDE DEF D
<1>6. lists \in Seq(D) /\ Len(lists) = m
  BY ONLY <1>1, <1>3, <1>5, FunctionIsSeq
<1>7. lists \in Seq(Seq(Change(S)))
  BY <1>6 DEF D
<1>8. FlattenSeq(lists) \in Seq(Change(S)) /\ Side(FlattenSeq(lists), "delete") = FlattenSeq(olds)
  <2>1. olds \in Seq(Seq(S)) /\ Len(olds) = Len(lists) /\ \A k \in 1 .. Len(lists) : olds[k] = Side(lists[k], "delete")
    BY ONLY <1>2, <1>5, <1>6
  <2> QED BY ONLY <1>7, <2>1, SideFlat
<1>9. Side(FlattenSeq(lists), "insert") = FlattenSeq(news)
  <2>1. news \in Seq(Seq(S)) /\ Len(news) = Len(lists) /\ \A k \in 1 .. Len(lists) : news[k] = Side(lists[k], "insert")
    BY ONLY <1>2, <1>5, <1>6
  <2> QED BY ONLY <1>7, <2>1, SideFlat
<1>10. Faithful(FlattenSeq(lists), FlattenSeq(a), FlattenSeq(b), S)
  BY ONLY <1>2, <1>8, <1>9 DEF Faithful
<1> QED BY ONLY <1>10, PushedFaithful

(* The changes of a group, when those that refine makes are faithful. *)
LEMMA GroupFaithful ==
    ASSUME NEW S, NEW kind, NEW x \in Seq(S), NEW y \in Seq(S), kind = "equal" => x = y, NEW refined,
           Faithful(refined, x, y, S)
    PROVE  Faithful(CASE kind = "equal" -> <<[op |-> "equal", text |-> x]>>
                      [] kind # "equal" /\ Len(x) + Len(y) > RefineLimitChars ->
                           <<[op |-> "delete", text |-> x], [op |-> "insert", text |-> y]>>
                      [] OTHER -> refined, x, y, S)
<1> DEFINE C == Change(S)
<1>1. CASE kind = "equal"
  <2> DEFINE c == <<[op |-> "equal", text |-> x]>>
  <2>1. c \in Seq(C) /\ Side(c, "delete") = x /\ Side(c, "insert") = x
    BY OnlyChange
  <2> HIDE DEF c
  <2>2. Faithful(c, x, y, S)
    BY <1>1, <2>1 DEF Faithful
  <2> QED BY <1>1, <2>2 DEF c
<1>2. CASE kind # "equal" /\ Len(x) + Len(y) > RefineLimitChars
  <2> DEFINE d == [op |-> "delete", text |-> x]
             i == [op |-> "insert", text |-> y]
  <2>1. /\ d \in C /\ <<d>> \in Seq(C) /\ Side(<<d>>, "delete") = x /\ Side(<<d>>, "insert") = <<>>
        /\ i \in C /\ <<i>> \in Seq(C) /\ Side(<<i>>, "delete") = <<>> /\ Side(<<i>>, "insert") = y
    BY OnlyChange
  <2> HIDE DEF d, i
  <2>2. <<d>> \o <<i>> = <<d, i>>
    BY <2>1, TupleOfTwo
  <2> DEFINE dd == <<d>>
             ii == <<i>>
  <2>3. /\ dd \in Seq(C) /\ Side(dd, "delete") = x /\ Side(dd, "insert") = <<>>
        /\ ii \in Seq(C) /\ Side(ii, "delete") = <<>> /\ Side(ii, "insert") = y
    BY <2>1
  <2> HIDE DEF dd, ii
  <2>4. /\ Side(dd \o ii, "delete") = Side(dd, "delete") \o Side(ii, "delete")
        /\ Side(dd \o ii, "insert") = Side(dd, "insert") \o Side(ii, "insert")
    <3>1. dd \in Seq(Change(S)) /\ ii \in Seq(Change(S))
      BY <2>3
    <3> QED BY ONLY <3>1, SideJoin, SMTT(30)
  <2>5. dd \o ii \in Seq(C)
    <3> HIDE DEF C
    <3> QED BY ONLY <2>3, ConcatProperties
  <2>6. x \o <<>> = x /\ <<>> \o y = y
    OBVIOUS
  <2>7. Faithful(dd \o ii, x, y, S)
    BY ONLY <2>3, <2>4, <2>5, <2>6 DEF Faithful
  <2>8. Faithful(<<d, i>>, x, y, S)
    BY <2>2, <2>7 DEF dd, ii
  <2> QED BY <1>2, <2>8 DEF d, i
<1>3. CASE kind # "equal" /\ ~(Len(x) + Len(y) > RefineLimitChars)
  BY <1>3
<1> QED BY <1>1, <1>2, <1>3

-----------------------------------------------------------------------------
(* The tiers, and the whole comparison. *)

Regular(changes, old, new, S) == Faithful(changes, old, new, S) /\ Alternating(changes)

LEMMA WordsFaithful ==
    ASSUME NEW S, NEW old \in Seq(S), NEW new \in Seq(S)
    PROVE  Regular(DiffWords(old, new, S), old, new, S)
<1> DEFINE a == SplitWords(old)
           b == SplitWords(new)
           ops == DiffSeq(a, b, Seq(S))
           m == Groups(ops)
           x(k) == GroupOld(a, ops, k)
           y(k) == GroupNew(b, ops, k)
           change(k) == CASE Kind(ops, k) = "equal" -> <<[op |-> "equal", text |-> x(k)]>>
                          [] Kind(ops, k) # "equal" /\ Len(x(k)) + Len(y(k)) > RefineLimitChars ->
                               <<[op |-> "delete", text |-> x(k)], [op |-> "insert", text |-> y(k)]>>
                          [] OTHER -> RefineChars(x(k), y(k), S)
           lists == [k \in 1 .. m |-> change(k)]
<1>1. a \in Seq(Seq(S)) /\ FlattenSeq(a) = old /\ b \in Seq(Seq(S)) /\ FlattenSeq(b) = new
  BY LinesAndWords
<1>2. DiffWords(old, new, S) = PushChanges(FlattenSeq(lists))
  BY DEF DiffWords, DiffTokens, Groups, GroupOld, GroupNew, Kind
<1> HIDE DEF a, b
<1>3. Aligned(ops, a, b)
  BY <1>1, DiffSeqSolved DEF Solved
<1> HIDE DEF ops
<1>4. Grouped(a, b, ops, GroupOlds(a, ops), GroupNews(b, ops), S)
  BY <1>1, <1>3, GroupsShare
<1>5. \A k \in 1 .. m : x(k) \in Seq(S) /\ y(k) \in Seq(S) /\ (Kind(ops, k) = "equal" => x(k) = y(k))
  BY <1>4 DEF Grouped
<1>6. \A k \in 1 .. m : Faithful(change(k), x(k), y(k), S)
  <2> TAKE k \in 1 .. m
  <2> DEFINE xk == x(k)
             yk == y(k)
             kind == Kind(ops, k)
             refined == RefineChars(xk, yk, S)
  <2>1. xk \in Seq(S) /\ yk \in Seq(S) /\ (kind = "equal" => xk = yk)
    BY <1>5
  <2> HIDE DEF xk, yk, kind
  <2>2. Faithful(refined, xk, yk, S)
    BY <2>1, RefineFaithful
  <2> HIDE DEF refined
  <2>3. Faithful(CASE kind = "equal" -> <<[op |-> "equal", text |-> xk]>>
                   [] kind # "equal" /\ Len(xk) + Len(yk) > RefineLimitChars ->
                        <<[op |-> "delete", text |-> xk], [op |-> "insert", text |-> yk]>>
                   [] OTHER -> refined, xk, yk, S)
    BY ONLY <2>1, <2>2, GroupFaithful
  <2> QED BY <2>3 DEF xk, yk, kind, refined
<1> HIDE DEF x, y, change
<1>7. lists = [k \in 1 .. m |-> lists[k]] /\ \A k \in 1 .. m : lists[k] = change(k)
  OBVIOUS
<1> HIDE DEF lists
<1>8. \A k \in 1 .. m : Faithful(lists[k], GroupOld(a, ops, k), GroupNew(b, ops, k), S)
  BY ONLY <1>6, <1>7, Zenon DEF x, y
<1>9. Faithful(PushChanges(FlattenSeq(lists)), FlattenSeq(a), FlattenSeq(b), S) /\ Alternating(PushChanges(FlattenSeq(lists)))
  BY <1>1, <1>3, <1>7, <1>8, GroupsFaithful DEF m
<1> QED BY ONLY <1>1, <1>2, <1>9 DEF Regular

LEMMA RegionFaithful ==
    ASSUME NEW S, NEW old \in Seq(S), NEW new \in Seq(S)
    PROVE  Regular(DiffRegion(old, new, S), old, new, S)
<1> DEFINE a == SplitLines(old)
           b == SplitLines(new)
           ops == DiffSeq(a, b, Seq(S))
           m == Groups(ops)
           x(k) == GroupOld(a, ops, k)
           y(k) == GroupNew(b, ops, k)
           change(k) == CASE Kind(ops, k) = "equal" -> <<[op |-> "equal", text |-> x(k)]>>
                          [] Kind(ops, k) # "equal" /\ Len(x(k)) + Len(y(k)) > RefineLimitChars ->
                               <<[op |-> "delete", text |-> x(k)], [op |-> "insert", text |-> y(k)]>>
                          [] OTHER -> DiffWords(x(k), y(k), S)
           lists == [k \in 1 .. m |-> change(k)]
<1>1. a \in Seq(Seq(S)) /\ FlattenSeq(a) = old /\ b \in Seq(Seq(S)) /\ FlattenSeq(b) = new
  BY LinesAndWords
<1>2. DiffRegion(old, new, S) = PushChanges(FlattenSeq(lists))
  BY DEF DiffRegion, DiffTokens, Groups, GroupOld, GroupNew, Kind
<1> HIDE DEF a, b
<1>3. Aligned(ops, a, b)
  BY <1>1, DiffSeqSolved DEF Solved
<1> HIDE DEF ops
<1>4. Grouped(a, b, ops, GroupOlds(a, ops), GroupNews(b, ops), S)
  BY <1>1, <1>3, GroupsShare
<1>5. \A k \in 1 .. m : x(k) \in Seq(S) /\ y(k) \in Seq(S) /\ (Kind(ops, k) = "equal" => x(k) = y(k))
  BY <1>4 DEF Grouped
<1>6. \A k \in 1 .. m : Faithful(change(k), x(k), y(k), S)
  <2> TAKE k \in 1 .. m
  <2> DEFINE xk == x(k)
             yk == y(k)
             kind == Kind(ops, k)
             refined == DiffWords(xk, yk, S)
  <2>1. xk \in Seq(S) /\ yk \in Seq(S) /\ (kind = "equal" => xk = yk)
    BY <1>5
  <2> HIDE DEF xk, yk, kind
  <2>2. Faithful(refined, xk, yk, S)
    BY <2>1, WordsFaithful DEF Regular
  <2> HIDE DEF refined
  <2>3. Faithful(CASE kind = "equal" -> <<[op |-> "equal", text |-> xk]>>
                   [] kind # "equal" /\ Len(xk) + Len(yk) > RefineLimitChars ->
                        <<[op |-> "delete", text |-> xk], [op |-> "insert", text |-> yk]>>
                   [] OTHER -> refined, xk, yk, S)
    BY ONLY <2>1, <2>2, GroupFaithful
  <2> QED BY <2>3 DEF xk, yk, kind, refined
<1> HIDE DEF x, y, change
<1>7. lists = [k \in 1 .. m |-> lists[k]] /\ \A k \in 1 .. m : lists[k] = change(k)
  OBVIOUS
<1> HIDE DEF lists
<1>8. \A k \in 1 .. m : Faithful(lists[k], GroupOld(a, ops, k), GroupNew(b, ops, k), S)
  BY ONLY <1>6, <1>7, Zenon DEF x, y
<1>9. Faithful(PushChanges(FlattenSeq(lists)), FlattenSeq(a), FlattenSeq(b), S) /\ Alternating(PushChanges(FlattenSeq(lists)))
  BY <1>1, <1>3, <1>7, <1>8, GroupsFaithful DEF m
<1> QED BY ONLY <1>1, <1>2, <1>9 DEF Regular

LEMMA DiffCharsFaithful ==
    ASSUME NEW S, NEW old \in Seq(S), NEW new \in Seq(S)
    PROVE  Regular(DiffChars(old, new, S), old, new, S)
<1>1. CASE old = new /\ old = <<>>
  <2> DEFINE C == Change(S)
             none == <<>>
  <2>1. DiffChars(old, new, S) = none
    BY <1>1 DEF DiffChars
  <2>2. none \in Seq(C) /\ Alternating(none)
    <3>1. none \in Seq(C)
      <4> HIDE DEF C
      <4> QED OBVIOUS
    <3> QED BY <3>1 DEF Alternating
  <2>3. Side(none, "delete") = <<>> /\ Side(none, "insert") = <<>>
    BY ONLY TRUE DEF Side, FlattenSeq
  <2> QED BY <1>1, <2>1, <2>2, <2>3 DEF Regular, Faithful
<1>2. CASE old = new /\ old # <<>>
  <2> DEFINE c == <<[op |-> "equal", text |-> old]>>
  <2>1. DiffChars(old, new, S) = c
    BY <1>2 DEF DiffChars
  <2>2. c \in Seq(Change(S)) /\ Side(c, "delete") = old /\ Side(c, "insert") = old
    BY OnlyChange
  <2>3. Alternating(c)
    BY DEF Alternating
  <2> HIDE DEF c
  <2> QED BY <1>2, <2>1, <2>2, <2>3 DEF Regular, Faithful
<1>3. CASE old # new
  <2>1. DiffChars(old, new, S) = DiffRegion(old, new, S)
    BY <1>3 DEF DiffChars
  <2> QED BY <2>1, RegionFaithful
<1> QED BY <1>1, <1>2, <1>3

LEMMA ComparisonIs ==
    ASSUME NEW r, r.old \in Seq(Chars), r.new \in Seq(Chars)
    PROVE  Comparison(r) = DiffChars(r.old, r.new, Chars)
<1> DEFINE from == [d \in IF r.old = <<>> THEN {} ELSE {"main"} |-> r.old]
           to == [d \in IF r.new = <<>> THEN {} ELSE {"main"} |-> r.new]
           side(x, p) == IF p \in DOMAIN x THEN x[p] ELSE <<>>
           diff(p) == DiffChars(side(from, p), side(to, p), Chars)
           found == [p \in DOMAIN from \cup DOMAIN to |-> diff(p)]
<1>1. Comparison(r) = IF found = <<>> THEN <<>> ELSE found["main"]
  BY DEF Comparison, CompareMilestones
<1>2. side(from, "main") = r.old /\ side(to, "main") = r.new
  OBVIOUS
<1>3. diff("main") = DiffChars(r.old, r.new, Chars)
  BY <1>2
<1>4. DOMAIN from \cup DOMAIN to = IF r.old = <<>> /\ r.new = <<>> THEN {} ELSE {"main"}
  OBVIOUS
<1>5. DOMAIN found = DOMAIN from \cup DOMAIN to
  OBVIOUS
<1>6. "main" \in DOMAIN found => found["main"] = diff("main")
  OBVIOUS
<1> HIDE DEF from, to, side
<1>7. CASE r.old = <<>> /\ r.new = <<>>
  <2>1. DiffChars(r.old, r.new, Chars) = <<>>
    BY <1>7 DEF DiffChars
  <2>2. DOMAIN found = {}
    BY <1>4, <1>5, <1>7
  <2>3. found = <<>>
    <3>1. found = [p \in {} |-> diff(p)]
      BY <1>4, <1>7
    <3> QED BY ONLY <3>1
  <2> QED BY <1>1, <2>1, <2>3
<1>8. CASE ~(r.old = <<>> /\ r.new = <<>>)
  <2>1. "main" \in DOMAIN found
    BY <1>4, <1>5, <1>8
  <2>2. found # <<>>
    <3>1. DOMAIN <<>> = {}
      OBVIOUS
    <3> HIDE DEF found
    <3> QED BY <2>1, <3>1
  <2> QED BY <1>1, <1>3, <1>6, <2>1, <2>2
<1> QED BY <1>7, <1>8

(* A comparison keeps as much as can be kept, when the work is not cut short. *)
LEMMA CharsShortest ==
    ASSUME NEW old \in Seq(Chars), NEW new \in Seq(Chars), Len(old) <= DiffWorkLimit \div (1 + Len(new))
    PROVE  LET a == SplitChars(old)
               b == SplitChars(new)
               ops == DiffSeq(a, b, Seq(Chars))
           IN  Consumed(ops, "equal", Len(ops)) = LcsLength(a, b)
<1> DEFINE a == SplitChars(old)
           b == SplitChars(new)
<1>1. a \in Seq(Seq(Chars)) /\ b \in Seq(Seq(Chars)) /\ Len(a) = Len(old) /\ Len(b) = Len(new)
  BY CharsSplit
<1>2. Len(a) \in Nat /\ Len(b) \in Nat /\ DiffWorkLimit \in Nat
  BY <1>1, DiffAssumption
<1>3. Len(a) <= DiffWorkLimit \div (1 + Len(b))
  BY <1>1
<1> HIDE DEF a, b
<1>4. Small(a, b)
  <2>1. CASE Len(b) = 0
    BY <1>1, <1>2, <2>1, EmptySeq DEF Small
  <2>2. CASE Len(b) # 0
    <3>1. Len(b) \in Nat \ {0} /\ 1 + Len(b) \in Nat \ {0} /\ Len(b) <= 1 + Len(b)
      BY <1>2, <2>2
    <3>2. DiffWorkLimit \div (1 + Len(b)) <= DiffWorkLimit \div Len(b)
      <4> DEFINE e == Len(b)
                 d == 1 + Len(b)
      <4>1. d \in Nat /\ e \in Nat /\ 0 < e /\ e <= d
        BY <3>1
      <4> HIDE DEF d, e
      <4>2. DiffWorkLimit \div d <= DiffWorkLimit \div e
        BY ONLY <1>2, <4>1, DivisionFalls
      <4> QED BY <4>2 DEF d, e
    <3>3. DiffWorkLimit \div (1 + Len(b)) \in Int /\ DiffWorkLimit \div Len(b) \in Int
      BY <1>2, <3>1
    <3>4. Len(a) <= DiffWorkLimit \div Len(b)
      BY <1>2, <1>3, <3>2, <3>3
    <3> QED BY <3>4 DEF Small
  <2> QED BY <2>1, <2>2
<1> QED BY <1>1, <1>4, DiffSeqShortest DEF Total, a, b

(* A comparison gives the old text on one side and the new one on the other, in *)
(* runs that alternate, through every tier and wherever a limit stops them; and *)
(* between two texts that are not too large for one table it keeps as many      *)
(* characters as their longest common subsequence has (compare_milestones,      *)
(* diff_region, diff_seq).                                                      *)
THEOREM ComparisonsAreFaithful == LibrarySpec => []DiffFaithful
<1>1. LibraryInv => DiffFaithful
  <2> SUFFICES ASSUME LibraryInv, answer.op = "compare" PROVE DiffFaithful
    BY DEF DiffFaithful
  <2>1. request.old \in Seq(Chars) /\ request.new \in Seq(Chars)
    <3>1. request \in [op : {"compare"}, old : Seq(Chars), new : Seq(Chars)]
      BY LibraryAssumption DEF LibraryInv
    <3> QED BY <3>1
  <2>2. answer.changes = DiffChars(request.old, request.new, Chars)
    BY <2>1, ComparisonIs DEF LibraryInv
  <2>3. Regular(answer.changes, request.old, request.new, Chars)
    BY <2>1, <2>2, DiffCharsFaithful
  <2>4. /\ Side(answer.changes, "delete") = request.old
        /\ Side(answer.changes, "insert") = request.new
        /\ \A k \in 1 .. Len(answer.changes) - 1 : answer.changes[k].op # answer.changes[k + 1].op
    BY <2>3 DEF Regular, Faithful, Alternating
  <2>5. ASSUME Len(request.old) <= DiffWorkLimit \div (1 + Len(request.new))
        PROVE  LET a == SplitChars(request.old)
                   b == SplitChars(request.new)
                   ops == DiffSeq(a, b, Seq(Chars))
               IN  Consumed(ops, "equal", Len(ops)) = LcsLength(a, b)
    BY <2>1, <2>5, CharsShortest
  <2> QED BY <2>4, <2>5 DEF DiffFaithful
<1> QED BY <1>1, LibraryInvariant, PTL
=============================================================================
