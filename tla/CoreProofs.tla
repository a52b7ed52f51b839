----------------------------- MODULE CoreProofs -----------------------------
(***************************************************************************)
(* Proofs about CoreDocument and Library, for any texts, marks, review     *)
(* items, references and sources.                                          *)
(*                                                                         *)
(* Resolutions keep the marks in the text and the views as they promise,   *)
(* whatever batch they come in; threads and validation are exact about     *)
(* which characters the deletions cover.  Of the functions of Library:     *)
(* offsets convert there and back, a reviewed source is the sources its    *)
(* items give, deduplication loses nothing, an export holds the full texts *)
(* of what is cited, and a redline leaves the source's brackets nested.    *)
(***************************************************************************)
EXTENDS CoreDocument, Library, TLAPS, SequenceTheorems, FiniteSetTheorems

(* A set of numbers that is not empty has a least element. *)
LEMMA LeastNumber ==
    ASSUME NEW T \in SUBSET Nat, T # {}
    PROVE  \E x \in T : \A y \in T : x <= y
<1> DEFINE R == OpToRel(<, Nat)
<1>1. IsWellFoundedOn(R, Nat)
  BY NatLessThanWellFounded, Zenon
<1>2. \A a, b \in Nat : a < b => <<a, b>> \in R
  BY DEF OpToRel
<1> HIDE DEF R
<1>3. T \subseteq Nat /\ T # {}
  OBVIOUS
<1>4. PICK x \in T : \A y \in T : ~ (<<y, x>> \in R)
  <2>1. \E x \in T : \A y \in T : ~ (<<y, x>> \in R)
    BY ONLY <1>1, <1>3, WFMin
  <2> QED BY <2>1
<1>5. ASSUME NEW y \in T PROVE x <= y
  <2>1. ~(y < x)
    BY <1>2, <1>3, <1>4, Zenon
  <2> QED BY <2>1, <1>3
<1> QED BY <1>5

(* Induction from 0 to n. *)
LEMMA Counted ==
    ASSUME NEW n \in Nat, NEW S, 0 \in S, \A k \in 1 .. n : k - 1 \in S => k \in S
    PROVE  \A k \in 0 .. n : k \in S
<1> DEFINE T == {k \in 0 .. n : k \notin S}
<1> SUFFICES ASSUME T # {} PROVE FALSE
  OBVIOUS
<1>1. PICK k \in T : \A j \in T : k <= j
  <2>1. T \in SUBSET Nat
    OBVIOUS
  <2> HIDE DEF T
  <2> QED BY <2>1, LeastNumber
<1>2. k \in 1 .. n /\ k - 1 \in 0 .. n
  BY <1>1
<1> QED BY <1>1, <1>2

Iterated(n, x, F, f) ==
    f = [k \in 0 .. n |-> f[k]] /\ f[0] = x /\ \A k \in 1 .. n : f[k] = F[k][f[k - 1]]

(* A function over 0..n that is defined from its value one before exists,  *)
(* and its values stay in the sets G that the steps F lead from and to.    *)
LEMMA Iterates ==
    ASSUME NEW n \in Nat, NEW x, NEW F, NEW G, x \in G[0],
           \A k \in 1 .. n : \A d \in G[k - 1] : F[k][d] \in G[k]
    PROVE  \E f : Iterated(n, x, F, f) /\ \A k \in 0 .. n : f[k] \in G[k]
<1> DEFINE Good(m, f) == /\ f = [k \in 0 .. m |-> IF k = 0 THEN x ELSE F[k][f[k - 1]]]
                         /\ \A k \in 0 .. m : f[k] \in G[k]
           S == {m \in 0 .. n : \E f : Good(m, f)}
<1>1. 0 \in S
  <2> DEFINE f == [k \in 0 .. 0 |-> x]
  <2>1. f = [k \in 0 .. 0 |-> IF k = 0 THEN x ELSE F[k][f[k - 1]]]
    OBVIOUS
  <2>2. \A k \in 0 .. 0 : f[k] \in G[k]
    OBVIOUS
  <2> HIDE DEF f
  <2>3. \E h : Good(0, h)
    BY <2>1, <2>2
  <2> QED BY <2>3
<1>2. ASSUME NEW m \in 1 .. n, m - 1 \in S PROVE m \in S
  <2>1. PICK f : Good(m - 1, f)
    BY <1>2, Zenon
  <2> DEFINE g == [k \in 0 .. m |-> IF k = m THEN F[m][f[m - 1]] ELSE f[k]]
  <2>2. \A k \in 0 .. (m - 1) : g[k] = f[k] /\ k \in 0 .. m
    <3>1. m \in Nat /\ \A k \in 0 .. (m - 1) : k # m /\ k \in 0 .. m
      OBVIOUS
    <3> QED BY <3>1, Zenon
  <2>3. g[m] = F[m][g[m - 1]] /\ g[m] \in G[m]
    <3>1. m \in 0 .. m /\ m - 1 \in 0 .. (m - 1)
      OBVIOUS
    <3>2. g[m] = F[m][f[m - 1]] /\ g[m - 1] = f[m - 1] /\ f[m - 1] \in G[m - 1]
      BY <2>1, <2>2, <3>1, Zenon
    <3> QED BY <3>2, Zenon
  <2>4. ASSUME NEW k \in 0 .. m
        PROVE  g[k] = (IF k = 0 THEN x ELSE F[k][g[k - 1]]) /\ g[k] \in G[k]
    <3>1. CASE k = m
      BY <2>3, <3>1
    <3>2. CASE k \in 0 .. (m - 1)
      <4>1. f[k] = (IF k = 0 THEN x ELSE F[k][f[k - 1]]) /\ f[k] \in G[k]
        BY <2>1, <3>2
      <4> QED BY <2>2, <3>2, <4>1
    <3> QED BY <3>1, <3>2
  <2>5. g = [k \in 0 .. m |-> g[k]]
    OBVIOUS
  <2> HIDE DEF g
  <2>6. g = [k \in 0 .. m |-> IF k = 0 THEN x ELSE F[k][g[k - 1]]]
    BY <2>4, <2>5
  <2> QED BY <2>4, <2>6
<1>3. \A m \in 0 .. n : m \in S
  <2> HIDE DEF S
  <2> QED BY <1>1, <1>2, Counted
<1>4. n \in S
  <2> HIDE DEF S
  <2> QED BY <1>3
<1>5. PICK f : Good(n, f)
  BY <1>4
<1>6. \A k \in 0 .. n : f[k] = IF k = 0 THEN x ELSE F[k][f[k - 1]]
  BY <1>5
<1>7. f = [k \in 0 .. n |-> f[k]]
  BY <1>5
<1>8. Iterated(n, x, F, f)
  <2>1. 0 \in 0 .. n /\ \A k \in 1 .. n : k \in 0 .. n /\ k # 0
    OBVIOUS
  <2>2. f[0] = x /\ \A k \in 1 .. n : f[k] = F[k][f[k - 1]]
    BY <1>6, <2>1, Zenon
  <2> QED BY <1>7, <2>2, Zenon DEF Iterated
<1> QED BY <1>5, <1>8

-----------------------------------------------------------------------------
(* Projections. *)

(* No mark that the view hides covers the i-th character. *)
Visible(ms, view, i) ==
    \A j \in MarkIds : ms[j] # NoMark /\ ms[j].kind \in Hidden[view]
                         => ~(ms[j].start < i /\ i <= ms[j].end)

(* What a filter has put out after each character of t. *)
Filters(S, t, shown, out) ==
    /\ out \in [0 .. Len(t) -> Seq(S)] /\ out[0] = << >>
    /\ \A k \in 1 .. Len(t) :
         out[k] = IF k \in shown THEN Append(out[k - 1], t[k]) ELSE out[k - 1]

VisibleIn(t, ms, view) == {i \in 1 .. Len(t) : Visible(ms, view, i)}

LEMMA FlagsHide ==
    ASSUME NEW S, NEW t \in Seq(S), NEW ms \in MarkSets, NEW view \in DOMAIN Hidden,
           NEW k \in 1 .. Len(t)
    PROVE  CharFlags(t, ms)[k - 1] \cap Hidden[view] = {} <=> Visible(ms, view, k)
<1> DEFINE flags == {kind \in MarkKinds \ {"comment"} :
                        \E id \in OfKind(ms, kind) : ms[id].start <= k - 1 /\ k - 1 < ms[id].end}
<1>1. CharFlags(t, ms)[k - 1] = flags
  <2>1. k - 1 \in 0 .. (Len(t) - 1)
    OBVIOUS
  <2> QED BY <2>1 DEF CharFlags
<1>2. Hidden[view] \subseteq MarkKinds \ {"comment"}
  BY DEF Hidden, MarkKinds
<1>3. \A j \in MarkIds : ms[j] # NoMark => ms[j].start \in Nat /\ ms[j].end \in Nat
  BY CoreAssumption DEF MarkSets, Mark
<1>4. ASSUME NEW j \in MarkIds, ms[j] # NoMark
      PROVE  (ms[j].start <= k - 1 /\ k - 1 < ms[j].end) <=> (ms[j].start < k /\ k <= ms[j].end)
  BY <1>3, <1>4
<1>5. flags \cap Hidden[view] = {} <=>
        \A kind \in Hidden[view] : \A j \in MarkIds :
            ms[j] # NoMark /\ ms[j].kind = kind => ~(ms[j].start < k /\ k <= ms[j].end)
  BY <1>2, <1>4 DEF OfKind
<1> QED BY <1>1, <1>5 DEF Visible

LEMMA FilterExists ==
    ASSUME NEW S, NEW t \in Seq(S), NEW shown
    PROVE  \E out : Filters(S, t, shown, out)
<1> DEFINE n == Len(t)
           F == [k \in 1 .. n |-> [d \in Seq(S) |-> IF k \in shown THEN Append(d, t[k]) ELSE d]]
           G == [k \in 0 .. n |-> Seq(S)]
<1>1. n \in Nat /\ << >> \in G[0]
  BY EmptySeq
<1>2. ASSUME NEW k \in 1 .. n, NEW d \in Seq(S)
      PROVE  F[k][d] = (IF k \in shown THEN Append(d, t[k]) ELSE d) /\ F[k][d] \in Seq(S)
  <2>1. t[k] \in S
    BY ElementOfSeq
  <2>2. Append(d, t[k]) \in Seq(S)
    BY <2>1
  <2> QED BY <2>2
<1>3. \A k \in 1 .. n : \A d \in G[k - 1] : F[k][d] \in G[k]
  <2>1. \A k \in 1 .. n : G[k - 1] = Seq(S) /\ G[k] = Seq(S)
    OBVIOUS
  <2> HIDE DEF F, G
  <2> QED BY <1>2, <2>1
<1>4. PICK f : Iterated(n, << >>, F, f) /\ \A k \in 0 .. n : f[k] \in G[k]
  <2> HIDE DEF n, F, G
  <2> QED BY <1>1, <1>3, Iterates
<1>5. \A k \in 0 .. n : f[k] \in Seq(S)
  BY <1>4
<1>6. f = [k \in 0 .. n |-> f[k]] /\ f[0] = << >> /\ \A k \in 1 .. n : f[k] = F[k][f[k - 1]]
  <2> HIDE DEF F, G, n
  <2> QED BY <1>4, Zenon DEF Iterated
<1>7. f \in [0 .. n -> Seq(S)]
  <2> HIDE DEF F, G, n
  <2> QED BY <1>5, <1>6, Zenon
<1>8. ASSUME NEW k \in 1 .. n
      PROVE  f[k] = IF k \in shown THEN Append(f[k - 1], t[k]) ELSE f[k - 1]
  <2>1. k - 1 \in 0 .. n
    OBVIOUS
  <2>2. f[k - 1] \in Seq(S) /\ f[k] = F[k][f[k - 1]]
    <3> HIDE DEF F, G, n
    <3> QED BY <1>5, <1>6, <2>1, Zenon
  <2> HIDE DEF F
  <2> QED BY <1>2, <2>2, Zenon
<1>9. f[0] = << >>
  BY <1>6, Zenon
<1> QED BY <1>7, <1>8, <1>9 DEF Filters

(* project: the visible characters, in order. *)
LEMMA ProjectFilters ==
    ASSUME NEW S, NEW t \in Seq(S), NEW ms \in MarkSets, NEW view \in DOMAIN Hidden
    PROVE  \E out : Filters(S, t, VisibleIn(t, ms, view), out) /\ Project(t, ms, view) = out[Len(t)]
<1> DEFINE flags == CharFlags(t, ms)
           Next(k, o) == CASE k = 0 -> << >>
                           [] k > 0 /\ flags[k - 1] \cap Hidden[view] = {} -> Append(o[k - 1], t[k])
                           [] OTHER -> o[k - 1]
           out[k \in 0 .. Len(t)] ==
               CASE k = 0 -> << >>
                 [] k > 0 /\ flags[k - 1] \cap Hidden[view] = {} -> Append(out[k - 1], t[k])
                 [] OTHER -> out[k - 1]
<1>1. Project(t, ms, view) = out[Len(t)]
  BY DEF Project
<1> DEFINE shown == VisibleIn(t, ms, view)
<1>2. PICK f : Filters(S, t, shown, f)
  <2> HIDE DEF shown, Filters
  <2> QED BY FilterExists
<1>3. ASSUME NEW k \in 0 .. Len(t), NEW o
      PROVE  Next(k, o) = IF k = 0 THEN << >>
                          ELSE IF k \in shown THEN Append(o[k - 1], t[k]) ELSE o[k - 1]
  <2>1. CASE k = 0
    BY <2>1
  <2>2. CASE k # 0
    <3>1. k \in 1 .. Len(t) /\ k > 0
      BY <2>2
    <3>2. flags[k - 1] \cap Hidden[view] = {} <=> k \in shown
      BY <3>1, FlagsHide DEF VisibleIn
    <3> HIDE DEF flags, shown
    <3> QED BY <2>2, <3>1, <3>2
  <2> QED BY <2>1, <2>2
<1>4. f = [k \in 0 .. Len(t) |-> Next(k, f)]
  <2>1. ASSUME NEW k \in 0 .. Len(t) PROVE f[k] = Next(k, f)
    <3> HIDE DEF Next, shown
    <3>1. CASE k = 0
      BY <1>2, <1>3, <3>1 DEF Filters
    <3>2. CASE k # 0
      <4>1. k \in 1 .. Len(t)
        BY <3>2
      <4> QED BY <1>2, <1>3, <3>2, <4>1 DEF Filters
    <3> QED BY <3>1, <3>2
  <2>2. f = [k \in 0 .. Len(t) |-> f[k]]
    BY <1>2 DEF Filters
  <2> HIDE DEF Next
  <2> QED BY <2>1, <2>2
<1>5. out = [k \in 0 .. Len(t) |-> Next(k, out)]
  BY <1>4, Zenon
<1> HIDE DEF out, Next, shown
<1>6. \A k \in 0 .. Len(t) : out[k] = f[k]
  <2> DEFINE T == {k \in 0 .. Len(t) : out[k] = f[k]}
  <2>1. Len(t) \in Nat
    OBVIOUS
  <2>2. 0 \in T
    BY <1>3, <1>4, <1>5
  <2>3. ASSUME NEW k \in 1 .. Len(t), k - 1 \in T PROVE k \in T
    <3>1. k \in 0 .. Len(t) /\ k - 1 \in 0 .. Len(t) /\ k # 0
      OBVIOUS
    <3>2. out[k] = Next(k, out) /\ f[k] = Next(k, f)
      <4>1. out = [i \in 0 .. Len(t) |-> Next(i, out)] /\ f = [i \in 0 .. Len(t) |-> Next(i, f)]
        BY <1>4, <1>5
      <4> QED BY <3>1, <4>1, Zenon
    <3> QED BY <1>3, <2>3, <3>1, <3>2
  <2>4. \A k \in 0 .. Len(t) : k \in T
    <3> HIDE DEF T
    <3> QED BY <2>1, <2>2, <2>3, Counted
  <2> QED BY <2>4
<1>8. out[Len(t)] = f[Len(t)]
  BY <1>6
<1>9. Filters(S, t, shown, f) /\ Project(t, ms, view) = f[Len(t)]
  BY <1>1, <1>2, <1>8
<1> HIDE DEF Filters
<1> QED BY <1>9 DEF shown

(* Two mark sets that hide the same characters give the same view. *)
LEMMA SameProjection ==
    ASSUME NEW S, NEW t \in Seq(S), NEW ms \in MarkSets, NEW ns \in MarkSets,
           NEW view \in DOMAIN Hidden,
           \A i \in 1 .. Len(t) : Visible(ns, view, i) <=> Visible(ms, view, i)
    PROVE  Project(t, ns, view) = Project(t, ms, view)
<1>1. VisibleIn(t, ns, view) = VisibleIn(t, ms, view)
  BY DEF VisibleIn
<1>2. PICK f : Filters(S, t, VisibleIn(t, ms, view), f) /\ Project(t, ms, view) = f[Len(t)]
  BY ProjectFilters
<1>3. PICK g : Filters(S, t, VisibleIn(t, ms, view), g) /\ Project(t, ns, view) = g[Len(t)]
  BY <1>1, ProjectFilters
<1> DEFINE T == {k \in 0 .. Len(t) : g[k] = f[k]}
<1>4. Len(t) \in Nat /\ 0 \in T
  BY <1>2, <1>3 DEF Filters
<1>5. ASSUME NEW k \in 1 .. Len(t), k - 1 \in T PROVE k \in T
  BY <1>2, <1>3, <1>5 DEF Filters
<1>6. \A k \in 0 .. Len(t) : k \in T
  <2> HIDE DEF T
  <2> QED BY <1>4, <1>5, Counted
<1> QED BY <1>2, <1>3, <1>4, <1>6

(* What is left of a text without the characters from+1 to to. *)
LEMMA Removed ==
    ASSUME NEW S, NEW t \in Seq(S), NEW from \in Nat, NEW to \in Nat, from < to, to <= Len(t)
    PROVE  LET u == RemoveCharRange(t, from, to)
           IN  /\ u \in Seq(S) /\ Len(u) = Len(t) - (to - from)
               /\ \A i \in 1 .. from : u[i] = t[i]
               /\ \A i \in (to + 1) .. Len(t) : u[i - (to - from)] = t[i]
<1> DEFINE front == SubSeq(t, 1, from)
           back == SubSeq(t, to + 1, Len(t))
<1>1. /\ front \in Seq(S) /\ Len(front) = from
      /\ \A i \in 1 .. from : front[i] = t[i]
  <2>1. \A i \in 1 .. from : t[i] \in S
    BY ElementOfSeq
  <2> QED BY <2>1, SubSeqProperties
<1>2. /\ back \in Seq(S) /\ Len(back) = Len(t) - to
      /\ \A i \in 1 .. (Len(t) - to) : back[i] = t[to + i]
  <2>1. \A i \in (to + 1) .. Len(t) : t[i] \in S
    BY ElementOfSeq
  <2>2. /\ back \in Seq(S)
        /\ Len(back) = IF to + 1 <= Len(t) THEN Len(t) - (to + 1) + 1 ELSE 0
        /\ \A i \in 1 .. Len(t) - (to + 1) + 1 : back[i] = t[to + 1 + i - 1]
    BY <2>1, SubSeqProperties
  <2>3. \A i \in 1 .. (Len(t) - to) : back[i] = t[to + i]
    <3> HIDE DEF back
    <3> TAKE i \in 1 .. (Len(t) - to)
    <3>1. i \in 1 .. Len(t) - (to + 1) + 1 /\ to + 1 + i - 1 = to + i
      OBVIOUS
    <3> QED BY <2>2, <3>1
  <2>4. Len(t) \in Nat /\ to \in Nat /\ to <= Len(t)
    BY LenProperties
  <2> HIDE DEF back
  <2>5. Len(back) = Len(t) - to
    BY ONLY <2>2, <2>4
  <2> QED BY <2>2, <2>3, <2>5, Zenon
<1> DEFINE u == front \o back
<1>3. RemoveCharRange(t, from, to) = u
  BY DEF RemoveCharRange
<1> HIDE DEF front, back
<1>4. u \in Seq(S) /\ Len(u) = Len(front) + Len(back)
      /\ \A i \in 1 .. Len(front) + Len(back) :
           u[i] = IF i <= Len(front) THEN front[i] ELSE back[i - Len(front)]
  BY <1>1, <1>2, ConcatProperties
<1> HIDE DEF u
<1>5. ASSUME NEW i \in 1 .. from PROVE u[i] = t[i]
  <2>1. Len(t) \in Nat
    OBVIOUS
  <2>2. i \in 1 .. (Len(front) + Len(back)) /\ i <= Len(front)
    BY <1>1, <1>2, <2>1
  <2> QED BY <1>1, <1>4, <2>2
<1>6. ASSUME NEW i \in (to + 1) .. Len(t) PROVE u[i - (to - from)] = t[i]
  <2> DEFINE k == i - (to - from)
  <2>1. k \in 1 .. (Len(front) + Len(back)) /\ ~(k <= Len(front)) /\ k - Len(front) = i - to
    BY <1>1, <1>2
  <2>2. i - to \in 1 .. (Len(t) - to) /\ to + (i - to) = i
    OBVIOUS
  <2> HIDE DEF k
  <2>3. u[k] = back[i - to]
    BY <1>4, <2>1
  <2>4. back[i - to] = t[i]
    BY <1>2, <2>2
  <2> QED BY <2>3, <2>4 DEF k
<1>7. u \in Seq(S) /\ Len(u) = Len(t) - (to - from)
  BY <1>1, <1>2, <1>4
<1> HIDE DEF RemoveCharRange
<1> QED BY <1>3, <1>5, <1>6, <1>7

(* Hidden characters may be removed if the marks move along. *)
LEMMA CutProjection ==
    ASSUME NEW S, NEW t \in Seq(S), NEW ms \in MarkSets, NEW ns \in MarkSets,
           NEW view \in DOMAIN Hidden,
           NEW from \in Nat, NEW to \in Nat, from < to, to <= Len(t),
           \A i \in (from + 1) .. to : ~Visible(ms, view, i),
           \A i \in 1 .. from : Visible(ns, view, i) <=> Visible(ms, view, i),
           \A i \in (to + 1) .. Len(t) : Visible(ns, view, i - (to - from)) <=> Visible(ms, view, i)
    PROVE  Project(RemoveCharRange(t, from, to), ns, view) = Project(t, ms, view)
<1> DEFINE u == RemoveCharRange(t, from, to)
           d == to - from
           shown == VisibleIn(t, ms, view)
           left == VisibleIn(u, ns, view)
<1>1. /\ u \in Seq(S) /\ Len(u) = Len(t) - d
      /\ \A i \in 1 .. from : u[i] = t[i]
      /\ \A i \in (to + 1) .. Len(t) : u[i - d] = t[i]
  BY Removed
<1>2. PICK f : Filters(S, t, shown, f) /\ Project(t, ms, view) = f[Len(t)]
  BY ProjectFilters
<1> HIDE DEF u
<1>3. PICK g : Filters(S, u, left, g) /\ Project(u, ns, view) = g[Len(u)]
  <2>1. u \in Seq(S)
    BY <1>1
  <2> QED BY <2>1, ProjectFilters
<1>4. /\ \A i \in 1 .. from : i \in left <=> i \in shown
      /\ \A i \in (from + 1) .. to : i \notin shown
      /\ \A i \in (to + 1) .. Len(t) : i - d \in left <=> i \in shown
  BY <1>1 DEF VisibleIn
<1> HIDE DEF left, shown
<1>5. /\ f[0] = << >> /\ g[0] = << >>
      /\ \A k \in 1 .. Len(t) : f[k] = IF k \in shown THEN Append(f[k - 1], t[k]) ELSE f[k - 1]
      /\ \A k \in 1 .. Len(u) : g[k] = IF k \in left THEN Append(g[k - 1], u[k]) ELSE g[k - 1]
  BY <1>2, <1>3 DEF Filters
<1> DEFINE T == {k \in 0 .. Len(t) : f[k] = g[IF k <= from THEN k ELSE IF k <= to THEN from ELSE k - d]}
<1>6. Len(t) \in Nat /\ Len(u) \in Nat /\ from <= Len(u) /\ d \in 1 .. Len(t) /\ from + d = to
  <2>1. Len(t) \in Nat /\ Len(u) \in Nat
    BY <1>1, LenProperties
  <2>2. Len(u) = Len(t) - d /\ from \in Nat /\ to \in Nat /\ from < to /\ to <= Len(t)
    BY <1>1
  <2> QED BY ONLY <2>1, <2>2
<1>7. 0 \in T
  BY <1>5
<1>8. ASSUME NEW k \in 1 .. Len(t), k - 1 \in T PROVE k \in T
  <2>1. CASE k <= from
    <3>1. k \in 1 .. Len(u) /\ u[k] = t[k] /\ (k \in left <=> k \in shown) /\ f[k - 1] = g[k - 1]
      BY <1>1, <1>4, <1>6, <1>8, <2>1
    <3>2. f[k] = g[k]
      BY <1>5, <3>1
    <3> QED BY <2>1, <3>2
  <2>2. CASE k > from /\ k <= to
    <3>1. k \notin shown /\ f[k - 1] = g[from]
      BY <1>4, <1>8, <2>2
    <3>2. f[k] = g[from]
      BY <1>5, <3>1
    <3> QED BY <2>2, <3>2
  <2>3. CASE k > to
    <3> DEFINE i == k - d
    <3>1. i \in 1 .. Len(u) /\ u[i] = t[k] /\ (i \in left <=> k \in shown)
      BY <1>1, <1>4, <1>6, <2>3
    <3>2. f[k - 1] = g[i - 1]
      <4>1. CASE k - 1 = to
        <5>1. i - 1 = from
          BY <1>6, <4>1
        <5> QED BY <1>8, <4>1, <5>1, <1>6
      <4>2. CASE k - 1 > to
        <5>1. k - 1 - d = i - 1
          BY <1>6
        <5> QED BY <1>6, <1>8, <4>2, <5>1
      <4> QED BY <1>6, <2>3, <4>1, <4>2
    <3> HIDE DEF i
    <3>3. f[k] = g[i]
      BY <1>5, <3>1, <3>2
    <3> QED BY <1>6, <2>3, <3>3 DEF i
  <2> QED BY <2>1, <2>2, <2>3
<1>9. \A k \in 0 .. Len(t) : k \in T
  <2> HIDE DEF T
  <2> QED BY <1>6, <1>7, <1>8, Counted
<1>10. f[Len(t)] = g[Len(u)]
  <2>1. Len(t) \in T
    BY <1>6, <1>9
  <2>2. CASE Len(t) = to
    BY <1>1, <1>6, <2>1, <2>2
  <2>3. CASE Len(t) > to
    BY <1>1, <1>6, <2>1, <2>3
  <2> QED BY <2>2, <2>3
<1> QED BY <1>2, <1>3, <1>10 DEF u

-----------------------------------------------------------------------------
(* Resolutions. *)

View(how) == IF how = "accept" THEN "proposed" ELSE "baseline"

(* A position moves along with the text around it. *)
LEMMA RemapMoves ==
    ASSUME NEW from \in Nat, NEW to \in Nat, from < to, NEW p \in Nat
    PROVE  LET q == RemapPosition(p, from, to)
           IN  /\ q \in Nat /\ q <= p
               /\ \A i \in Nat : i <= from => (p < i <=> q < i)
               /\ \A i \in Nat : i > to => (p < i <=> q < i - (to - from))
               /\ \A n \in Nat : n >= to /\ p <= n => q <= n - (to - from)
BY DEF RemapPosition

LEMMA MarkType ==
    ASSUME NEW ms \in MarkSets, NEW j \in MarkIds, ms[j] # NoMark
    PROVE  /\ ms[j] \in Mark /\ ms[j].start \in Nat /\ ms[j].end \in Nat
           /\ ms[j].kind \in MarkKinds /\ ms[j].at \in Nat
BY CoreAssumption DEF MarkSets, Mark

LEMMA MarkIsNotNone == \A m \in Mark : m # NoMark
<1>1. ASSUME NEW m \in Mark PROVE m \in [start : Nat, end : Nat, kind : MarkKinds, at : Nat]
  BY CoreAssumption DEF Mark
<1> QED BY <1>1, CoreAssumption

LEMMA RemapRangeType ==
    ASSUME NEW from \in Nat, NEW to \in Nat, from < to, NEW m \in Mark
    PROVE  LET n == RemapRange(m, from, to)
           IN  /\ n \in Mark /\ n.kind = m.kind /\ n.at = m.at
               /\ n.start = RemapPosition(m.start, from, to) /\ n.end = RemapPosition(m.end, from, to)
<1>1. m.start \in 0 .. MaxPosition /\ m.end \in 0 .. MaxPosition /\ m.kind \in MarkKinds /\ m.at \in Nat
      /\ m = [start |-> m.start, end |-> m.end, kind |-> m.kind, at |-> m.at]
  BY DEF Mark
<1> DEFINE p == RemapPosition(m.start, from, to)
           q == RemapPosition(m.end, from, to)
<1>2. RemapRange(m, from, to) = [start |-> p, end |-> q, kind |-> m.kind, at |-> m.at]
  <2>1. RemapRange(m, from, to) = [m EXCEPT !.start = p, !.end = q]
    BY DEF RemapRange
  <2> HIDE DEF p, q
  <2> QED BY <1>1, <2>1
<1>3. p \in 0 .. MaxPosition /\ q \in 0 .. MaxPosition
  <2>1. m.start \in Nat /\ m.end \in Nat /\ MaxPosition \in Nat
    BY <1>1, CoreAssumption
  <2>2. p \in Nat /\ p <= m.start /\ q \in Nat /\ q <= m.end
    BY <2>1, RemapMoves
  <2> HIDE DEF p, q
  <2> QED BY <1>1, <2>1, <2>2
<1> HIDE DEF p, q
<1>4. [start |-> p, end |-> q, kind |-> m.kind, at |-> m.at] \in Mark
  BY <1>1, <1>3 DEF Mark
<1> QED BY <1>2, <1>4 DEF p, q

(* The mark that is resolved is gone, the others stay marks. *)
KeepsMarks(ms, id, ns) ==
    /\ ns \in MarkSets /\ ns[id] = NoMark
    /\ \A j \in MarkIds : j # id => /\ ns[j] = NoMark <=> ms[j] = NoMark
                                    /\ ms[j] # NoMark => ns[j].kind = ms[j].kind

InBounds(ms, t, ns, u) ==
    \A j \in MarkIds : ms[j] # NoMark /\ ns[j] # NoMark /\ InText(ms[j], t) => InText(ns[j], u)

LEMMA ResolveStays ==
    ASSUME NEW S, NEW t \in Seq(S), NEW ms \in MarkSets, NEW id \in MarkIds,
           NEW how \in {"accept", "reject"}, Resolvable(ms, id),
           LET m == ms[id]
           IN  ~RemovesText(m, how) \/ Smaller(m.start, Len(t)) >= Smaller(m.end, Len(t)),
           NEW ns, ns = [ms EXCEPT ![id] = NoMark]
    PROVE  /\ KeepsMarks(ms, id, ns) /\ InBounds(ms, t, ns, t)
           /\ Project(t, ns, View(how)) = Project(t, ms, View(how))
<1>1. ns \in MarkSets /\ \A j \in MarkIds : ns[j] = IF j = id THEN NoMark ELSE ms[j]
  BY DEF MarkSets
<1>2. KeepsMarks(ms, id, ns)
  BY <1>1 DEF KeepsMarks
<1>3. InBounds(ms, t, ns, t)
  BY <1>1 DEF InBounds
<1>4. View(how) \in DOMAIN Hidden
  BY DEF View, Hidden
<1>5. ASSUME NEW i \in 1 .. Len(t), ms[id].kind \in Hidden[View(how)], ms[id].start < i, i <= ms[id].end
      PROVE  FALSE
  <2>1. RemovesText(ms[id], how)
    BY <1>5 DEF View, Hidden, RemovesText
  <2>2. ms[id].start \in Nat /\ ms[id].end \in Nat /\ Len(t) \in Nat
    BY MarkType DEF Resolvable
  <2>3. Smaller(ms[id].start, Len(t)) < Smaller(ms[id].end, Len(t))
    BY <1>5, <2>2 DEF Smaller
  <2>4. Smaller(ms[id].start, Len(t)) \in Nat /\ Smaller(ms[id].end, Len(t)) \in Nat
    BY <2>2 DEF Smaller
  <2> QED BY <2>1, <2>3, <2>4
<1>6. \A i \in 1 .. Len(t) : Visible(ns, View(how), i) <=> Visible(ms, View(how), i)
  BY <1>1, <1>5 DEF Visible
<1>7. Project(t, ns, View(how)) = Project(t, ms, View(how))
  BY <1>1, <1>4, <1>6, SameProjection
<1> QED BY <1>2, <1>3, <1>7

LEMMA ResolveCuts ==
    ASSUME NEW S, NEW t \in Seq(S), NEW ms \in MarkSets, NEW id \in MarkIds,
           NEW how \in {"accept", "reject"}, Resolvable(ms, id), RemovesText(ms[id], how),
           NEW from, from = Smaller(ms[id].start, Len(t)),
           NEW to, to = Smaller(ms[id].end, Len(t)), from < to,
           NEW ns, ns = [j \in MarkIds |-> IF j = id \/ ms[j] = NoMark THEN NoMark
                                           ELSE RemapRange(ms[j], from, to)]
    PROVE  LET u == RemoveCharRange(t, from, to)
           IN  /\ u \in Seq(S) /\ KeepsMarks(ms, id, ns) /\ InBounds(ms, t, ns, u)
               /\ Project(u, ns, View(how)) = Project(t, ms, View(how))
<1> DEFINE u == RemoveCharRange(t, from, to)
           d == to - from
<1>0. ms[id].start \in Nat /\ ms[id].end \in Nat /\ Len(t) \in Nat
  BY MarkType DEF Resolvable
<1>1. from \in Nat /\ to \in Nat /\ to <= Len(t) /\ to <= ms[id].end /\ ms[id].start = from
  BY <1>0 DEF Smaller
<1>2. u \in Seq(S) /\ Len(u) = Len(t) - d
  BY <1>1, Removed
<1>3. ASSUME NEW j \in MarkIds, j # id, ms[j] # NoMark
      PROVE  /\ ns[j] \in Mark /\ ns[j] # NoMark /\ ns[j].kind = ms[j].kind
             /\ ns[j].start = RemapPosition(ms[j].start, from, to)
             /\ ns[j].end = RemapPosition(ms[j].end, from, to)
  <2>1. ns[j] = RemapRange(ms[j], from, to) /\ ms[j] \in Mark
    BY <1>3, MarkType
  <2> QED BY <1>1, <2>1, RemapRangeType, MarkIsNotNone
<1>4. \A j \in MarkIds : j = id \/ ms[j] = NoMark => ns[j] = NoMark
  OBVIOUS
<1>5. ns \in MarkSets
  <2>1. \A j \in MarkIds : ns[j] \in Mark \cup {NoMark}
    BY <1>3, <1>4
  <2>2. ns = [j \in MarkIds |-> ns[j]]
    OBVIOUS
  <2> QED BY <2>1, <2>2, Zenon DEF MarkSets
<1>6. KeepsMarks(ms, id, ns)
  BY <1>3, <1>4, <1>5 DEF KeepsMarks
<1>7. InBounds(ms, t, ns, u)
  <2> SUFFICES ASSUME NEW j \in MarkIds, ms[j] # NoMark, ns[j] # NoMark, InText(ms[j], t)
               PROVE  InText(ns[j], u)
    BY DEF InBounds
  <2>1. ms[j].start \in Nat /\ ms[j].end \in Nat /\ j # id
    BY <1>4, MarkType
  <2>2. ms[j].start <= Len(t) /\ ms[j].end <= Len(t)
    BY DEF InText
  <2>3. /\ RemapPosition(ms[j].start, from, to) <= Len(t) - d
        /\ RemapPosition(ms[j].end, from, to) <= Len(t) - d
    <3>1. Len(t) \in Nat /\ from < to /\ to <= Len(t)
      BY <1>0, <1>1
    <3>2. from \in Nat /\ to \in Nat /\ d = to - from
      BY <1>1
    <3>3. ASSUME NEW p \in Nat, p <= Len(t) PROVE RemapPosition(p, from, to) <= Len(t) - d
      BY ONLY <3>1, <3>2, <3>3 DEF RemapPosition
    <3> QED BY <2>1, <2>2, <3>3, Zenon
  <2> HIDE DEF u, d
  <2> QED BY <1>2, <1>3, <2>1, <2>3 DEF InText
<1>8. View(how) \in DOMAIN Hidden /\ ms[id].kind \in Hidden[View(how)]
  BY DEF View, Hidden, RemovesText
<1>9. \A i \in (from + 1) .. to : ~Visible(ms, View(how), i)
  <2> TAKE i \in (from + 1) .. to
  <2>1. ms[id].start < i /\ i <= ms[id].end /\ ms[id] # NoMark
    BY <1>0, <1>1 DEF Resolvable
  <2> QED BY <1>8, <2>1 DEF Visible
<1>10. ASSUME NEW i \in 1 .. Len(t), NEW k \in Nat,
              \A j \in MarkIds : j # id /\ ms[j] # NoMark =>
                 (ms[j].start < i /\ i <= ms[j].end <=> ns[j].start < k /\ k <= ns[j].end),
              ~(from < i /\ i <= to)
       PROVE  Visible(ns, View(how), k) <=> Visible(ms, View(how), i)
  <2>1. ~(ms[id].start < i /\ i <= ms[id].end)
    BY <1>0, <1>1, <1>10 DEF Smaller
  <2> QED BY <1>3, <1>4, <1>10, <2>1 DEF Visible
<1>11. ASSUME NEW j \in MarkIds, j # id, ms[j] # NoMark
       PROVE  /\ \A i \in Nat : i <= from => (ms[j].start < i <=> ns[j].start < i) /\ (ms[j].end < i <=> ns[j].end < i)
              /\ \A i \in Nat : i > to => (ms[j].start < i <=> ns[j].start < i - d) /\ (ms[j].end < i <=> ns[j].end < i - d)
              /\ ms[j].end \in Nat /\ ns[j].end \in Nat
  <2>1. ms[j].start \in Nat /\ ms[j].end \in Nat
    BY <1>11, MarkType
  <2>2. ASSUME NEW p \in Nat, NEW q, q = RemapPosition(p, from, to)
        PROVE  /\ q \in Nat /\ \A i \in Nat : i <= from => (p < i <=> q < i)
               /\ \A i \in Nat : i > to => (p < i <=> q < i - d)
    <3>1. Len(t) \in Nat /\ from < to /\ to <= Len(t) /\ from \in Nat /\ to \in Nat /\ d = to - from
      BY <1>0, <1>1
    <3> HIDE DEF d
    <3> QED BY ONLY <2>2, <3>1, RemapMoves
  <2> HIDE DEF d
  <2> QED BY <1>3, <1>11, <2>1, <2>2
<1>12. ASSUME NEW i \in 1 .. from PROVE Visible(ns, View(how), i) <=> Visible(ms, View(how), i)
  <2>1. i \in Nat /\ i \in 1 .. Len(t) /\ ~(from < i /\ i <= to) /\ i <= from
    BY <1>0, <1>1
  <2>2. ASSUME NEW j \in MarkIds, j # id, ms[j] # NoMark
        PROVE  ms[j].start < i /\ i <= ms[j].end <=> ns[j].start < i /\ i <= ns[j].end
    BY <1>11, <2>1, <2>2
  <2> QED BY <1>10, <2>1, <2>2
<1>13. ASSUME NEW i \in (to + 1) .. Len(t)
       PROVE  Visible(ns, View(how), i - d) <=> Visible(ms, View(how), i)
  <2>1. i \in Nat /\ i \in 1 .. Len(t) /\ ~(from < i /\ i <= to) /\ i > to /\ i - d \in Nat
    BY <1>0, <1>1
  <2>2. ASSUME NEW j \in MarkIds, j # id, ms[j] # NoMark
        PROVE  ms[j].start < i /\ i <= ms[j].end <=> ns[j].start < i - d /\ i - d <= ns[j].end
    BY <1>11, <2>1, <2>2
  <2> HIDE DEF d
  <2> QED BY <1>10, <2>1, <2>2
<1>14. Project(u, ns, View(how)) = Project(t, ms, View(how))
  <2> DEFINE view == View(how)
  <2>1. view \in DOMAIN Hidden /\ from < to /\ t \in Seq(S) /\ ms \in MarkSets
    BY <1>8
  <2>2. \A i \in (from + 1) .. to : ~Visible(ms, view, i)
    BY <1>9
  <2>3. \A i \in 1 .. from : Visible(ns, view, i) <=> Visible(ms, view, i)
    BY <1>12
  <2>4. \A i \in (to + 1) .. Len(t) : Visible(ns, view, i - (to - from)) <=> Visible(ms, view, i)
    BY <1>13
  <2> HIDE DEF view
  <2>5. Project(RemoveCharRange(t, from, to), ns, view) = Project(t, ms, view)
    BY ONLY <1>1, <1>5, <2>1, <2>2, <2>3, <2>4, CutProjection
  <2> QED BY <2>5 DEF view
<1> QED BY <1>2, <1>6, <1>7, <1>14

(* resolve, whatever it removes. *)
LEMMA ResolveKeeps ==
    ASSUME NEW S, NEW t \in Seq(S), NEW ms \in MarkSets, NEW id \in MarkIds,
           NEW how \in {"accept", "reject"}, Resolvable(ms, id),
           NEW r, r = Resolve(t, ms, id, how)
    PROVE  /\ r.text \in Seq(S) /\ r.emptied \in SUBSET MarkIds
           /\ KeepsMarks(ms, id, r.marks) /\ InBounds(ms, t, r.marks, r.text)
           /\ Project(r.text, r.marks, View(how)) = Project(t, ms, View(how))
<1> DEFINE from == Smaller(ms[id].start, Len(t))
           to == Smaller(ms[id].end, Len(t))
           others == [ms EXCEPT ![id] = NoMark]
           moved == [j \in MarkIds |-> IF others[j] = NoMark THEN NoMark ELSE RemapRange(others[j], from, to)]
<1>1. from \in Nat /\ to \in Nat
  <2>1. ms[id].start \in Nat /\ ms[id].end \in Nat /\ Len(t) \in Nat
    BY MarkType DEF Resolvable
  <2> QED BY <2>1 DEF Smaller
<1>2. CASE ~RemovesText(ms[id], how) \/ from >= to
  <2>1. r = [text |-> t, marks |-> others, emptied |-> {}]
    BY <1>2 DEF Resolve
  <2>2. /\ KeepsMarks(ms, id, others) /\ InBounds(ms, t, others, t)
        /\ Project(t, others, View(how)) = Project(t, ms, View(how))
    BY <1>2, ResolveStays
  <2> HIDE DEF others
  <2> QED BY <2>1, <2>2
<1>3. CASE RemovesText(ms[id], how) /\ from < to
  <2>1. /\ r.text = RemoveCharRange(t, from, to) /\ r.marks = moved
        /\ r.emptied = {j \in MarkIds : others[j] # NoMark /\ ~IsEmpty(others[j]) /\ IsEmpty(moved[j])}
    <3>1. ~(from >= to)
      BY <1>1, <1>3
    <3> QED BY <1>3, <3>1 DEF Resolve
  <2>2. r.emptied \in SUBSET MarkIds
    BY <2>1
  <2>3. moved = [j \in MarkIds |-> IF j = id \/ ms[j] = NoMark THEN NoMark ELSE RemapRange(ms[j], from, to)]
    <3>1. \A j \in MarkIds : others[j] = IF j = id THEN NoMark ELSE ms[j]
      BY DEF MarkSets
    <3> HIDE DEF others
    <3> QED BY <3>1
  <2> HIDE DEF moved, from, to, others
  <2>4. /\ RemoveCharRange(t, from, to) \in Seq(S)
        /\ KeepsMarks(ms, id, moved) /\ InBounds(ms, t, moved, RemoveCharRange(t, from, to))
        /\ Project(RemoveCharRange(t, from, to), moved, View(how)) = Project(t, ms, View(how))
    <3>1. from = Smaller(ms[id].start, Len(t)) /\ to = Smaller(ms[id].end, Len(t))
      BY DEF from, to
    <3> QED BY ONLY <1>3, <2>3, <3>1, ResolveCuts, t \in Seq(S), ms \in MarkSets, id \in MarkIds,
                    how \in {"accept", "reject"}, Resolvable(ms, id)
  <2> QED BY <2>1, <2>2, <2>4
<1> QED BY <1>1, <1>2, <1>3

(* The earliest of some marks is one of them. *)
LEMMA EarliestIn ==
    ASSUME NEW ids \in SUBSET MarkIds, ids # {}, \A id \in ids : marks[id].at \in Nat
    PROVE  Earliest(ids) \in ids
<1>1. MarkIds \subseteq Nat
  BY CoreAssumption
<1> DEFINE T == {marks[id].at : id \in ids}
<1>2. PICK x \in T : \A y \in T : x <= y
  <2>1. T \in SUBSET Nat /\ T # {}
    OBVIOUS
  <2> HIDE DEF T
  <2> QED BY <2>1, LeastNumber
<1> DEFINE U == {id \in ids : marks[id].at = x}
<1>3. PICK id \in U : \A j \in U : id <= j
  <2>1. U \in SUBSET Nat /\ U # {}
    BY <1>1, <1>2
  <2> HIDE DEF U
  <2> QED BY <2>1, LeastNumber
<1>4. id \in ids /\ \A other \in ids : Precedes(id, other)
  <2> SUFFICES ASSUME NEW other \in ids PROVE Precedes(id, other)
    BY <1>3
  <2>1. x <= marks[other].at /\ marks[other].at \in Nat /\ marks[id].at = x /\ x \in Nat
    BY <1>2, <1>3
  <2>2. CASE x = marks[other].at
    BY <1>3, <2>1, <2>2 DEF Precedes
  <2>3. CASE x < marks[other].at
    BY <2>1, <2>3 DEF Precedes
  <2> QED BY <2>1, <2>2, <2>3
<1> QED BY <1>4 DEF Earliest

(* A finite set loses one element at a time. *)
LEMMA OneLess ==
    ASSUME NEW T, IsFiniteSet(T), NEW x \in T
    PROVE  Cardinality(T \ {x}) = Cardinality(T) - 1 /\ IsFiniteSet(T \ {x}) /\ Cardinality(T) \in Nat
BY FS_RemoveElement, FS_CardinalityType

(* A function has finitely many values on a finite set. *)
LEMMA ImageFinite ==
    ASSUME NEW S, IsFiniteSet(S), NEW f, f = [x \in S |-> f[x]]
    PROVE  IsFiniteSet({f[x] : x \in S})
<1> DEFINE T == {f[x] : x \in S}
<1>1. f \in [S -> T] /\ \A y \in T : \E x \in S : f[x] = y
  BY Zenon
<1> HIDE DEF T
<1>2. f \in Surjection(S, T)
  BY <1>1 DEF Surjection
<1> QED BY <1>2, FS_Surjection DEF T

-----------------------------------------------------------------------------
(* Batches. *)

Selected(ids) == {id \in ids : marks[id] # NoMark}

BulkStep(how, r) ==
    LET id == Earliest(r.left)
        next == Resolve(r.text, r.marks, id, how)
    IN  [text |-> next.text, marks |-> next.marks,
         emptied |-> r.emptied \cup next.emptied, left |-> r.left \ {id}]

BulkStates(S) == [text : Seq(S), marks : MarkSets, emptied : SUBSET MarkIds, left : SUBSET MarkIds]

OneTaken(T, U) == \E x \in T : U = T \ {x}

(* What the marks that are left still are, and what was kept so far. *)
BulkSound(ids, how, r) ==
    /\ \A id \in r.left : id \in Selected(ids) /\ Resolvable(r.marks, id)
    /\ \A j \in MarkIds : r.marks[j] # NoMark => marks[j] # NoMark
    /\ InBounds(marks, text, r.marks, r.text)
    /\ Project(r.text, r.marks, View(how)) = Project(text, marks, View(how))

LEMMA BulkStepSound ==
    ASSUME NEW S, marks \in MarkSets, NEW ids \in SUBSET MarkIds, NEW how \in {"accept", "reject"},
           NEW r \in BulkStates(S), BulkSound(ids, how, r), r.left # {}
    PROVE  LET next == BulkStep(how, r)
           IN  /\ next \in BulkStates(S) /\ BulkSound(ids, how, next)
               /\ OneTaken(r.left, next.left)
<1> DEFINE id == Earliest(r.left)
           next == Resolve(r.text, r.marks, id, how)
<1>0. r.text \in Seq(S) /\ r.marks \in MarkSets /\ r.emptied \in SUBSET MarkIds /\ r.left \in SUBSET MarkIds
  BY DEF BulkStates
<1>1. id \in r.left /\ id \in MarkIds
  <2>1. \A x \in r.left : marks[x].at \in Nat
    BY <1>0, MarkType DEF BulkSound, Selected
  <2> QED BY <1>0, <2>1, EarliestIn
<1>2. Resolvable(r.marks, id)
  BY <1>1 DEF BulkSound
<1>3. BulkStep(how, r) = [text |-> next.text, marks |-> next.marks,
                          emptied |-> r.emptied \cup next.emptied, left |-> r.left \ {id}]
  BY DEF BulkStep
<1> HIDE DEF id
<1>4. /\ next.text \in Seq(S) /\ next.emptied \in SUBSET MarkIds
      /\ KeepsMarks(r.marks, id, next.marks) /\ InBounds(r.marks, r.text, next.marks, next.text)
      /\ Project(next.text, next.marks, View(how)) = Project(r.text, r.marks, View(how))
  BY <1>0, <1>1, <1>2, ResolveKeeps
<1> HIDE DEF next
<1>5. /\ next.marks \in MarkSets /\ next.marks[id] = NoMark
      /\ \A j \in MarkIds : j # id => /\ next.marks[j] = NoMark <=> r.marks[j] = NoMark
                                      /\ r.marks[j] # NoMark => next.marks[j].kind = r.marks[j].kind
  BY <1>4 DEF KeepsMarks
<1> DEFINE q == [text |-> next.text, marks |-> next.marks,
                 emptied |-> r.emptied \cup next.emptied, left |-> r.left \ {id}]
<1>6. q \in BulkStates(S)
  BY <1>0, <1>4, <1>5 DEF BulkStates
<1>7. \A x \in q.left : x \in Selected(ids) /\ Resolvable(q.marks, x)
  <2> TAKE x \in q.left
  <2>1. x \in r.left /\ x # id /\ x \in MarkIds
    BY <1>0
  <2>2. x \in Selected(ids) /\ Resolvable(r.marks, x)
    BY <2>1 DEF BulkSound
  <2>3. next.marks[x] # NoMark /\ next.marks[x].kind = r.marks[x].kind
    BY <1>5, <2>1, <2>2 DEF Resolvable
  <2> QED BY <2>2, <2>3 DEF Resolvable, IsChange
<1>8. \A j \in MarkIds : q.marks[j] # NoMark => r.marks[j] # NoMark /\ marks[j] # NoMark
  BY <1>5 DEF BulkSound
<1>9. InBounds(marks, text, q.marks, q.text)
  BY <1>4, <1>8 DEF BulkSound, InBounds
<1>10. Project(q.text, q.marks, View(how)) = Project(text, marks, View(how))
  BY <1>4 DEF BulkSound
<1>11. BulkSound(ids, how, q)
  <2> HIDE DEF q
  <2> QED BY <1>7, <1>8, <1>9, <1>10 DEF BulkSound
<1>12. OneTaken(r.left, q.left)
  BY <1>1 DEF OneTaken
<1> HIDE DEF q
<1> QED BY <1>1, <1>3, <1>6, <1>11, <1>12 DEF q

(* resolve_bulk keeps what every one of its steps keeps. *)
LEMMA BulkKeeps ==
    ASSUME NEW S, text \in Seq(S), marks \in MarkSets,
           NEW ids \in SUBSET MarkIds, NEW how \in {"accept", "reject"},
           \A id \in ids : marks[id] # NoMark => IsChange(marks[id])
    PROVE  LET r == BulkOutcome(ids, how)
           IN  r \in BulkStates(S) /\ BulkSound(ids, how, r)
<1> DEFINE n == Cardinality(Selected(ids))
           first == [text |-> text, marks |-> marks, emptied |-> {}, left |-> Selected(ids)]
           Next(k, o) == IF k = 0 THEN first ELSE BulkStep(how, o[k - 1])
           after[k \in 0 .. n] ==
               IF k = 0 THEN first
               ELSE LET r == after[k - 1]
                        id == Earliest(r.left)
                        next == Resolve(r.text, r.marks, id, how)
                    IN  [text |-> next.text, marks |-> next.marks,
                         emptied |-> r.emptied \cup next.emptied, left |-> r.left \ {id}]
           D == BulkStates(S)
           F == [k \in 1 .. n |-> [d \in D |-> BulkStep(how, d)]]
           Good(k, r) == r \in D /\ BulkSound(ids, how, r) /\ IsFiniteSet(r.left) /\ Cardinality(r.left) = n - k
           G == [k \in 0 .. n |-> {r \in D : Good(k, r)}]
<1>1. BulkOutcome(ids, how) = after[n]
  BY DEF BulkOutcome, Selected
<1>2. IsFiniteSet(Selected(ids)) /\ n \in Nat
  <2>1. IsFiniteSet(Selected(ids))
    <3>1. Selected(ids) \subseteq MarkIds
      BY DEF Selected
    <3> QED BY <3>1, CoreAssumption, FS_Subset
  <2> QED BY <2>1, FS_CardinalityType
<1>3. Good(0, first)
  <2>1. first \in D
    BY DEF BulkStates, Selected
  <2>2. BulkSound(ids, how, first)
    BY DEF BulkSound, Selected, Resolvable, InBounds
  <2> QED BY <1>2, <2>1, <2>2
<1>4. ASSUME NEW k \in 1 .. n, NEW d \in D, Good(k - 1, d) PROVE Good(k, BulkStep(how, d))
  <2>1. d.left # {}
    <3>1. Cardinality(d.left) = n - (k - 1) /\ n - (k - 1) # 0
      BY <1>2, <1>4
    <3> QED BY <3>1, FS_EmptySet
  <2>2. /\ BulkStep(how, d) \in D /\ BulkSound(ids, how, BulkStep(how, d))
        /\ OneTaken(d.left, BulkStep(how, d).left)
    <3>1. d \in BulkStates(S) /\ BulkSound(ids, how, d)
      BY <1>4
    <3> HIDE DEF F, G
    <3> QED BY <2>1, <3>1, BulkStepSound
  <2> DEFINE q == BulkStep(how, d)
  <2>3. PICK id \in d.left : q.left = d.left \ {id}
    BY <2>2 DEF OneTaken
  <2>4. IsFiniteSet(q.left) /\ Cardinality(q.left) = Cardinality(d.left) - 1
    <3> HIDE DEF q
    <3> QED BY <1>4, <2>3, OneLess
  <2> HIDE DEF q, D
  <2>5. Cardinality(q.left) = n - k
    BY <1>2, <1>4, <2>4
  <2> QED BY <2>2, <2>4, <2>5 DEF q
<1> HIDE DEF Good, first, n
<1>5. first \in G[0]
  <2>1. first \in D
    BY <1>3 DEF Good
  <2> QED BY <1>2, <1>3, <2>1
<1>6. \A k \in 1 .. n : \A d \in G[k - 1] : F[k][d] \in G[k]
  <2> TAKE k \in 1 .. n
  <2> TAKE d \in G[k - 1]
  <2>1. k - 1 \in 0 .. n /\ k \in 0 .. n
    BY <1>2
  <2>2. d \in D /\ Good(k - 1, d)
    BY <2>1
  <2>3. Good(k, BulkStep(how, d)) /\ BulkStep(how, d) \in D
    BY <1>4, <2>2 DEF Good
  <2> HIDE DEF D
  <2> QED BY <2>1, <2>2, <2>3
<1>7. PICK f : Iterated(n, first, F, f) /\ \A k \in 0 .. n : f[k] \in G[k]
  <2> HIDE DEF F, G
  <2> QED BY <1>2, <1>5, <1>6, Iterates
<1>8. \A k \in 0 .. n : f[k] \in D /\ Good(k, f[k])
  <2> HIDE DEF D
  <2> QED BY <1>7
<1>9. f = [k \in 0 .. n |-> f[k]] /\ f[0] = first /\ \A k \in 1 .. n : f[k] = F[k][f[k - 1]]
  <2> HIDE DEF F, G
  <2> QED BY <1>7, Zenon DEF Iterated
<1>10. ASSUME NEW k \in 0 .. n PROVE f[k] = Next(k, f)
  <2>1. CASE k = 0
    BY <1>9, <2>1, Zenon
  <2>2. CASE k # 0
    <3>1. k \in 1 .. n /\ k - 1 \in 0 .. n
      BY <1>2, <2>2
    <3>2. f[k] = F[k][f[k - 1]] /\ f[k - 1] \in D
      <4> HIDE DEF F, D
      <4> QED BY <1>8, <1>9, <3>1, Zenon
    <3>3. F[k][f[k - 1]] = BulkStep(how, f[k - 1])
      <4> HIDE DEF D
      <4> QED BY <3>1, <3>2, Zenon
    <3> QED BY <2>2, <3>2, <3>3, Zenon
  <2> QED BY <2>1, <2>2
<1>11. f = [k \in 0 .. n |-> Next(k, f)]
  <2> HIDE DEF Next
  <2> QED BY <1>9, <1>10
<1>12. after = [k \in 0 .. n |-> Next(k, after)]
  <2>1. f = [k \in 0 .. n |->
               IF k = 0 THEN first
               ELSE LET r == f[k - 1]
                        id == Earliest(r.left)
                        next == Resolve(r.text, r.marks, id, how)
                    IN  [text |-> next.text, marks |-> next.marks,
                         emptied |-> r.emptied \cup next.emptied, left |-> r.left \ {id}]]
    BY <1>11, Zenon DEF BulkStep
  <2>2. after = [k \in 0 .. n |->
               IF k = 0 THEN first
               ELSE LET r == after[k - 1]
                        id == Earliest(r.left)
                        next == Resolve(r.text, r.marks, id, how)
                    IN  [text |-> next.text, marks |-> next.marks,
                         emptied |-> r.emptied \cup next.emptied, left |-> r.left \ {id}]]
    BY <2>1, Zenon
  <2> HIDE DEF after
  <2> QED BY <2>2, Zenon DEF BulkStep
<1> HIDE DEF after
<1> DEFINE T == {k \in 0 .. n : after[k] = f[k]}
<1>13. 0 \in T
  <2>1. 0 \in 0 .. n
    BY <1>2
  <2>2. after[0] = Next(0, after) /\ f[0] = Next(0, f)
    <3> HIDE DEF Next
    <3> QED BY <1>11, <1>12, <2>1, Zenon
  <2> QED BY <2>1, <2>2
<1>14. ASSUME NEW k \in 1 .. n, k - 1 \in T PROVE k \in T
  <2>1. k \in 0 .. n /\ k # 0
    BY <1>2
  <2>2. after[k] = Next(k, after) /\ f[k] = Next(k, f)
    <3> HIDE DEF Next
    <3> QED BY <1>11, <1>12, <2>1, Zenon
  <2> QED BY <1>14, <2>1, <2>2
<1>15. n \in T
  <2> HIDE DEF T
  <2>1. \A k \in 0 .. n : k \in T
    BY ONLY <1>2, <1>13, <1>14, Counted
  <2>2. n \in 0 .. n
    BY <1>2
  <2> QED BY <2>1, <2>2, Zenon
<1>16. after[n] = f[n] /\ n \in 0 .. n
  BY <1>15
<1>17. after[n] \in D /\ BulkSound(ids, how, after[n])
  <2> HIDE DEF D
  <2> QED BY <1>8, <1>16 DEF Good
<1> QED BY <1>1, <1>17

-----------------------------------------------------------------------------
(* Covered ranges. *)

Spans == [start : Nat, end : Nat]

Over(x, i) == x.start <= i /\ i < x.end

(* The leftmost of some ranges is one of them, and none starts before it. *)
LEMMA LeftmostIn ==
    ASSUME NEW ranges \in SUBSET Spans, ranges # {}
    PROVE  Leftmost(ranges) \in ranges /\ \A y \in ranges : Leftmost(ranges).start <= y.start
<1>0. \A y \in ranges : y.start \in Nat /\ y.end \in Nat
  BY DEF Spans
<1> DEFINE T == {y.start : y \in ranges}
<1>1. PICK s \in T : \A y \in T : s <= y
  <2>1. T \in SUBSET Nat /\ T # {}
    BY <1>0
  <2> HIDE DEF T
  <2> QED BY <2>1, LeastNumber
<1> DEFINE U == {y \in ranges : y.start = s}
           E == {y.end : y \in U}
<1>2. PICK e \in E : \A y \in E : e <= y
  <2>1. E \in SUBSET Nat /\ E # {}
    BY <1>0, <1>1
  <2> HIDE DEF E
  <2> QED BY <2>1, LeastNumber
<1>3. PICK x \in ranges : x.start = s /\ x.end = e
  BY <1>2
<1>4. \A y \in ranges : x.start < y.start \/ (x.start = y.start /\ x.end <= y.end)
  <2> TAKE y \in ranges
  <2>1. s <= y.start /\ (y.start = s => e <= y.end) /\ s \in Nat /\ e \in Nat
    BY <1>0, <1>1, <1>2
  <2> QED BY <1>0, <1>3, <2>1
<1>5. /\ Leftmost(ranges) \in ranges
      /\ \A y \in ranges : \/ Leftmost(ranges).start < y.start
                           \/ Leftmost(ranges).start = y.start /\ Leftmost(ranges).end <= y.end
  BY <1>3, <1>4, Zenon DEF Leftmost
<1> DEFINE left == Leftmost(ranges)
<1> HIDE DEF left
<1>6. left \in ranges /\ \A y \in ranges : left.start < y.start \/ left.start = y.start
  BY <1>5 DEF left
<1>7. \A y \in ranges : left.start <= y.start
  BY <1>0, <1>6
<1> QED BY <1>6, <1>7 DEF left

SweepStep(s) ==
    LET x == Leftmost(s.left)
    IN  [cursor |-> IF x.start > s.cursor THEN s.cursor ELSE Larger(s.cursor, x.end),
         left |-> s.left \ {x}]

Sweeps(covered) == [cursor : Nat, left : SUBSET covered]

(* All is covered up to the cursor, and what was swept ends there or       *)
(* starts behind a gap.                                                    *)
SweepSound(m, covered, s) ==
    /\ m.start <= s.cursor
    /\ \A i \in Nat : m.start <= i /\ i < s.cursor => \E x \in covered : Over(x, i)
    /\ \A x \in covered : \/ x \in s.left \/ x.end <= s.cursor
                          \/ x.start > s.cursor /\ \A y \in s.left : y.start > s.cursor

LEMMA SweepStepSound ==
    ASSUME NEW covered \in SUBSET Spans, NEW m, m.start \in Nat,
           NEW s \in Sweeps(covered), SweepSound(m, covered, s), s.left # {}
    PROVE  LET next == SweepStep(s)
           IN  /\ next \in Sweeps(covered) /\ SweepSound(m, covered, next)
               /\ OneTaken(s.left, next.left)
<1> DEFINE x == Leftmost(s.left)
           cursor == IF x.start > s.cursor THEN s.cursor ELSE Larger(s.cursor, x.end)
           left == s.left \ {x}
           next == [cursor |-> cursor, left |-> left]
<1>0. s.cursor \in Nat /\ s.left \in SUBSET covered /\ s.left \in SUBSET Spans
  BY DEF Sweeps
<1>1. x \in s.left /\ \A y \in s.left : x.start <= y.start
  BY <1>0, LeftmostIn
<1> HIDE DEF x
<1>2. \A y \in covered : y.start \in Nat /\ y.end \in Nat
  BY DEF Spans
<1>3. x \in covered /\ x.start \in Nat /\ x.end \in Nat
  BY <1>0, <1>1, <1>2
<1>4. cursor \in Nat /\ s.cursor <= cursor
  BY <1>0, <1>3 DEF Larger
<1>5. next \in Sweeps(covered)
  BY <1>0, <1>4 DEF Sweeps
<1>6. \A i \in Nat : m.start <= i /\ i < cursor => \E y \in covered : Over(y, i)
  <2> SUFFICES ASSUME NEW i \in Nat, m.start <= i, i < cursor PROVE \E y \in covered : Over(y, i)
    OBVIOUS
  <2>1. CASE i < s.cursor
    BY <2>1 DEF SweepSound
  <2>2. CASE ~(i < s.cursor)
    <3>1. x.start <= i /\ i < x.end
      BY <1>0, <1>3, <2>2 DEF Larger
    <3> QED BY <1>3, <3>1 DEF Over
  <2> QED BY <2>1, <2>2
<1>7. \A y \in covered : \/ y \in left \/ y.end <= cursor
                         \/ y.start > cursor /\ \A z \in left : z.start > cursor
  <2> SUFFICES ASSUME NEW y \in covered, y \notin left, ~(y.end <= cursor)
               PROVE  y.start > cursor /\ \A z \in left : z.start > cursor
    OBVIOUS
  <2>1. CASE x.start > s.cursor
    <3>1. \A z \in left : z.start > s.cursor
      <4> TAKE z \in left
      <4>1. x.start <= z.start /\ z.start \in Nat
        BY <1>0, <1>1, <1>2
      <4> QED BY <1>0, <1>3, <2>1, <4>1
    <3>2. cursor = s.cursor
      BY <2>1
    <3> HIDE DEF cursor
    <3>3. y = x \/ y.start > s.cursor
      BY <3>2 DEF SweepSound
    <3> QED BY <2>1, <3>1, <3>2, <3>3
  <2>2. CASE ~(x.start > s.cursor)
    <3>1. ~(y \in s.left) => y.end <= s.cursor
      BY <1>1, <2>2 DEF SweepSound
    <3>2. y = x
      <4>1. y \in s.left
        BY <1>0, <1>2, <1>4, <3>1
      <4> QED BY <4>1
    <3>3. x.end <= cursor
      BY <1>0, <1>3, <2>2 DEF Larger
    <3> QED BY <3>2, <3>3
  <2> QED BY <2>1, <2>2
<1>8. m.start <= cursor
  <2>1. m.start <= s.cursor
    BY DEF SweepSound
  <2> HIDE DEF cursor
  <2> QED BY <1>0, <1>4, <2>1
<1>9. SweepSound(m, covered, next)
  <2> HIDE DEF cursor, left
  <2> QED BY <1>6, <1>7, <1>8 DEF SweepSound
<1>10. OneTaken(s.left, next.left)
  BY <1>1 DEF OneTaken
<1>11. SweepStep(s) = next
  BY DEF SweepStep, x
<1> HIDE DEF next
<1> QED BY <1>5, <1>9, <1>10, <1>11

(* A part of a range that is empty covers nothing, and one that is not     *)
(* covers what the deletion covers of the range.                           *)
Parts(m, deletes) == {x \in {Intersect(d, m) : d \in deletes} : ~IsEmpty(x)}

LEMMA PartsCover ==
    ASSUME NEW m \in Mark, NEW deletes \in SUBSET Mark
    PROVE  /\ Parts(m, deletes) \in SUBSET Spans
           /\ \A i \in Nat : m.start <= i /\ i < m.end =>
                ((\E x \in Parts(m, deletes) : Over(x, i)) <=> \E d \in deletes : Over(d, i))
<1>1. m.start \in Nat /\ m.end \in Nat /\ \A d \in deletes : d.start \in Nat /\ d.end \in Nat
  BY CoreAssumption DEF Mark
<1>2. ASSUME NEW d \in deletes
      PROVE  /\ Intersect(d, m) \in Spans
             /\ \A i \in Nat : m.start <= i /\ i < m.end => (Over(Intersect(d, m), i) <=> Over(d, i))
             /\ \A i \in Nat : Over(Intersect(d, m), i) => ~IsEmpty(Intersect(d, m))
  <2>1. d.start \in Nat /\ d.end \in Nat
    BY <1>1
  <2>2. Larger(d.start, m.start) \in Nat /\ Smaller(d.end, m.end) \in Nat
    BY <1>1, <2>1 DEF Larger, Smaller
  <2>3. Intersect(d, m) \in Spans
    BY <2>2 DEF Intersect, Spans
  <2>4. Intersect(d, m).start = Larger(d.start, m.start) /\ Intersect(d, m).end = Smaller(d.end, m.end)
    BY DEF Intersect
  <2>5. \A i \in Nat : m.start <= i /\ i < m.end => (Over(Intersect(d, m), i) <=> Over(d, i))
    BY <1>1, <2>1, <2>4 DEF Over, Larger, Smaller
  <2>6. \A i \in Nat : Over(Intersect(d, m), i) => ~IsEmpty(Intersect(d, m))
    BY <2>2, <2>4 DEF Over, IsEmpty
  <2> QED BY <2>3, <2>5, <2>6
<1>3. Parts(m, deletes) \in SUBSET Spans
  BY <1>2 DEF Parts
<1>4. ASSUME NEW i \in Nat, m.start <= i, i < m.end
      PROVE  (\E x \in Parts(m, deletes) : Over(x, i)) <=> \E d \in deletes : Over(d, i)
  <2>1. ASSUME NEW x \in Parts(m, deletes), Over(x, i) PROVE \E d \in deletes : Over(d, i)
    BY <1>2, <1>4, <2>1 DEF Parts
  <2>2. ASSUME NEW d \in deletes, Over(d, i) PROVE \E x \in Parts(m, deletes) : Over(x, i)
    <3>1. Over(Intersect(d, m), i) /\ ~IsEmpty(Intersect(d, m))
      BY <1>2, <1>4, <2>2
    <3>2. Intersect(d, m) \in Parts(m, deletes)
      BY <3>1 DEF Parts
    <3> QED BY <3>1, <3>2
  <2> QED BY <2>1, <2>2
<1> QED BY <1>3, <1>4

(* is_range_fully_deleted answers whether every character of the range is  *)
(* in a deletion.                                                          *)
LEMMA SweepExact ==
    ASSUME NEW m \in Mark, NEW deletes \in SUBSET Mark, IsFiniteSet(deletes)
    PROVE  RangeFullyDeleted(m, deletes) <=>
             ~IsEmpty(m) /\ \A i \in m.start .. (m.end - 1) : \E d \in deletes : Over(d, i)
<1> DEFINE covered == Parts(m, deletes)
           n == Cardinality(covered)
           first == [cursor |-> m.start, left |-> covered]
           Next(k, o) == IF k = 0 THEN first ELSE SweepStep(o[k - 1])
           sweep[k \in 0 .. n] ==
               IF k = 0 THEN first
               ELSE LET s == sweep[k - 1]
                        x == Leftmost(s.left)
                    IN  [cursor |-> IF x.start > s.cursor THEN s.cursor ELSE Larger(s.cursor, x.end),
                         left |-> s.left \ {x}]
           D == Sweeps(covered)
           F == [k \in 1 .. n |-> [d \in D |-> SweepStep(d)]]
           Good(k, s) == s \in D /\ SweepSound(m, covered, s) /\ IsFiniteSet(s.left) /\ Cardinality(s.left) = n - k
           G == [k \in 0 .. n |-> {s \in D : Good(k, s)}]
<1>1. RangeFullyDeleted(m, deletes) <=> ~IsEmpty(m) /\ covered # {} /\ sweep[n].cursor >= m.end
  BY DEF RangeFullyDeleted, Parts
<1>0. m.start \in Nat /\ m.end \in Nat /\ covered \in SUBSET Spans
  BY PartsCover, CoreAssumption DEF Mark
<1>2. IsFiniteSet(covered) /\ n \in Nat
  <2> DEFINE all == {Intersect(d, m) : d \in deletes}
  <2>1. IsFiniteSet(all)
    <3> DEFINE f == [d \in deletes |-> Intersect(d, m)]
    <3>1. all = {f[d] : d \in deletes} /\ f = [d \in deletes |-> f[d]]
      OBVIOUS
    <3> HIDE DEF f, all
    <3> QED BY <3>1, ImageFinite
  <2>2. covered \subseteq all
    BY DEF Parts
  <2> HIDE DEF all
  <2>3. IsFiniteSet(covered)
    BY <2>1, <2>2, FS_Subset
  <2> QED BY <2>3, FS_CardinalityType
<1> HIDE DEF covered
<1>3. Good(0, first)
  <2>1. first \in D
    BY <1>0 DEF Sweeps
  <2>2. SweepSound(m, covered, first)
    BY <1>0 DEF SweepSound
  <2> QED BY <1>2, <2>1, <2>2
<1>4. ASSUME NEW k \in 1 .. n, NEW d \in D, Good(k - 1, d) PROVE Good(k, SweepStep(d))
  <2>1. d.left # {}
    <3>1. Cardinality(d.left) = n - (k - 1) /\ n - (k - 1) # 0
      BY <1>2, <1>4
    <3> QED BY <3>1, FS_EmptySet
  <2>2. /\ SweepStep(d) \in D /\ SweepSound(m, covered, SweepStep(d))
        /\ OneTaken(d.left, SweepStep(d).left)
    <3>1. d \in Sweeps(covered) /\ SweepSound(m, covered, d)
      BY <1>4
    <3> HIDE DEF F, G
    <3> QED BY <1>0, <2>1, <3>1, SweepStepSound
  <2> DEFINE q == SweepStep(d)
  <2>3. PICK x \in d.left : q.left = d.left \ {x}
    BY <2>2 DEF OneTaken
  <2>4. IsFiniteSet(q.left) /\ Cardinality(q.left) = Cardinality(d.left) - 1
    <3> HIDE DEF q
    <3> QED BY <1>4, <2>3, OneLess
  <2> HIDE DEF q, D
  <2>5. Cardinality(q.left) = n - k
    BY <1>2, <1>4, <2>4
  <2> QED BY <2>2, <2>4, <2>5 DEF q
<1> HIDE DEF Good, first, n
<1>5. first \in G[0]
  <2>1. first \in D
    BY <1>3 DEF Good
  <2> QED BY <1>2, <1>3, <2>1
<1>6. \A k \in 1 .. n : \A d \in G[k - 1] : F[k][d] \in G[k]
  <2> TAKE k \in 1 .. n
  <2> TAKE d \in G[k - 1]
  <2>1. k - 1 \in 0 .. n /\ k \in 0 .. n
    BY <1>2
  <2>2. d \in D /\ Good(k - 1, d)
    BY <2>1
  <2>3. Good(k, SweepStep(d)) /\ SweepStep(d) \in D
    BY <1>4, <2>2 DEF Good
  <2> HIDE DEF D
  <2> QED BY <2>1, <2>2, <2>3
<1>7. PICK f : Iterated(n, first, F, f) /\ \A k \in 0 .. n : f[k] \in G[k]
  <2> HIDE DEF F, G
  <2> QED BY <1>2, <1>5, <1>6, Iterates
<1>8. \A k \in 0 .. n : f[k] \in D /\ Good(k, f[k])
  <2> HIDE DEF D
  <2> QED BY <1>7
<1>9. f = [k \in 0 .. n |-> f[k]] /\ f[0] = first /\ \A k \in 1 .. n : f[k] = F[k][f[k - 1]]
  <2> HIDE DEF F, G
  <2> QED BY <1>7, Zenon DEF Iterated
<1>10. ASSUME NEW k \in 0 .. n PROVE f[k] = Next(k, f)
  <2>1. CASE k = 0
    BY <1>9, <2>1, Zenon
  <2>2. CASE k # 0
    <3>1. k \in 1 .. n /\ k - 1 \in 0 .. n
      BY <1>2, <2>2
    <3>2. f[k] = F[k][f[k - 1]] /\ f[k - 1] \in D
      <4> HIDE DEF F, D
      <4> QED BY <1>8, <1>9, <3>1, Zenon
    <3>3. F[k][f[k - 1]] = SweepStep(f[k - 1])
      <4> HIDE DEF D
      <4> QED BY <3>1, <3>2, Zenon
    <3> QED BY <2>2, <3>2, <3>3, Zenon
  <2> QED BY <2>1, <2>2
<1>11. f = [k \in 0 .. n |-> Next(k, f)]
  <2> HIDE DEF Next
  <2> QED BY <1>9, <1>10
<1>12. sweep = [k \in 0 .. n |-> Next(k, sweep)]
  <2>1. f = [k \in 0 .. n |->
               IF k = 0 THEN first
               ELSE LET s == f[k - 1]
                        x == Leftmost(s.left)
                    IN  [cursor |-> IF x.start > s.cursor THEN s.cursor ELSE Larger(s.cursor, x.end),
                         left |-> s.left \ {x}]]
    BY <1>11, Zenon DEF SweepStep
  <2>2. sweep = [k \in 0 .. n |->
               IF k = 0 THEN first
               ELSE LET s == sweep[k - 1]
                        x == Leftmost(s.left)
                    IN  [cursor |-> IF x.start > s.cursor THEN s.cursor ELSE Larger(s.cursor, x.end),
                         left |-> s.left \ {x}]]
    BY <2>1, Zenon
  <2> HIDE DEF sweep
  <2> QED BY <2>2, Zenon DEF SweepStep
<1> HIDE DEF sweep
<1> DEFINE T == {k \in 0 .. n : sweep[k] = f[k]}
<1>13. 0 \in T
  <2>1. 0 \in 0 .. n
    BY <1>2
  <2>2. sweep[0] = Next(0, sweep) /\ f[0] = Next(0, f)
    <3> HIDE DEF Next
    <3> QED BY <1>11, <1>12, <2>1, Zenon
  <2> QED BY <2>1, <2>2
<1>14. ASSUME NEW k \in 1 .. n, k - 1 \in T PROVE k \in T
  <2>1. k \in 0 .. n /\ k # 0
    BY <1>2
  <2>2. sweep[k] = Next(k, sweep) /\ f[k] = Next(k, f)
    <3> HIDE DEF Next
    <3> QED BY <1>11, <1>12, <2>1, Zenon
  <2> QED BY <1>14, <2>1, <2>2
<1>15. n \in T
  <2> HIDE DEF T
  <2> QED BY <1>2, <1>13, <1>14, Counted
<1>16. sweep[n] = f[n] /\ n \in 0 .. n
  BY <1>15
<1>17. /\ sweep[n] \in D /\ SweepSound(m, covered, sweep[n])
       /\ IsFiniteSet(sweep[n].left) /\ Cardinality(sweep[n].left) = 0
  <2>1. Good(n, sweep[n])
    BY <1>8, <1>16
  <2> HIDE DEF D
  <2> QED BY <1>2, <2>1 DEF Good
<1> DEFINE c == sweep[n].cursor
<1>18. /\ c \in Nat /\ m.start <= c
       /\ \A i \in Nat : m.start <= i /\ i < c => \E x \in covered : Over(x, i)
       /\ \A x \in covered : x.end <= c \/ x.start > c
  <2>1. sweep[n].left = {}
    BY <1>17, FS_EmptySet
  <2> QED BY <1>17, <2>1 DEF SweepSound, Sweeps
<1> HIDE DEF c
<1>19. \A i \in Nat : m.start <= i /\ i < m.end =>
         ((\E x \in covered : Over(x, i)) <=> \E d \in deletes : Over(d, i))
  BY PartsCover DEF covered
<1>20. ASSUME ~IsEmpty(m), covered # {}, c >= m.end
       PROVE  \A i \in m.start .. (m.end - 1) : \E d \in deletes : Over(d, i)
  <2> TAKE i \in m.start .. (m.end - 1)
  <2>1. i \in Nat /\ m.start <= i /\ i < m.end /\ i < c
    BY <1>0, <1>18, <1>20
  <2> QED BY <1>18, <1>19, <2>1
<1>21. ASSUME ~IsEmpty(m), \A i \in m.start .. (m.end - 1) : \E d \in deletes : Over(d, i)
       PROVE  covered # {} /\ c >= m.end
  <2>1. \A i \in Nat : m.start <= i /\ i < m.end => \E x \in covered : Over(x, i)
    <3> TAKE i \in Nat
    <3> HAVE m.start <= i /\ i < m.end
    <3>1. i \in m.start .. (m.end - 1)
      BY <1>0
    <3> QED BY <1>19, <1>21, <3>1
  <2>2. m.start < m.end
    BY <1>0, <1>21 DEF IsEmpty
  <2>3. covered # {}
    BY <1>0, <2>1, <2>2
  <2>4. ASSUME c < m.end PROVE FALSE
    <3>1. PICK x \in covered : Over(x, c)
      BY <1>18, <2>1, <2>4
    <3>2. x.start \in Nat /\ x.end \in Nat
      BY <1>0 DEF Spans
    <3> QED BY <1>18, <3>1, <3>2 DEF Over
  <2> QED BY <1>0, <1>18, <2>3, <2>4
<1> QED BY <1>1, <1>20, <1>21 DEF c

-----------------------------------------------------------------------------
(* Threads and validation. *)

LEMMA DeletionsAreFinite ==
    ASSUME marks \in MarkSets
    PROVE  DeleteMarks \in SUBSET Mark /\ IsFiniteSet(DeleteMarks)
<1> DEFINE ids == OfKind(marks, "delete")
<1>1. ids \in SUBSET MarkIds /\ \A id \in ids : marks[id] # NoMark
  BY DEF OfKind
<1>2. IsFiniteSet(ids)
  BY <1>1, CoreAssumption, FS_Subset
<1>3. DeleteMarks \in SUBSET Mark
  BY <1>1, MarkType DEF DeleteMarks
<1> DEFINE f == [id \in ids |-> marks[id]]
<1>4. DeleteMarks = {f[id] : id \in ids} /\ f = [id \in ids |-> f[id]]
  BY DEF DeleteMarks
<1> HIDE DEF f, ids
<1>5. IsFiniteSet({f[id] : id \in ids})
  BY <1>2, <1>4, ImageFinite
<1> QED BY <1>3, <1>4, <1>5

(* A comment is anchored when a character of its range survives, and only   *)
(* then unless it goes on past the end of the text.                         *)
LEMMA AnchoredSurvives ==
    ASSUME marks \in MarkSets, Len(text) \in Nat, NEW id \in MarkIds, marks[id] # NoMark,
           marks[id].kind = "comment"
    PROVE  /\ Survives(id) => ~IsEmpty(marks[id]) /\ ~RangeFullyDeleted(marks[id], DeleteMarks)
           /\ ~IsEmpty(marks[id]) /\ ~RangeFullyDeleted(marks[id], DeleteMarks)
                => Survives(id) \/ marks[id].end > Len(text)
<1> DEFINE m == marks[id]
<1>1. m \in Mark /\ m.start \in Nat /\ m.end \in Nat
  BY MarkType
<1>2. DeleteMarks \in SUBSET Mark /\ IsFiniteSet(DeleteMarks)
  BY DeletionsAreFinite
<1> HIDE DEF m
<1>3. RangeFullyDeleted(m, DeleteMarks) <=>
        ~IsEmpty(m) /\ \A i \in m.start .. (m.end - 1) : \E d \in DeleteMarks : Over(d, i)
  BY ONLY <1>1, <1>2, SweepExact
<1>4. IsEmpty(m) => m.start .. (m.end - 1) = {}
  BY <1>1 DEF IsEmpty
<1> DEFINE Free(i) == \A d \in DeleteMarks : ~(d.start <= i /\ i < d.end)
<1>5. ~IsEmpty(m) /\ ~RangeFullyDeleted(m, DeleteMarks) <=> \E i \in m.start .. (m.end - 1) : Free(i)
  BY <1>3, <1>4, Zenon DEF Over
<1>6. Survives(id) <=> \E i \in m.start .. (m.end - 1) : i < Len(text) /\ Free(i)
  BY Zenon DEF Survives, m
<1> HIDE DEF Free
<1>7. m.end <= Len(text) => \A i \in m.start .. (m.end - 1) : i < Len(text)
  BY <1>1
<1>8. Survives(id) \/ m.end <= Len(text) \/ m.end > Len(text)
  BY <1>1
<1>9. /\ Survives(id) => ~IsEmpty(m) /\ ~RangeFullyDeleted(m, DeleteMarks)
      /\ ~IsEmpty(m) /\ ~RangeFullyDeleted(m, DeleteMarks) => Survives(id) \/ m.end > Len(text)
  BY <1>5, <1>6, <1>7, <1>8, Zenon
<1> QED BY <1>9, Zenon DEF m

(* The marks of two ranges share a character of the text exactly when the  *)
(* clamped ranges intersect.                                               *)
LEMMA ClampedIntersect ==
    ASSUME NEW n \in Nat, NEW a \in Mark, NEW b \in Mark
    PROVE  LET clamp(m) == [m EXCEPT !.start = Smaller(@, n), !.end = Smaller(@, n)]
           IN  ~IsEmpty(clamp(a)) /\ ~IsEmpty(clamp(b)) /\ ~IsEmpty(Intersect(clamp(a), clamp(b)))
                 <=> \E i \in 0 .. (n - 1) : Over(a, i) /\ Over(b, i)
<1> DEFINE clamp(m) == [m EXCEPT !.start = Smaller(@, n), !.end = Smaller(@, n)]
<1>1. a.start \in Nat /\ a.end \in Nat /\ b.start \in Nat /\ b.end \in Nat
  BY CoreAssumption DEF Mark
<1>2. \A m \in Mark : clamp(m).start = Smaller(m.start, n) /\ clamp(m).end = Smaller(m.end, n)
  BY DEF Mark
<1> DEFINE p == clamp(a)
           q == clamp(b)
<1>3. /\ p.start = Smaller(a.start, n) /\ p.end = Smaller(a.end, n)
      /\ q.start = Smaller(b.start, n) /\ q.end = Smaller(b.end, n)
  BY <1>2
<1> HIDE DEF p, q
<1>4. ASSUME ~IsEmpty(p), ~IsEmpty(q), ~IsEmpty(Intersect(p, q))
      PROVE  \E i \in 0 .. (n - 1) : Over(a, i) /\ Over(b, i)
  <2> DEFINE i == Larger(p.start, q.start)
  <2>1. i < Smaller(p.end, q.end) /\ i \in Nat
    BY <1>1, <1>3, <1>4 DEF IsEmpty, Intersect, Larger, Smaller
  <2>2. a.start <= i /\ i < a.end /\ b.start <= i /\ i < b.end /\ i < n
    BY <1>1, <1>3, <2>1 DEF Larger, Smaller
  <2> HIDE DEF i
  <2>3. i \in 0 .. (n - 1)
    BY <2>1, <2>2
  <2> QED BY <2>2, <2>3 DEF Over
<1>5. ASSUME NEW i \in 0 .. (n - 1), Over(a, i), Over(b, i)
      PROVE  ~IsEmpty(p) /\ ~IsEmpty(q) /\ ~IsEmpty(Intersect(p, q))
  <2>1. p.start <= i /\ i < p.end /\ q.start <= i /\ i < q.end
    BY <1>1, <1>3, <1>5 DEF Over, Smaller
  <2>2. Larger(p.start, q.start) <= i /\ i < Smaller(p.end, q.end)
    BY <2>1 DEF Larger, Smaller
  <2>3. p.start \in Nat /\ p.end \in Nat /\ q.start \in Nat /\ q.end \in Nat
    BY <1>1, <1>3 DEF Smaller
  <2> QED BY <2>1, <2>2, <2>3 DEF IsEmpty, Intersect, Larger, Smaller
<1>6. ~IsEmpty(p) /\ ~IsEmpty(q) /\ ~IsEmpty(Intersect(p, q))
        <=> \E i \in 0 .. (n - 1) : Over(a, i) /\ Over(b, i)
  BY <1>4, <1>5
<1> QED BY <1>6 DEF p, q

(* Characters that an insertion and a deletion share carry both flags. *)
LEMMA SharedFlags ==
    ASSUME marks \in MarkSets, Len(text) \in Nat, NEW i \in 0 .. (Len(text) - 1),
           NEW a \in OfKind(marks, "insert"), NEW b \in OfKind(marks, "delete"),
           Over(marks[a], i), Over(marks[b], i)
    PROVE  {"insert", "delete"} \subseteq CharFlags(text, marks)[i]
<1>1. CharFlags(text, marks)[i] =
        {kind \in MarkKinds \ {"comment"} :
            \E id \in OfKind(marks, kind) : marks[id].start <= i /\ i < marks[id].end}
  BY DEF CharFlags
<1>2. "insert" \in MarkKinds \ {"comment"} /\ "delete" \in MarkKinds \ {"comment"}
  BY DEF MarkKinds
<1> QED BY <1>1, <1>2 DEF Over

-----------------------------------------------------------------------------
(* The specification. *)

Letters == UNION {Range(t) : t \in Texts}

CoreTypeOK == text \in Seq(Letters) /\ marks \in MarkSets

LEMMA TextsType == Texts \subseteq Seq(Letters)
<1> SUFFICES ASSUME NEW t \in Texts PROVE t \in Seq(Letters)
  OBVIOUS
<1>1. t \in Seq(Range(t)) /\ Range(t) \subseteq Letters
  BY DocumentAssumption DEF Letters
<1> QED BY <1>1

(* What accept, reject and resolve_bulk do to the document. *)
LEMMA ResolutionStep ==
    ASSUME CoreTypeOK, CoreNext, done'.op \in {"resolve", "bulk"}
    PROVE  /\ CoreTypeOK' /\ InBounds(marks, text, marks', text')
           /\ Project(text', marks', View(done'.how)) = Project(text, marks, View(done'.how))
<1>1. ASSUME NEW id \in MarkIds, NEW how \in {"accept", "reject"}, ResolveOne(id, how)
      PROVE  /\ CoreTypeOK' /\ InBounds(marks, text, marks', text')
             /\ Project(text', marks', View(done'.how)) = Project(text, marks, View(done'.how))
  <2> DEFINE r == Resolve(text, marks, id, how)
  <2>1. Resolvable(marks, id) /\ text' = r.text /\ marks' = r.marks /\ done'.how = how
    BY <1>1 DEF ResolveOne
  <2>2. /\ r.text \in Seq(Letters)
        /\ KeepsMarks(marks, id, r.marks) /\ InBounds(marks, text, r.marks, r.text)
        /\ Project(r.text, r.marks, View(how)) = Project(text, marks, View(how))
    BY <2>1, ResolveKeeps DEF CoreTypeOK
  <2> HIDE DEF r
  <2>3. r.marks \in MarkSets
    BY <2>2 DEF KeepsMarks
  <2> QED BY <2>1, <2>2, <2>3 DEF CoreTypeOK
<1>2. ASSUME NEW ids \in SUBSET MarkIds, NEW how \in {"accept", "reject"}, ResolveBulk(ids, how)
      PROVE  /\ CoreTypeOK' /\ InBounds(marks, text, marks', text')
             /\ Project(text', marks', View(done'.how)) = Project(text, marks, View(done'.how))
  <2> DEFINE r == BulkOutcome(ids, how)
  <2>1. /\ \A id \in ids : marks[id] # NoMark => IsChange(marks[id])
        /\ text' = r.text /\ marks' = r.marks /\ done'.how = how
    BY <1>2 DEF ResolveBulk
  <2>2. r \in BulkStates(Letters) /\ BulkSound(ids, how, r)
    BY <2>1, BulkKeeps DEF CoreTypeOK
  <2> HIDE DEF r
  <2>3. /\ r.text \in Seq(Letters) /\ r.marks \in MarkSets /\ InBounds(marks, text, r.marks, r.text)
        /\ Project(r.text, r.marks, View(how)) = Project(text, marks, View(how))
    BY <2>2 DEF BulkStates, BulkSound
  <2> QED BY <2>1, <2>3 DEF CoreTypeOK
<1>3. \/ \E id \in MarkIds, how \in {"accept", "reject"} : ResolveOne(id, how)
      \/ \E ids \in SUBSET MarkIds, how \in {"accept", "reject"} : ResolveBulk(ids, how)
  BY DEF CoreNext, Idle, AddMark, RemoveMark, SetText, NewThread, SetThread, RefreshCommentThreads
<1> QED BY <1>1, <1>2, <1>3

(* Texts are sequences and marks are marks, whatever a client loads or adds. *)
THEOREM DocumentsAreTyped == CoreSpec => []CoreTypeOK
<1>1. CoreInit => CoreTypeOK
  BY TextsType, DocumentAssumption DEF CoreInit, CoreTypeOK, MarkSets
<1>2. CoreTypeOK /\ [CoreNext]_coreVars => CoreTypeOK'
  <2> SUFFICES ASSUME CoreTypeOK, [CoreNext]_coreVars PROVE CoreTypeOK'
    OBVIOUS
  <2>1. ASSUME NEW id \in MarkIds, NEW m \in NewMarks, AddMark(id, m) PROVE CoreTypeOK'
    <3>1. m \in Mark
      BY DocumentAssumption
    <3> QED BY <2>1, <3>1 DEF AddMark, CoreTypeOK, MarkSets
  <2>2. ASSUME NEW id \in MarkIds, RemoveMark(id) PROVE CoreTypeOK'
    BY <2>2 DEF RemoveMark, CoreTypeOK, MarkSets
  <2>3. ASSUME NEW t \in Texts, SetText(t) PROVE CoreTypeOK'
    BY <2>3, TextsType DEF SetText, CoreTypeOK, MarkSets, NoMarks
  <2>4. CASE CoreNext /\ done'.op \in {"resolve", "bulk"}
    BY <2>4, ResolutionStep
  <2>5. CASE UNCHANGED <<text, marks>>
    BY <2>5 DEF CoreTypeOK
  <2>6. ASSUME NEW id \in MarkIds, NEW how, ResolveOne(id, how) PROVE done'.op = "resolve"
    BY <2>6 DEF ResolveOne
  <2>7. ASSUME NEW ids, NEW how, ResolveBulk(ids, how) PROVE done'.op = "bulk"
    BY <2>7 DEF ResolveBulk
  <2> QED BY <2>1, <2>2, <2>3, <2>4, <2>5, <2>6, <2>7
          DEF CoreNext, NewThread, SetThread, RefreshCommentThreads, coreVars
<1> QED BY <1>1, <1>2, PTL DEF CoreSpec

(* A resolution, alone or as a step of a batch, leaves every mark that was in   *)
(* the text in it (resolve, resolve_bulk, remap_range_after_deletion).          *)
THEOREM MarksStayInTheText == CoreSpec => ResolutionsKeepBounds
<1>1. CoreTypeOK /\ [CoreNext]_coreVars =>
        [\A id \in MarkIds :
           done'.op \in {"resolve", "bulk"} /\ marks[id] # NoMark /\ marks'[id] # NoMark /\ InText(marks[id], text)
             => InText(marks'[id], text')]_coreVars
  BY ResolutionStep DEF InBounds
<1> QED BY <1>1, DocumentsAreTyped, PTL DEF CoreSpec, ResolutionsKeepBounds

(* Accepting leaves the proposed text, rejecting the baseline, whatever else is *)
(* pending and however the ranges overlap (resolve, resolve_bulk, filter).      *)
THEOREM ViewsAreKept == CoreSpec => ResolutionsKeepViews
<1>1. CoreTypeOK /\ [CoreNext]_coreVars =>
        [done'.op \in {"resolve", "bulk"} =>
           LET view == IF done'.how = "accept" THEN "proposed" ELSE "baseline"
           IN  Project(text', marks', view) = Project(text, marks, view)]_coreVars
  BY ResolutionStep DEF View
<1> QED BY <1>1, DocumentsAreTyped, PTL DEF CoreSpec, ResolutionsKeepViews

(* After a refresh a thread is orphaned exactly when the deletions cover every  *)
(* character of its anchor, if the anchor is in the text: one that overhangs it *)
(* may keep its thread (refresh_comment_threads, is_range_fully_deleted).       *)
THEOREM OrphansAreExact == CoreSpec => ThreadsFollowAnchors
<1> DEFINE Follows ==
             done'.op = "refresh" =>
               \A id \in MarkIds : threads[id] # "none" =>
                  /\ threads'[id] = "orphaned" => ~Survives(id)
                  /\ ~Survives(id) /\ ~Overhangs(id) => threads'[id] = "orphaned"
                  /\ threads[id] \in {"open", "resolved"} => threads'[id] \in {threads[id], "orphaned"}
<1>1. CoreTypeOK /\ [CoreNext]_coreVars => [Follows]_coreVars
  <2> SUFFICES ASSUME CoreTypeOK, CoreNext, done'.op = "refresh", NEW id \in MarkIds, threads[id] # "none"
               PROVE  /\ threads'[id] = "orphaned" => ~Survives(id)
                      /\ ~Survives(id) /\ ~Overhangs(id) => threads'[id] = "orphaned"
                      /\ threads[id] \in {"open", "resolved"} => threads'[id] \in {threads[id], "orphaned"}
    OBVIOUS
  <2>1. RefreshCommentThreads
    BY DEF CoreNext, Idle, AddMark, RemoveMark, SetText, NewThread, SetThread, ResolveOne, ResolveBulk
  <2>2. (Survives(id) => Anchored(id)) /\ (Anchored(id) => Survives(id) \/ Overhangs(id))
    <3>1. CASE marks[id] = NoMark \/ marks[id].kind # "comment"
      BY <3>1 DEF Anchored, Survives
    <3>2. CASE marks[id] # NoMark /\ marks[id].kind = "comment"
      BY <3>2, AnchoredSurvives DEF Anchored, Overhangs, CoreTypeOK
    <3> QED BY <3>1, <3>2
  <2>3. threads'[id] = IF ~Anchored(id) THEN "orphaned"
                       ELSE IF threads[id] = "orphaned" THEN "open" ELSE threads[id]
    BY <2>1 DEF RefreshCommentThreads
  <2> QED BY <2>2, <2>3
<1>2. CoreTypeOK /\ [CoreNext]_coreVars =>
        [done'.op = "refresh" =>
           \A id \in MarkIds : threads[id] # "none" =>
              /\ threads'[id] = "orphaned" => ~Survives(id)
              /\ ~Survives(id) /\ ~Overhangs(id) => threads'[id] = "orphaned"
              /\ threads[id] \in {"open", "resolved"} => threads'[id] \in {threads[id], "orphaned"}]_coreVars
  BY <1>1
<1> QED BY <1>2, DocumentsAreTyped, PTL DEF CoreSpec, ThreadsFollowAnchors

(* validate reports every conflict of a document and no other, an orphan only   *)
(* where a comment vanishes, and every comment that vanishes one way or another *)
(* (validate, is_range_fully_deleted).                                          *)
THEOREM ReportsAreExact == CoreSpec => []ValidationExact
<1>1. CoreTypeOK => ValidationExact
  <2> SUFFICES ASSUME CoreTypeOK PROVE ValidationExact
    OBVIOUS
  <2>0. text \in Seq(Letters) /\ marks \in MarkSets /\ Len(text) \in Nat
    BY DEF CoreTypeOK
  <2> DEFINE pairs == OfKind(marks, "insert") \X OfKind(marks, "delete")
             clamp(m) == [m EXCEPT !.start = Smaller(@, Len(text)), !.end = Smaller(@, Len(text))]
             Meet(p) == ~IsEmpty(clamp(marks[p[1]])) /\ ~IsEmpty(clamp(marks[p[2]]))
                        /\ ~IsEmpty(Intersect(clamp(marks[p[1]]), clamp(marks[p[2]])))
             Share(p) == \E i \in 0 .. (Len(text) - 1) : Over(marks[p[1]], i) /\ Over(marks[p[2]], i)
             both == \E i \in DOMAIN CharFlags(text, marks) :
                        {"insert", "delete"} \subseteq CharFlags(text, marks)[i]
  <2>1. InsertDeleteConflicts = IF both THEN {p \in pairs : Meet(p)} ELSE {}
    BY DEF InsertDeleteConflicts
  <2>2. ASSUME NEW p \in pairs PROVE (Meet(p) <=> Share(p)) /\ (Share(p) => both)
    <3>1. /\ p[1] \in OfKind(marks, "insert") /\ p[2] \in OfKind(marks, "delete")
          /\ marks[p[1]] \in Mark /\ marks[p[2]] \in Mark
      BY <2>0, MarkType DEF OfKind
    <3>2. Meet(p) <=> Share(p)
      BY <2>0, <3>1, ClampedIntersect
    <3>3. DOMAIN CharFlags(text, marks) = 0 .. (Len(text) - 1)
      BY DEF CharFlags
    <3>4. Share(p) => both
      BY <2>0, <3>1, <3>3, SharedFlags
    <3> QED BY <3>2, <3>4
  <2> HIDE DEF both, Meet
  <2>3. InsertDeleteConflicts = {p \in pairs : Share(p)}
    <3> HIDE DEF pairs, Share
    <3> QED BY <2>1, <2>2
  <2>4. ASSUME NEW p \in pairs
        PROVE  Share(p) <=> \E i \in 0 .. Len(text) - 1 :
                              \A j \in {p[1], p[2]} : marks[j].start <= i /\ i < marks[j].end
    BY DEF Over
  <2>5. InsertDeleteConflicts =
          {p \in pairs : \E i \in 0 .. Len(text) - 1 :
              \A j \in {p[1], p[2]} : marks[j].start <= i /\ i < marks[j].end}
    <3> HIDE DEF pairs, Share
    <3> QED BY <2>3, <2>4
  <2>6. ASSUME NEW id \in OfKind(marks, "comment")
        PROVE  /\ RangeFullyDeleted(marks[id], DeleteMarks) => ~IsEmpty(marks[id]) /\ ~Survives(id)
               /\ ~IsEmpty(marks[id]) /\ ~Survives(id)
                    => RangeFullyDeleted(marks[id], DeleteMarks) \/ id \in OutOfBounds
    <3>1. id \in MarkIds /\ marks[id] # NoMark /\ marks[id].kind = "comment"
      BY DEF OfKind
    <3>2. RangeFullyDeleted(marks[id], DeleteMarks) => ~IsEmpty(marks[id])
      BY DEF RangeFullyDeleted
    <3>3. marks[id].start \in Nat /\ marks[id].end \in Nat
      BY <2>0, <3>1, MarkType
    <3>4. ~IsEmpty(marks[id]) /\ marks[id].end > Len(text) => id \in OutOfBounds
      BY <3>1, <3>3 DEF OutOfBounds, IsEmpty
    <3> QED BY <2>0, <3>1, <3>2, <3>4, AnchoredSurvives
  <2>7. /\ OrphanedComments \subseteq VanishedComments
        /\ VanishedComments \subseteq OrphanedComments \cup OutOfBounds
    BY <2>6, Zenon DEF OrphanedComments, VanishedComments
  <2> QED BY <2>5, <2>7 DEF ValidationExact
<1> QED BY <1>1, DocumentsAreTyped, PTL

-----------------------------------------------------------------------------
(* The characters of a view by their places. *)

(* How many of the places shown are among the first i. *)
Rank(shown, i) == Cardinality(shown \cap (1 .. i))

(* The k-th of the places shown. *)
PlaceAt(shown, k) == CHOOSE i \in shown : Cardinality(shown \cap (1 .. i)) = k

LEMMA Ranks ==
    ASSUME NEW n \in Nat, NEW shown \in SUBSET (1 .. n)
    PROVE  /\ IsFiniteSet(shown) /\ \A m \in 0 .. n : Rank(shown, m) \in Nat
           /\ Rank(shown, 0) = 0 /\ Rank(shown, n) = Cardinality(shown)
           /\ \A m \in 1 .. n : Rank(shown, m) = IF m \in shown THEN Rank(shown, m - 1) + 1 ELSE Rank(shown, m - 1)
           /\ \A i \in 0 .. n, j \in shown : i < j => Rank(shown, i) < Rank(shown, j)
<1>1. IsFiniteSet(shown)
  <2>1. 1 \in Int /\ n \in Int
    OBVIOUS
  <2>2. IsFiniteSet(1 .. n)
    BY <2>1, FS_Interval
  <2> QED BY <2>2, FS_Subset
<1>2. \A m \in 0 .. n : IsFiniteSet(shown \cap (1 .. m)) /\ Cardinality(shown \cap (1 .. m)) \in Nat
  <2> TAKE m \in 0 .. n
  <2> DEFINE some == shown \cap (1 .. m)
  <2>1. some \in SUBSET shown
    OBVIOUS
  <2> HIDE DEF some
  <2>2. IsFiniteSet(some)
    BY <1>1, <2>1, FS_Subset
  <2>3. Cardinality(some) \in Nat
    BY <2>2, FS_CardinalityType
  <2> QED BY <2>2, <2>3 DEF some
<1>3. shown \cap (1 .. 0) = {} /\ shown \cap (1 .. n) = shown
  <2>1. \A x \in 1 .. 0 : FALSE
    OBVIOUS
  <2>2. \A x \in shown : x \in 1 .. n
    OBVIOUS
  <2> QED BY <2>1, <2>2, Zenon
<1>4. ASSUME NEW m \in 1 .. n
      PROVE  Rank(shown, m) = IF m \in shown THEN Rank(shown, m - 1) + 1 ELSE Rank(shown, m - 1)
  <2>1. m - 1 \in 0 .. n /\ m \notin shown \cap (1 .. (m - 1))
    OBVIOUS
  <2>2. CASE m \in shown
    <3>1. shown \cap (1 .. m) = (shown \cap (1 .. (m - 1))) \cup {m}
      BY <2>2
    <3> QED BY <1>2, <2>1, <2>2, <3>1, FS_AddElement DEF Rank
  <2>3. CASE m \notin shown
    <3>1. shown \cap (1 .. m) = shown \cap (1 .. (m - 1))
      BY <2>3
    <3> QED BY <2>3, <3>1 DEF Rank
  <2> QED BY <2>2, <2>3
<1>5. ASSUME NEW i \in 0 .. n, NEW j \in shown, i < j PROVE Rank(shown, i) < Rank(shown, j)
  <2>1. j \in 1 .. n /\ j - 1 \in 0 .. n
    OBVIOUS
  <2>2. Rank(shown, j) = Rank(shown, j - 1) + 1
    BY <1>4, <2>1
  <2>3. shown \cap (1 .. i) \in SUBSET (shown \cap (1 .. (j - 1)))
    BY <1>5, <2>1
  <2>4. Rank(shown, i) <= Rank(shown, j - 1)
    BY <1>2, <2>1, <2>3, FS_Subset DEF Rank
  <2>5. Rank(shown, i) \in Nat /\ Rank(shown, j - 1) \in Nat
    BY <1>2, <2>1 DEF Rank
  <2> QED BY <2>2, <2>4, <2>5
<1> QED BY <1>1, <1>2, <1>3, <1>4, <1>5, FS_EmptySet DEF Rank

(* A filter puts out the characters shown, the k-th of them at place k. *)
LEMMA FilterPlaces ==
    ASSUME NEW S, NEW t \in Seq(S), NEW shown \in SUBSET (1 .. Len(t)), NEW out, Filters(S, t, shown, out)
    PROVE  out[Len(t)] = [k \in 1 .. Cardinality(shown) |-> t[PlaceAt(shown, k)]]
<1> DEFINE n == Len(t)
           Placed(m) == /\ Len(out[m]) = Rank(shown, m)
                        /\ \A k \in 1 .. Rank(shown, m) :
                             \E i \in shown : Rank(shown, i) = k /\ out[m][k] = t[i]
           T == {m \in 0 .. n : Placed(m)}
<1>0. n \in Nat
  OBVIOUS
<1>1. /\ out \in [0 .. n -> Seq(S)] /\ out[0] = << >>
      /\ \A k \in 1 .. n : out[k] = IF k \in shown THEN Append(out[k - 1], t[k]) ELSE out[k - 1]
  BY DEF Filters
<1> HIDE DEF n
<1>2. /\ \A m \in 0 .. n : Rank(shown, m) \in Nat
      /\ Rank(shown, 0) = 0 /\ Rank(shown, n) = Cardinality(shown)
      /\ \A m \in 1 .. n : Rank(shown, m) = IF m \in shown THEN Rank(shown, m - 1) + 1 ELSE Rank(shown, m - 1)
      /\ \A i \in 0 .. n, j \in shown : i < j => Rank(shown, i) < Rank(shown, j)
  <2>1. shown \in SUBSET (1 .. n)
    BY DEF n
  <2> QED BY <1>0, <2>1, Ranks
<1>3. 0 \in T
  BY <1>0, <1>1, <1>2
<1>4. ASSUME NEW m \in 1 .. n, m - 1 \in T PROVE m \in T
  <2>1. Placed(m - 1) /\ m - 1 \in 0 .. n /\ m \in 0 .. n
    BY <1>0, <1>4
  <2>2. out[m - 1] \in Seq(S) /\ out[m] = IF m \in shown THEN Append(out[m - 1], t[m]) ELSE out[m - 1]
    BY <1>1, <2>1
  <2>3. Rank(shown, m) = (IF m \in shown THEN Rank(shown, m - 1) + 1 ELSE Rank(shown, m - 1))
        /\ Rank(shown, m - 1) \in Nat
    BY <1>2, <2>1
  <2>4. CASE m \in shown
    <3> DEFINE s == out[m - 1]
               r == Rank(shown, m - 1)
    <3>1. out[m] = Append(s, t[m]) /\ Rank(shown, m) = r + 1 /\ s \in Seq(S) /\ r \in Nat /\ Len(s) = r
      BY <2>1, <2>2, <2>3, <2>4
    <3>2. \A k \in 1 .. r : \E i \in shown : Rank(shown, i) = k /\ s[k] = t[i]
      BY <2>1
    <3> HIDE DEF s, r
    <3>3. /\ Len(out[m]) = r + 1 /\ out[m][r + 1] = t[m]
          /\ \A k \in 1 .. r : out[m][k] = s[k]
      BY <3>1, AppendProperties
    <3>4. \A k \in 1 .. (r + 1) : \E i \in shown : Rank(shown, i) = k /\ out[m][k] = t[i]
      <4> TAKE k \in 1 .. (r + 1)
      <4>1. CASE k = r + 1
        BY <2>4, <3>1, <3>3, <4>1
      <4>2. CASE k \in 1 .. r
        BY <3>2, <3>3, <4>2
      <4> QED BY <3>1, <4>1, <4>2
    <3>5. Placed(m)
      BY <3>1, <3>3, <3>4
    <3> HIDE DEF Placed
    <3> QED BY <2>1, <3>5
  <2>5. CASE m \notin shown
    <3>1. out[m] = out[m - 1] /\ Rank(shown, m) = Rank(shown, m - 1)
      BY <2>2, <2>3, <2>5
    <3>2. Placed(m)
      BY <2>1, <3>1
    <3> HIDE DEF Placed
    <3> QED BY <2>1, <3>2
  <2> QED BY <2>4, <2>5
<1>5. Placed(n)
  <2>1. \A m \in 0 .. n : m \in T
    <3> HIDE DEF T
    <3> QED BY <1>0, <1>3, <1>4, Counted
  <2> HIDE DEF Placed
  <2> QED BY <1>0, <2>1
<1>6. \A i, j \in shown : Rank(shown, i) = Rank(shown, j) => i = j
  <2> TAKE i, j \in shown
  <2> HAVE Rank(shown, i) = Rank(shown, j)
  <2>1. i \in 0 .. n /\ j \in 0 .. n
    BY DEF n
  <2>2. i < j \/ i = j \/ j < i
    BY <1>0, <2>1
  <2>3. Rank(shown, i) \in Nat /\ Rank(shown, j) \in Nat
    BY <1>2, <2>1
  <2> QED BY <1>2, <2>1, <2>2, <2>3
<1>7. ASSUME NEW k \in 1 .. Cardinality(shown) PROVE out[n][k] = t[PlaceAt(shown, k)]
  <2>1. PICK i \in shown : Rank(shown, i) = k /\ out[n][k] = t[i]
    BY <1>2, <1>5, <1>7
  <2>2. PlaceAt(shown, k) = CHOOSE j \in shown : Rank(shown, j) = k
    BY DEF Rank, PlaceAt
  <2>3. PlaceAt(shown, k) = i
    BY <1>6, <2>1, <2>2, Zenon
  <2> QED BY <2>1, <2>3
<1>8. out[n] \in Seq(S) /\ Len(out[n]) = Cardinality(shown)
  BY <1>0, <1>1, <1>2, <1>5
<1>9. out[n] = [k \in 1 .. Cardinality(shown) |-> t[PlaceAt(shown, k)]]
  <2>1. out[n] = [k \in 1 .. Cardinality(shown) |-> out[n][k]]
    BY <1>8
  <2> QED BY <1>7, <2>1
<1> QED BY <1>9 DEF n

-----------------------------------------------------------------------------
(* The marks of a document's open suggestions. *)

TimesDiffer(items) == \A j, k \in DOMAIN items : j # k => items[j].at # items[k].at

LEMMA ItemType ==
    ASSUME NEW item \in ReviewItem
    PROVE  /\ item.at \in MarkIds
           /\ Resolved(item.fromCursor, item.from) \in 0 .. MaxPosition
           /\ Resolved(item.toCursor, item.to) \in 0 .. MaxPosition
  BY DEF ReviewItem, Resolved

LEMMA ItemMark ==
    ASSUME NEW item \in ReviewItem, NEW len \in Nat, OpenSuggestion(item)
    PROVE  MarkFromItem(item, len) \in Mark
<1> DEFINE from == Resolved(item.fromCursor, item.from)
           to == Resolved(item.toCursor, item.to)
<1>1. from \in 0 .. MaxPosition /\ to \in 0 .. MaxPosition /\ item.at \in Nat
  BY ItemType, CoreAssumption
<1>2. item.change \in MarkKinds
  BY DEF OpenSuggestion, MarkKinds
<1>3. MarkFromItem(item, len) = [start |-> from, end |-> Smaller(to, len), kind |-> item.change, at |-> item.at]
  BY DEF MarkFromItem
<1> HIDE DEF from, to
<1>4. Smaller(to, len) \in 0 .. MaxPosition
  BY <1>1, CoreAssumption DEF Smaller
<1> QED BY <1>1, <1>2, <1>3, <1>4 DEF Mark

(* When no two suggestions have the same time, each that is open has its mark, *)
(* and there are no other marks.                                               *)
LEMMA MarksOfItems ==
    ASSUME NEW items \in Seq(ReviewItem), NEW len \in Nat, TimesDiffer(items)
    PROVE  LET ms == ReviewMarks(items, len)
           IN  /\ ms \in MarkSets
               /\ \A k \in DOMAIN items : OpenSuggestion(items[k]) => ms[items[k].at] = MarkFromItem(items[k], len)
               /\ \A id \in MarkIds : ms[id] # NoMark =>
                    \E k \in DOMAIN items : OpenSuggestion(items[k]) /\ ms[id] = MarkFromItem(items[k], len)
<1> DEFINE ms == ReviewMarks(items, len)
           open(id) == {k \in DOMAIN items : OpenSuggestion(items[k]) /\ items[k].at = id}
           last(id) == CHOOSE k \in open(id) : \A j \in open(id) \ {k} : AddedBefore(items, len, j, k)
           mark(id) == IF open(id) = {} THEN NoMark ELSE MarkFromItem(items[last(id)], len)
<1>1. ms = [id \in MarkIds |-> mark(id)]
  BY DEF ReviewMarks
<1>2. \A k \in DOMAIN items : items[k] \in ReviewItem
  OBVIOUS
<1>3. ASSUME NEW id \in MarkIds, NEW k \in open(id)
      PROVE  open(id) = {k} /\ last(id) = k
  <2>1. \A j \in open(id) : j = k
    BY <1>3 DEF TimesDiffer
  <2>2. open(id) = {k}
    BY <1>3, <2>1
  <2> DEFINE After(j) == \A i \in open(id) \ {j} : AddedBefore(items, len, i, j)
  <2>3. last(id) = CHOOSE j \in open(id) : After(j)
    OBVIOUS
  <2>4. After(k)
    BY <2>1
  <2> HIDE DEF open, last, After
  <2>5. last(id) = k
    BY <1>3, <2>1, <2>3, <2>4, Zenon
  <2> QED BY <2>2, <2>5
<1>4. ASSUME NEW id \in MarkIds, NEW k \in open(id)
      PROVE  mark(id) = MarkFromItem(items[k], len)
  <2>1. open(id) # {} /\ last(id) = k
    BY <1>3, <1>4
  <2> HIDE DEF open, last
  <2> QED BY <2>1
<1>5. ASSUME NEW id \in MarkIds PROVE mark(id) \in Mark \cup {NoMark}
  <2>1. CASE open(id) = {}
    BY <2>1
  <2>2. CASE open(id) # {}
    <3>1. PICK k \in open(id) : TRUE
      BY <2>2
    <3>2. k \in DOMAIN items /\ OpenSuggestion(items[k])
      BY <3>1
    <3>3. MarkFromItem(items[k], len) \in Mark
      BY <1>2, <3>2, ItemMark
    <3>4. mark(id) = MarkFromItem(items[k], len)
      BY <1>4, <3>1
    <3> QED BY <3>3, <3>4
  <2> QED BY <2>1, <2>2
<1>6. ms \in MarkSets
  <2> HIDE DEF mark
  <2> QED BY <1>1, <1>5 DEF MarkSets
<1>7. ASSUME NEW k \in DOMAIN items, OpenSuggestion(items[k])
      PROVE  ms[items[k].at] = MarkFromItem(items[k], len)
  <2>1. items[k].at \in MarkIds /\ k \in open(items[k].at)
    BY <1>2, <1>7, ItemType
  <2>2. mark(items[k].at) = MarkFromItem(items[k], len)
    BY <1>4, <2>1
  <2> HIDE DEF mark
  <2> QED BY <1>1, <2>1, <2>2
<1>8. ASSUME NEW id \in MarkIds, ms[id] # NoMark
      PROVE  \E k \in DOMAIN items : OpenSuggestion(items[k]) /\ ms[id] = MarkFromItem(items[k], len)
  <2>1. ms[id] = mark(id)
    <3> HIDE DEF mark
    <3> QED BY <1>1
  <2>2. open(id) # {}
    <3> HIDE DEF open, last
    <3> QED BY <1>8, <2>1
  <2>3. PICK k \in open(id) : TRUE
    BY <2>2
  <2>4. k \in DOMAIN items /\ OpenSuggestion(items[k])
    BY <2>3
  <2>5. mark(id) = MarkFromItem(items[k], len)
    BY <1>4, <2>3
  <2> HIDE DEF mark
  <2> QED BY <2>1, <2>4, <2>5
<1> QED BY <1>6, <1>7, <1>8

(* What the request's open suggestions hide is what their marks hide. *)
LEMMA HiddenByMarks ==
    ASSUME request.items \in Seq(ReviewItem), Len(request.text) \in Nat, TimesDiffer(request.items),
           NEW view \in DOMAIN Hidden, NEW i \in 1 .. Len(request.text)
    PROVE  Visible(ReviewMarks(request.items, Len(request.text)), view, i) <=> ~HiddenBy(i, view)
<1> DEFINE items == request.items
           len == Len(request.text)
           ms == ReviewMarks(items, len)
           From(x) == Resolved(x.fromCursor, x.from)
           To(x) == Resolved(x.toCursor, x.to)
<1>1. /\ items \in Seq(ReviewItem) /\ len \in Nat /\ i \in 1 .. len
      /\ \A k \in DOMAIN items : items[k] \in ReviewItem
  OBVIOUS
<1>2. HiddenBy(i, view) <=>
        \E k \in DOMAIN items : OpenSuggestion(items[k]) /\ items[k].change \in Hidden[view]
                                /\ From(items[k]) < i /\ i <= To(items[k])
  BY DEF HiddenBy, OpenSuggestion, Resolved
<1>3. /\ \A k \in DOMAIN items : OpenSuggestion(items[k]) => ms[items[k].at] = MarkFromItem(items[k], len)
      /\ \A id \in MarkIds : ms[id] # NoMark =>
           \E k \in DOMAIN items : OpenSuggestion(items[k]) /\ ms[id] = MarkFromItem(items[k], len)
  BY MarksOfItems
<1>4. ASSUME NEW k \in DOMAIN items, OpenSuggestion(items[k])
      PROVE  LET m == MarkFromItem(items[k], len)
             IN  /\ items[k].at \in MarkIds /\ m # NoMark /\ m.kind = items[k].change
                 /\ (m.start < i /\ i <= m.end) <=> (From(items[k]) < i /\ i <= To(items[k]))
  <2> DEFINE m == MarkFromItem(items[k], len)
             to == To(items[k])
  <2>1. items[k] \in ReviewItem
    BY <1>1, <1>4
  <2>2. items[k].at \in MarkIds /\ to \in Nat
    BY <2>1, ItemType, CoreAssumption
  <2>3. m \in Mark
    BY <1>1, <1>4, <2>1, ItemMark
  <2>4. m # NoMark
    BY <2>3, MarkIsNotNone
  <2>5. m.kind = items[k].change /\ m.start = From(items[k]) /\ m.end = Smaller(to, len)
    BY DEF MarkFromItem
  <2> HIDE DEF m, to
  <2>6. i <= Smaller(to, len) <=> i <= to
    BY <1>1, <2>2 DEF Smaller
  <2> QED BY <2>2, <2>4, <2>5, <2>6 DEF m, to
<1> HIDE DEF items, len, ms, From, To
<1>5. ASSUME Visible(ms, view, i), NEW k \in DOMAIN items, OpenSuggestion(items[k]), items[k].change \in Hidden[view]
      PROVE  ~(From(items[k]) < i /\ i <= To(items[k]))
  BY <1>3, <1>4, <1>5 DEF Visible
<1>6. ASSUME ~Visible(ms, view, i)
      PROVE  \E k \in DOMAIN items : OpenSuggestion(items[k]) /\ items[k].change \in Hidden[view]
                                     /\ From(items[k]) < i /\ i <= To(items[k])
  <2>1. PICK id \in MarkIds : ms[id] # NoMark /\ ms[id].kind \in Hidden[view] /\ ms[id].start < i /\ i <= ms[id].end
    BY <1>6 DEF Visible
  <2>2. PICK k \in DOMAIN items : OpenSuggestion(items[k]) /\ ms[id] = MarkFromItem(items[k], len)
    BY <1>3, <2>1
  <2> QED BY <1>4, <2>1, <2>2
<1> QED BY <1>2, <1>5, <1>6 DEF ms, items, len

(* A text without what its open suggestions hide. *)
LEMMA ReviewShown ==
    ASSUME request.text \in Seq(Range(request.text)), request.items \in Seq(ReviewItem), TimesDiffer(request.items),
           NEW view \in DOMAIN Hidden,
           answer.views[view] = Project(request.text, ReviewMarks(request.items, Len(request.text)), view)
    PROVE  Shows(view)
<1> DEFINE t == request.text
           ms == ReviewMarks(request.items, Len(t))
           shown == {i \in 1 .. Len(t) : ~HiddenBy(i, view)}
<1>1. Len(t) \in Nat /\ t \in Seq(Range(t))
  OBVIOUS
<1>2. ms \in MarkSets
  BY <1>1, MarksOfItems
<1>3. VisibleIn(t, ms, view) = shown
  BY <1>1, HiddenByMarks DEF VisibleIn
<1>4. shown \in SUBSET (1 .. Len(t))
  OBVIOUS
<1> HIDE DEF ms
<1>5. PICK out : Filters(Range(t), t, VisibleIn(t, ms, view), out) /\ Project(t, ms, view) = out[Len(t)]
  BY <1>1, <1>2, ProjectFilters
<1>6. Shows(view) <=> answer.views[view] = [k \in 1 .. Cardinality(shown) |-> t[PlaceAt(shown, k)]]
  BY DEF Shows, PlaceAt
<1>7. answer.views[view] = out[Len(t)]
  BY <1>5 DEF ms
<1> HIDE DEF t, shown
<1>8. out[Len(t)] = [k \in 1 .. Cardinality(shown) |-> t[PlaceAt(shown, k)]]
  BY <1>1, <1>3, <1>4, <1>5, FilterPlaces
<1> QED BY <1>6, <1>7, <1>8

-----------------------------------------------------------------------------
(* Offsets. *)

(* Offsets of gaps: they begin with 0 and rise. *)
Offsets(at, n) ==
    /\ at \in [0 .. n -> Nat] /\ at[0] = 0
    /\ \A i, j \in 0 .. n : i < j => at[i] < at[j]

LEMMA SumsExist ==
    ASSUME NEW n \in Nat, NEW w, \A k \in 1 .. n : w[k] \in Nat
    PROVE  \E f : f = [i \in 0 .. n |-> IF i = 0 THEN 0 ELSE f[i - 1] + w[i]]
<1> DEFINE F == [k \in 1 .. n |-> [d \in Nat |-> d + w[k]]]
           G == [k \in 0 .. n |-> Nat]
<1>1. 0 \in G[0] /\ \A k \in 1 .. n : \A d \in G[k - 1] : F[k][d] \in G[k]
  OBVIOUS
<1>2. PICK f : Iterated(n, 0, F, f) /\ \A k \in 0 .. n : f[k] \in G[k]
  <2> HIDE DEF F, G
  <2> QED BY <1>1, Iterates
<1>3. f = [k \in 0 .. n |-> f[k]] /\ f[0] = 0 /\ \A k \in 1 .. n : f[k] = F[k][f[k - 1]]
  <2> HIDE DEF F, G
  <2> QED BY <1>2, Zenon DEF Iterated
<1>4. \A k \in 0 .. n : f[k] \in Nat
  BY <1>2
<1>5. \A i \in 0 .. n : f[i] = IF i = 0 THEN 0 ELSE f[i - 1] + w[i]
  <2> TAKE i \in 0 .. n
  <2>1. CASE i = 0
    BY <1>3, <2>1
  <2>2. CASE i # 0
    <3>1. i \in 1 .. n /\ i - 1 \in 0 .. n
      BY <2>2
    <3>2. f[i] = F[i][f[i - 1]] /\ f[i - 1] \in Nat
      <4> HIDE DEF F
      <4> QED BY <1>3, <1>4, <3>1
    <3> QED BY <2>2, <3>1, <3>2
  <2> QED BY <2>1, <2>2
<1>6. f = [i \in 0 .. n |-> IF i = 0 THEN 0 ELSE f[i - 1] + w[i]]
  <2> HIDE DEF F, G
  <2> QED BY <1>3, <1>5
<1> QED BY <1>6

Sums(at, n, w) == at[0] = 0 /\ \A k \in 1 .. n : at[k] = at[k - 1] + w[k]

LEMMA SumsRise ==
    ASSUME NEW n \in Nat, NEW w, \A k \in 1 .. n : w[k] \in Nat \ {0},
           NEW at, at = [k \in 0 .. n |-> at[k]], Sums(at, n, w)
    PROVE  Offsets(at, n)
<1> DEFINE Below(k) == at[k] \in Nat /\ \A i \in 0 .. (k - 1) : at[i] \in Nat /\ at[i] < at[k]
           S == {k \in 0 .. n : Below(k)}
<1>1. at[0] = 0
  BY DEF Sums
<1>2. 0 \in S
  BY ONLY <1>1, n \in Nat
<1>3. ASSUME NEW k \in 1 .. n, k - 1 \in S PROVE k \in S
  <2>1. at[k] = at[k - 1] + w[k] /\ w[k] \in Nat \ {0}
    BY DEF Sums
  <2>2. Below(k - 1)
    BY <1>3
  <2> DEFINE a == at[k - 1]
             b == at[k]
  <2>3. a \in Nat /\ \A i \in 0 .. (k - 1 - 1) : at[i] \in Nat /\ at[i] < a
    BY <2>2
  <2>4. b \in Nat /\ a < b
    BY ONLY <2>1, <2>3
  <2>5. \A i \in 0 .. (k - 1) : at[i] \in Nat /\ at[i] < b
    <3> TAKE i \in 0 .. (k - 1)
    <3>1. i = k - 1 \/ i \in 0 .. (k - 1 - 1)
      BY ONLY n \in Nat, k \in 1 .. n, i \in 0 .. (k - 1)
    <3>2. at[i] \in Nat /\ (at[i] = a \/ at[i] < a)
      <4> HIDE DEF b
      <4> QED BY ONLY <2>3, <3>1 DEF a
    <3> HIDE DEF a, b
    <3> QED BY ONLY <2>3, <2>4, <3>2
  <2>6. Below(k)
    BY ONLY <2>4, <2>5
  <2> HIDE DEF Below, a, b
  <2> QED BY ONLY <2>6, k \in 1 .. n, n \in Nat
<1>4. \A k \in 0 .. n : k \in S
  <2> HIDE DEF S
  <2> QED BY <1>2, <1>3, Counted
<1>5. \A k \in 0 .. n : Below(k)
  <2> HIDE DEF Below
  <2> QED BY <1>4
<1>6. \A i, j \in 0 .. n : i < j => at[i] < at[j]
  <2> TAKE i, j \in 0 .. n
  <2> HAVE i < j
  <2>1. i \in 0 .. (j - 1)
    OBVIOUS
  <2> QED BY ONLY <1>5, <2>1, j \in 0 .. n
<1>7. at \in [0 .. n -> Nat]
  BY ONLY <1>5, at = [k \in 0 .. n |-> at[k]]
<1> QED BY <1>1, <1>6, <1>7 DEF Offsets

LEMMA BytesRise ==
    ASSUME NEW t \in Seq(Pos!Char)
    PROVE  Offsets(Pos!ByteOffsets(t), Len(t))
<1> DEFINE n == Len(t)
           w == [k \in 1 .. n |-> t[k].bytes]
           at[i \in 0 .. n] == IF i = 0 THEN 0 ELSE at[i - 1] + t[i].bytes
<1>1. n \in Nat /\ \A k \in 1 .. n : w[k] = t[k].bytes /\ w[k] \in Nat \ {0}
  <2>1. \A k \in 1 .. n : t[k] \in Pos!Char
    OBVIOUS
  <2>2. \A c \in Pos!Char : c.bytes \in Nat \ {0}
    BY DEF Pos!Char
  <2> QED BY <2>1, <2>2
<1>2. Pos!ByteOffsets(t) = at
  BY DEF Pos!ByteOffsets
<1> HIDE DEF w, n
<1>3. PICK f : f = [i \in 0 .. n |-> IF i = 0 THEN 0 ELSE f[i - 1] + w[i]]
  BY <1>1, SumsExist
<1>4. f = [i \in 0 .. n |-> IF i = 0 THEN 0 ELSE f[i - 1] + t[i].bytes]
  BY <1>1, <1>3
<1>5. at = [i \in 0 .. n |-> IF i = 0 THEN 0 ELSE at[i - 1] + t[i].bytes]
  BY <1>4, Zenon
<1> HIDE DEF at
<1>6. at = [k \in 0 .. n |-> at[k]] /\ Sums(at, n, w)
  <2>1. \A k \in 0 .. n : at[k] = IF k = 0 THEN 0 ELSE at[k - 1] + t[k].bytes
    BY <1>5, Zenon
  <2>2. 0 \in 0 .. n /\ \A k \in 1 .. n : k \in 0 .. n /\ k # 0
    BY <1>1
  <2>3. Sums(at, n, w)
    BY ONLY <1>1, <2>1, <2>2 DEF Sums
  <2>4. at = [k \in 0 .. n |-> at[k]]
    BY <1>5, Zenon
  <2> QED BY <2>3, <2>4
<1>7. Offsets(at, n)
  BY ONLY <1>1, <1>6, SumsRise
<1> QED BY <1>2, <1>7 DEF n

LEMMA UnitsRise ==
    ASSUME NEW t \in Seq(Pos!Char)
    PROVE  Offsets(Pos!UnitOffsets(t), Len(t))
<1> DEFINE n == Len(t)
           w == [k \in 1 .. n |-> t[k].units]
           at[i \in 0 .. n] == IF i = 0 THEN 0 ELSE at[i - 1] + t[i].units
<1>1. n \in Nat /\ \A k \in 1 .. n : w[k] = t[k].units /\ w[k] \in Nat \ {0}
  <2>1. \A k \in 1 .. n : t[k] \in Pos!Char
    OBVIOUS
  <2>2. \A c \in Pos!Char : c.units \in Nat \ {0}
    BY DEF Pos!Char
  <2> QED BY <2>1, <2>2
<1>2. Pos!UnitOffsets(t) = at
  BY DEF Pos!UnitOffsets
<1> HIDE DEF w, n
<1>3. PICK f : f = [i \in 0 .. n |-> IF i = 0 THEN 0 ELSE f[i - 1] + w[i]]
  BY <1>1, SumsExist
<1>4. f = [i \in 0 .. n |-> IF i = 0 THEN 0 ELSE f[i - 1] + t[i].units]
  BY <1>1, <1>3
<1>5. at = [i \in 0 .. n |-> IF i = 0 THEN 0 ELSE at[i - 1] + t[i].units]
  BY <1>4, Zenon
<1> HIDE DEF at
<1>6. at = [k \in 0 .. n |-> at[k]] /\ Sums(at, n, w)
  <2>1. \A k \in 0 .. n : at[k] = IF k = 0 THEN 0 ELSE at[k - 1] + t[k].units
    BY <1>5, Zenon
  <2>2. 0 \in 0 .. n /\ \A k \in 1 .. n : k \in 0 .. n /\ k # 0
    BY <1>1
  <2>3. Sums(at, n, w)
    BY ONLY <1>1, <2>1, <2>2 DEF Sums
  <2>4. at = [k \in 0 .. n |-> at[k]]
    BY <1>5, Zenon
  <2> QED BY <2>3, <2>4
<1>7. Offsets(at, n)
  BY ONLY <1>1, <1>6, SumsRise
<1> QED BY <1>2, <1>7 DEF n

LEMMA OffsetsGrow ==
    ASSUME NEW n \in Nat, NEW at, Offsets(at, n), NEW i \in Nat, NEW j \in Nat, i <= j, j <= n
    PROVE  at[i] \in Nat /\ at[j] \in Nat /\ at[n] \in Nat /\ at[i] <= at[j] /\ at[j] <= at[n]
<1>1. i \in 0 .. n /\ j \in 0 .. n /\ n \in 0 .. n
  OBVIOUS
<1>2. at[i] \in Nat /\ at[j] \in Nat /\ at[n] \in Nat
  BY <1>1 DEF Offsets
<1>3. (i = j \/ i < j) /\ (j = n \/ j < n)
  OBVIOUS
<1> QED BY <1>1, <1>2, <1>3 DEF Offsets

(* Every gap is found by its offset, and only an offset of a gap is found. *)
LEMMA GapsFound ==
    ASSUME NEW n \in Nat, NEW at, Offsets(at, n)
    PROVE  /\ \A p \in 0 .. n : Pos!FirstGap(at, at[p]) = p
           /\ \A x : Pos!FirstGap(at, x) # -1 => Pos!FirstGap(at, x) \in 0 .. n /\ at[Pos!FirstGap(at, x)] = x
<1>0. at \in [0 .. n -> Nat] /\ DOMAIN at = 0 .. n /\ \A i, j \in 0 .. n : i < j => at[i] < at[j]
  BY DEF Offsets
<1>1. ASSUME NEW p \in 0 .. n PROVE Pos!FirstGap(at, at[p]) = p
  <2>1. \A i \in 0 .. n : at[i] = at[p] => i = p
    <3> TAKE i \in 0 .. n
    <3>1. at[i] \in Nat /\ at[p] \in Nat
      BY <1>0
    <3>2. i < p \/ i = p \/ p < i
      OBVIOUS
    <3> QED BY <1>0, <3>1, <3>2
  <2>2. \A j \in 0 .. (p - 1) : at[j] # at[p]
    <3>1. \A j \in 0 .. (p - 1) : j \in 0 .. n /\ j # p
      OBVIOUS
    <3> QED BY <2>1, <3>1
  <2> QED BY <1>0, <2>1, <2>2 DEF Pos!FirstGap
<1>2. ASSUME NEW x, Pos!FirstGap(at, x) # -1
      PROVE  Pos!FirstGap(at, x) \in 0 .. n /\ at[Pos!FirstGap(at, x)] = x
  <2>1. PICK p \in 0 .. n : at[p] = x
    BY <1>0, <1>2 DEF Pos!FirstGap, Pos!None
  <2> QED BY <1>1, <2>1
<1> QED BY <1>1, <1>2

-----------------------------------------------------------------------------
(* The library's answers. *)

(* What Convert answers. *)
Conversion(r) ==
    [op |-> "convert",
     bytes |-> [p \in 0..Len(r.text) + 1 |-> Pos!ToByte(r.text, p)],
     units |-> [p \in 0..Len(r.text) + 1 |-> Pos!ToUtf16(r.text, p)],
     ofByte |-> [b \in 0..Pos!ByteLen(r.text) + 1 |-> Pos!FromByte(r.text, b)],
     ofUnit |-> [u \in 0..Pos!UnitLen(r.text) + 1 |-> Pos!FromUtf16(r.text, u)],
     slice |-> Pos!SliceChars(r.text, r.start, r.end)]

(* What ProjectSource answers. *)
Review(r) ==
    [v \in DOMAIN Hidden |-> Project(r.text, ReviewMarks(r.items, Len(r.text)), v)]

(* What Compare answers. *)
Comparison(r) ==
    LET milestone(t) == [d \in IF t = <<>> THEN {} ELSE {"main"} |-> t]
        changes(found) == IF found = <<>> THEN <<>> ELSE found["main"]
    IN  changes(CompareMilestones(milestone(r.old), milestone(r.new), Chars))

LEMMA ConversionExact ==
    ASSUME NEW r, r.text \in Seq(Pos!Char), r.start \in Nat, r.end \in Nat
    PROVE  LET a == Conversion(r) IN
           /\ Inverses(a.bytes, a.ofByte, r.text)
           /\ Inverses(a.units, a.ofUnit, r.text)
           /\ a.slice.found <=> r.start <= r.end /\ r.end <= Len(r.text)
           /\ a.slice.found => a.slice.text = SubSeq(r.text, r.start + 1, r.end)
<1> DEFINE t == r.text
           n == Len(t)
           a == Conversion(r)
           by == Pos!ByteOffsets(t)
           un == Pos!UnitOffsets(t)
<1>0. n \in Nat /\ r.start \in Nat /\ r.end \in Nat
  OBVIOUS
<1>1. Offsets(by, n) /\ Offsets(un, n)
  BY BytesRise, UnitsRise
<1>2. /\ a.bytes = [p \in 0..n + 1 |-> IF p > n THEN -1 ELSE by[p]]
      /\ a.units = [p \in 0..n + 1 |-> IF p > n THEN -1 ELSE un[p]]
      /\ a.ofByte = [b \in 0..by[n] + 1 |-> Pos!FirstGap(by, b)]
      /\ a.ofUnit = [b \in 0..un[n] + 1 |-> Pos!FirstGap(un, b)]
      /\ a.slice = Pos!SliceChars(t, r.start, r.end)
  BY DEF Conversion, Pos!ToByte, Pos!ToUtf16, Pos!None, Pos!FromByte, Pos!FromUtf16, Pos!ByteLen, Pos!UnitLen
<1>2a. Pos!SliceChars(t, r.start, r.end) =
         LET from == IF r.start > n THEN -1 ELSE by[r.start]
             to == IF r.end > n THEN -1 ELSE by[r.end]
         IN  IF r.start > r.end \/ from = -1 \/ to = -1 \/ to < from \/ to > by[n]
             THEN [found |-> FALSE]
             ELSE [found |-> TRUE, text |-> SubSeq(t, Pos!FirstGap(by, from) + 1, Pos!FirstGap(by, to))]
  BY DEF Pos!SliceChars, Pos!ToByte, Pos!None, Pos!FromByte, Pos!ByteLen
<1> HIDE DEF n, a, by, un
<1>3. ASSUME NEW at, Offsets(at, n), NEW to, NEW from,
             to = [p \in 0..n + 1 |-> IF p > n THEN -1 ELSE at[p]],
             from = [b \in 0..at[n] + 1 |-> Pos!FirstGap(at, b)]
      PROVE  Inverses(to, from, t)
  <2>0. /\ at \in [0 .. n -> Nat]
        /\ \A i, j \in 0 .. n : i < j => at[i] < at[j]
    BY <1>3 DEF Offsets
  <2>1. ASSUME NEW p \in 0 .. n PROVE from[to[p]] = p
    <3>1. to[p] = at[p]
      BY <1>0, <1>3
    <3>2. at[p] \in 0 .. (at[n] + 1)
      <4>1. p = n \/ p < n
        BY <1>0
      <4>2. at[p] \in Nat /\ at[n] \in Nat /\ at[p] <= at[n]
        BY <1>0, <2>0, <4>1
      <4> QED BY <4>2
    <3>3. from[at[p]] = Pos!FirstGap(at, at[p])
      BY <1>3, <3>2
    <3> QED BY <1>0, <1>3, <3>1, <3>3, GapsFound
  <2>2. ASSUME NEW x \in DOMAIN from, from[x] # -1 PROVE to[from[x]] = x
    <3>1. from[x] = Pos!FirstGap(at, x)
      BY <1>3
    <3>2. from[x] \in 0 .. n /\ at[from[x]] = x
      BY <1>0, <1>3, <2>2, <3>1, GapsFound
    <3> QED BY <1>0, <1>3, <3>2
  <2>3. to[n + 1] = -1
    BY <1>0, <1>3
  <2> QED BY <2>1, <2>2, <2>3 DEF Inverses, n
<1>4. a.slice.found <=> r.start <= r.end /\ r.end <= n
  <2>1. CASE r.start <= r.end /\ r.end <= n
    <3>1. /\ by[r.start] \in Nat /\ by[r.end] \in Nat /\ by[n] \in Nat
          /\ by[r.start] <= by[r.end] /\ by[r.end] <= by[n]
      BY <1>0, <1>1, <2>1, OffsetsGrow
    <3> QED BY <1>0, <1>2, <1>2a, <2>1, <3>1
  <2>2. CASE ~(r.start <= r.end /\ r.end <= n)
    BY <1>0, <1>2, <1>2a, <2>2
  <2> QED BY <2>1, <2>2
<1>5. ASSUME r.start <= r.end, r.end <= n, a.slice.found
      PROVE  a.slice.text = SubSeq(t, r.start + 1, r.end)
  <2>1. /\ by[r.start] \in Nat /\ by[r.end] \in Nat /\ by[n] \in Nat
        /\ by[r.start] <= by[r.end] /\ by[r.end] <= by[n]
    BY <1>0, <1>1, <1>5, OffsetsGrow
  <2>2. Pos!FirstGap(by, by[r.start]) = r.start /\ Pos!FirstGap(by, by[r.end]) = r.end
    <3>1. r.start \in 0 .. n /\ r.end \in 0 .. n
      BY <1>0, <1>5
    <3> QED BY <1>0, <1>1, <3>1, GapsFound
  <2>3. a.slice = [found |-> TRUE, text |-> SubSeq(t, r.start + 1, r.end)]
    <3> DEFINE from == by[r.start]
               to == by[r.end]
    <3>1. ~(r.start > n) /\ ~(r.end > n) /\ ~(r.start > r.end)
          /\ ~(from = -1) /\ ~(to = -1) /\ ~(to < from) /\ ~(to > by[n])
      BY <1>0, <1>5, <2>1
    <3>2. a.slice = [found |-> TRUE, text |-> SubSeq(t, Pos!FirstGap(by, from) + 1, Pos!FirstGap(by, to))]
      BY ONLY <1>2, <1>2a, <3>1
    <3> QED BY ONLY <2>2, <3>2
  <2> DEFINE found == SubSeq(t, r.start + 1, r.end)
  <2>4. a.slice = [found |-> TRUE, text |-> found]
    BY <2>3
  <2> HIDE DEF found
  <2>5. a.slice.text = found
    BY ONLY <2>4
  <2> QED BY <2>5 DEF found
<1>6. Inverses(a.bytes, a.ofByte, t) /\ Inverses(a.units, a.ofUnit, t)
  BY <1>1, <1>2, <1>3
<1> QED BY <1>4, <1>5, <1>6 DEF n, a

(* The requests are the ones that were given, and a request has its answer. *)
LibraryInv ==
    /\ \/ request \in Compared \/ request \in Redlined \/ request \in Reviewed
       \/ request \in Files \/ request \in Duplicated \/ request \in Archived
       \/ request \in Sources \/ request \in Calls \/ request \in Encoded
    /\ answer.op = "compare" => request.op = "compare" /\ answer.changes = Comparison(request)
    /\ answer.op = "convert" => request.op = "convert" /\ answer = Conversion(request)
    /\ answer.op = "review" => request.op = "review" /\ answer.views = Review(request)
    /\ answer.op = "redline" =>
         request.op = "redline" /\ answer.text = Redline(request.text, request.marks, request.style)
    /\ answer.op = "dedup" => request.op = "dedup" /\ answer.entries = Deduplicate(request.entries)
    /\ answer.op = "archive" => request.op = "archive" /\ answer.archive = BuildArchive(request.input)

LEMMA LibraryInvariant == LibrarySpec => []LibraryInv
<1>1. LibraryInit => LibraryInv
  BY DEF LibraryInit, LibraryInv, NotYet
<1>2. LibraryInv /\ [LibraryNext]_libraryVars => LibraryInv'
  <2> SUFFICES ASSUME LibraryInv, [LibraryNext]_libraryVars PROVE LibraryInv'
    OBVIOUS
  <2>1. CASE UNCHANGED libraryVars
    BY <2>1 DEF libraryVars, LibraryInv
  <2>2. CASE Compare
    BY <2>2 DEF Compare, Asks, Answer, LibraryInv, Comparison
  <2>3. CASE RenderRedline
    BY <2>3 DEF RenderRedline, Asks, Answer, LibraryInv
  <2>4. CASE ProjectSource
    BY <2>4 DEF ProjectSource, Asks, Answer, LibraryInv, Review
  <2>5. CASE Import
    BY <2>5 DEF Import, Answer, LibraryInv
  <2>6. CASE Dedup
    BY <2>6 DEF Dedup, Asks, Answer, LibraryInv
  <2>7. CASE Archive
    BY <2>7 DEF Archive, Asks, Answer, LibraryInv
  <2>8. CASE Cite
    BY <2>8 DEF Cite, Answer, LibraryInv
  <2>9. CASE Convert
    BY <2>9 DEF Convert, Asks, Answer, LibraryInv, Conversion
  <2> QED BY <2>1, <2>2, <2>3, <2>4, <2>5, <2>6, <2>7, <2>8, <2>9 DEF LibraryNext
<1> QED BY <1>1, <1>2, PTL DEF LibrarySpec

(* Positions and offsets convert into each other and back wherever both exist,  *)
(* and a slice is what lies between its ends (to_byte, to_utf16, from_byte,     *)
(* from_utf16, slice_chars).                                                    *)
THEOREM OffsetsConvert == LibrarySpec => []OffsetsExact
<1>1. LibraryInv => OffsetsExact
  <2> SUFFICES ASSUME LibraryInv, answer.op = "convert"
               PROVE  /\ Inverses(answer.bytes, answer.ofByte, request.text)
                      /\ Inverses(answer.units, answer.ofUnit, request.text)
                      /\ answer.slice.found <=> request.start <= request.end /\ request.end <= Len(request.text)
                      /\ answer.slice.found => answer.slice.text = SubSeq(request.text, request.start + 1, request.end)
    BY DEF OffsetsExact
  <2>1. request.text \in Seq(Pos!Char) /\ request.start \in Nat /\ request.end \in Nat
    BY LibraryAssumption DEF LibraryInv
  <2>2. answer = Conversion(request)
    BY DEF LibraryInv
  <2> QED BY <2>1, <2>2, ConversionExact
<1> QED BY <1>1, LibraryInvariant, PTL

(* The source that is compiled for a view lacks exactly the characters that an  *)
(* open suggestion hides there, whatever the suggestions overlap or exceed, as  *)
(* long as no two have the same time (projected_source, filter).                *)
THEOREM ReviewsAreExact == LibrarySpec => []ReviewViews
<1>1. LibraryInv => ReviewViews
  <2> SUFFICES ASSUME LibraryInv, answer.op = "review", TimesDiffer(request.items), NEW view \in DOMAIN Hidden
               PROVE  Shows(view)
    BY DEF ReviewViews, TimesDiffer
  <2>1. request.text \in Seq(Range(request.text)) /\ request.items \in Seq(ReviewItem)
    BY LibraryAssumption DEF LibraryInv, IsSeq
  <2>2. answer.views[view] = Project(request.text, ReviewMarks(request.items, Len(request.text)), view)
    BY DEF LibraryInv, Review
  <2> QED BY <2>1, <2>2, ReviewShown
<1> QED BY <1>1, LibraryInvariant, PTL

-----------------------------------------------------------------------------
(* Deduplication. *)

LEMMA AddTagIn ==
    ASSUME NEW S, NEW tags \in Seq(S), NEW x \in S
    PROVE  AddTag(tags, x) \in Seq(S) /\ Range(AddTag(tags, x)) = Range(tags) \cup {x}
<1>1. CASE x \in Range(tags)
  BY <1>1 DEF AddTag
<1>2. CASE x \notin Range(tags)
  <2> DEFINE more == Append(tags, x)
  <2>1. AddTag(tags, x) = more
    BY <1>2 DEF AddTag
  <2>2. /\ more \in Seq(S) /\ Len(more) = Len(tags) + 1 /\ Len(tags) \in Nat
        /\ \A i \in 1 .. Len(tags) : more[i] = tags[i]
        /\ more[Len(tags) + 1] = x
    BY AppendProperties
  <2>3. DOMAIN more = 1 .. (Len(tags) + 1) /\ DOMAIN tags = 1 .. Len(tags)
    BY <2>2
  <2> HIDE DEF more
  <2>4. ASSUME NEW y \in Range(more) PROVE y \in Range(tags) \/ y = x
    <3>1. PICK i \in DOMAIN more : y = more[i]
      BY <2>4 DEF Range
    <3> QED BY <2>2, <2>3, <3>1 DEF Range
  <2>5. ASSUME NEW y \in Range(tags) PROVE y \in Range(more)
    <3>1. PICK i \in DOMAIN tags : y = tags[i]
      BY <2>5 DEF Range
    <3> QED BY <2>2, <2>3, <3>1 DEF Range
  <2>6. x \in Range(more)
    <3>1. Len(tags) + 1 \in DOMAIN more
      BY <2>2, <2>3
    <3> QED BY <2>2, <3>1 DEF Range
  <2> QED BY <2>1, <2>2, <2>4, <2>5, <2>6
<1>3. CASE x \in Range(tags)
  BY <1>3, <1>1
<1> QED BY <1>2, <1>3

LEMMA AddTagsIn ==
    ASSUME NEW S, NEW tags \in Seq(S), NEW more \in Seq(S)
    PROVE  AddTags(tags, more) \in Seq(S) /\ Range(AddTags(tags, more)) = Range(tags) \cup Range(more)
<1> DEFINE n == Len(more)
           D == Seq(S)
           F == [k \in 1 .. n |-> [d \in D |-> AddTag(d, more[k])]]
           G == [k \in 0 .. n |-> D]
           Next(k, o) == IF k = 0 THEN tags ELSE AddTag(o[k - 1], more[k])
           all[k \in 0 .. n] == IF k = 0 THEN tags ELSE AddTag(all[k - 1], more[k])
<1>1. AddTags(tags, more) = all[n]
  BY DEF AddTags
<1>2. n \in Nat /\ \A k \in 1 .. n : more[k] \in S
  OBVIOUS
<1>3. tags \in G[0] /\ \A k \in 1 .. n : \A d \in G[k - 1] : F[k][d] \in G[k]
  <2>1. tags \in G[0]
    BY <1>2
  <2>2. ASSUME NEW k \in 1 .. n, NEW d \in G[k - 1] PROVE F[k][d] \in G[k]
    <3>1. k - 1 \in 0 .. n /\ k \in 0 .. n /\ d \in D
      BY <1>2
    <3>2. AddTag(d, more[k]) \in D
      BY <1>2, <3>1, AddTagIn
    <3> HIDE DEF D
    <3> QED BY <3>1, <3>2
  <2> QED BY <2>1, <2>2
<1> HIDE DEF n
<1>4. PICK f : Iterated(n, tags, F, f) /\ \A k \in 0 .. n : f[k] \in G[k]
  <2> HIDE DEF F, G
  <2> QED BY <1>2, <1>3, Iterates
<1>5. f = [k \in 0 .. n |-> f[k]] /\ f[0] = tags /\ \A k \in 1 .. n : f[k] = F[k][f[k - 1]]
  <2> HIDE DEF F, G
  <2> QED BY <1>4, Zenon DEF Iterated
<1>6. \A k \in 0 .. n : f[k] \in D
  <2> HIDE DEF D
  <2> QED BY <1>4
<1>7. ASSUME NEW k \in 0 .. n PROVE f[k] = Next(k, f)
  <2>1. CASE k = 0
    BY <1>5, <2>1, Zenon
  <2>2. CASE k # 0
    <3>1. k \in 1 .. n /\ k - 1 \in 0 .. n
      BY <1>2, <2>2
    <3>2. f[k] = F[k][f[k - 1]] /\ f[k - 1] \in D
      <4> HIDE DEF F, D
      <4> QED BY <1>5, <1>6, <3>1, Zenon
    <3>3. F[k][f[k - 1]] = AddTag(f[k - 1], more[k])
      <4> HIDE DEF D
      <4> QED BY <3>1, <3>2, Zenon
    <3> QED BY <2>2, <3>2, <3>3, Zenon
  <2> QED BY <2>1, <2>2
<1>8. f = [k \in 0 .. n |-> Next(k, f)]
  <2> HIDE DEF Next
  <2> QED BY <1>5, <1>7
<1>9. all = [k \in 0 .. n |-> Next(k, all)]
  <2>1. f = [k \in 0 .. n |-> IF k = 0 THEN tags ELSE AddTag(f[k - 1], more[k])]
    BY <1>8, Zenon
  <2>2. all = [k \in 0 .. n |-> IF k = 0 THEN tags ELSE AddTag(all[k - 1], more[k])]
    BY <2>1, Zenon
  <2> HIDE DEF all
  <2> QED BY <2>2, Zenon
<1> HIDE DEF all
<1> DEFINE Good(k) == all[k] \in D /\ Range(all[k]) = Range(tags) \cup {more[i] : i \in 1 .. k}
           T == {k \in 0 .. n : Good(k)}
<1>10. \A k \in 0 .. n : all[k] = Next(k, all)
  <2> HIDE DEF Next
  <2> QED BY <1>9, Zenon
<1>11. 0 \in T
  <2>1. 0 \in 0 .. n /\ all[0] = tags
    BY <1>2, <1>10
  <2>2. \A i \in 1 .. 0 : FALSE
    OBVIOUS
  <2> QED BY <2>1, <2>2
<1>12. ASSUME NEW k \in 1 .. n, k - 1 \in T PROVE k \in T
  <2>1. k \in 0 .. n /\ k # 0 /\ all[k] = AddTag(all[k - 1], more[k])
    BY <1>2, <1>10
  <2>2. all[k - 1] \in D /\ Range(all[k - 1]) = Range(tags) \cup {more[i] : i \in 1 .. (k - 1)}
    BY <1>12
  <2>3. all[k] \in D /\ Range(all[k]) = Range(all[k - 1]) \cup {more[k]}
    <3> DEFINE prev == all[k - 1]
               x == more[k]
    <3>1. prev \in Seq(S) /\ x \in S
      BY <1>2, <2>2
    <3>2. all[k] = AddTag(prev, x)
      BY <2>1
    <3> HIDE DEF prev, x
    <3>3. all[k] \in Seq(S) /\ Range(all[k]) = Range(prev) \cup {x}
      BY <3>1, <3>2, AddTagIn
    <3> QED BY <3>3 DEF prev, x
  <2>4. {more[i] : i \in 1 .. k} = {more[i] : i \in 1 .. (k - 1)} \cup {more[k]}
    <3>1. 1 .. k = (1 .. (k - 1)) \cup {k}
      OBVIOUS
    <3> QED BY <3>1
  <2> QED BY <2>1, <2>2, <2>3, <2>4
<1>13. n \in T
  <2>1. \A k \in 0 .. n : k \in T
    <3> HIDE DEF T
    <3> QED BY <1>2, <1>11, <1>12, Counted
  <2> HIDE DEF T
  <2> QED BY <1>2, <2>1
<1>14. Range(more) = {more[i] : i \in 1 .. n}
  BY DEF Range, n
<1> QED BY <1>1, <1>13, <1>14

KeysOf(e) == Range(DedupKeys(e.metadata))

(* An entry has at least the key of its title. *)
LEMMA KeysType ==
    ASSUME NEW m
    PROVE  LET own == DedupKeys(m)
           IN  own \in Seq(Range(own)) /\ Len(own) \in Nat \ {0} /\ Range(own) # {}
<1> DEFINE own == DedupKeys(m)
           title == <<"title", DedupTitle(m.title)>>
           doi == <<"doi", NormalizeDoi(m.doi)>>
           pmid == <<"pmid", NormalizePmid(m.pmid)>>
           a == IF m.doi = None THEN <<>> ELSE <<doi>>
           b == IF m.pmid = None THEN <<>> ELSE <<pmid>>
<1>1. own = <<title>> \o a \o b
  BY DEF DedupKeys
<1> HIDE DEF own, title, doi, pmid
<1> DEFINE S == {title, doi, pmid}
<1>2. <<title>> \in Seq(S) /\ a \in Seq(S) /\ b \in Seq(S) /\ Len(<<title>>) = 1
  <2>1. <<title>> \in Seq(S) /\ Len(<<title>>) = 1
    OBVIOUS
  <2>2. <<doi>> \in Seq(S) /\ <<pmid>> \in Seq(S) /\ << >> \in Seq(S)
    OBVIOUS
  <2> HIDE DEF S
  <2> QED BY <2>1, <2>2
<1> HIDE DEF S, a, b
<1>3. own \in Seq(S) /\ Len(own) = 1 + Len(a) + Len(b) /\ Len(a) \in Nat /\ Len(b) \in Nat
  BY <1>1, <1>2
<1>4. own \in Seq(Range(own)) /\ Len(own) \in Nat \ {0}
  BY <1>3 DEF Range
<1>5. 1 \in DOMAIN own
  BY <1>3
<1> QED BY <1>4, <1>5 DEF Range, own

(* The elements of two sequences in a row. *)
LEMMA JoinedRange ==
    ASSUME NEW S, NEW s \in Seq(S), NEW t \in Seq(S)
    PROVE  s \o t \in Seq(S) /\ Range(s \o t) = Range(s) \cup Range(t)
<1>1. /\ s \o t \in Seq(S) /\ DOMAIN (s \o t) = 1 .. (Len(s) + Len(t))
      /\ DOMAIN s = 1 .. Len(s) /\ DOMAIN t = 1 .. Len(t) /\ Len(s) \in Nat /\ Len(t) \in Nat
      /\ \A i \in 1 .. (Len(s) + Len(t)) : (s \o t)[i] = IF i <= Len(s) THEN s[i] ELSE t[i - Len(s)]
  OBVIOUS
<1>2. ASSUME NEW y \in Range(s \o t) PROVE y \in Range(s) \cup Range(t)
  <2>1. PICK i \in DOMAIN (s \o t) : y = (s \o t)[i]
    BY <1>2 DEF Range
  <2>2. CASE i <= Len(s)
    <3>1. i \in DOMAIN s /\ y = s[i]
      BY <1>1, <2>1, <2>2
    <3> QED BY <3>1 DEF Range
  <2>3. CASE ~(i <= Len(s))
    <3>1. i - Len(s) \in DOMAIN t /\ y = t[i - Len(s)]
      BY <1>1, <2>1, <2>3
    <3> QED BY <3>1 DEF Range
  <2> QED BY <2>2, <2>3
<1>3. ASSUME NEW y \in Range(s) PROVE y \in Range(s \o t)
  <2>1. PICK i \in DOMAIN s : y = s[i]
    BY <1>3 DEF Range
  <2>2. i \in DOMAIN (s \o t) /\ (s \o t)[i] = y
    BY <1>1, <2>1
  <2> QED BY <2>2 DEF Range
<1>4. ASSUME NEW y \in Range(t) PROVE y \in Range(s \o t)
  <2>1. PICK i \in DOMAIN t : y = t[i]
    BY <1>4 DEF Range
  <2>2. Len(s) + i \in DOMAIN (s \o t) /\ (s \o t)[Len(s) + i] = y
    BY <1>1, <2>1
  <2> QED BY <2>2 DEF Range
<1>5. Range(s \o t) = Range(s) \cup Range(t)
  BY <1>2, <1>3, <1>4
<1> QED BY <1>1, <1>5

LEMMA MergeKeeps ==
    ASSUME NEW es, NEW kept \in EntriesLike(es), NEW e \in EntriesLike(es)
    PROVE  LET m == MergeInto(kept, e)
           IN  /\ m \in EntriesLike(es) /\ m.id = kept.id /\ m.metadata = kept.metadata
               /\ Range(m.unknown) = Range(kept.unknown) \cup Range(e.unknown)
               /\ Range(m.provenance) = Range(kept.provenance) \cup Range(e.provenance)
               /\ m.fulltext = IF kept.fulltext = None THEN e.fulltext ELSE kept.fulltext
<1> DEFINE I == {es[k].id : k \in DOMAIN es}
           M == {es[k].metadata : k \in DOMAIN es}
           X == {es[k].fulltext : k \in DOMAIN es}
           U == UNION {Range(es[k].unknown) : k \in DOMAIN es}
           P == UNION {Range(es[k].provenance) : k \in DOMAIN es}
           m == MergeInto(kept, e)
<1>1. EntriesLike(es) = [id : I, metadata : M, fulltext : X, unknown : Seq(U), provenance : Seq(P)]
  BY DEF EntriesLike
<1> HIDE DEF I, M, X, U, P
<1> DEFINE tags == AddTags(kept.unknown, e.unknown)
           all == kept.provenance \o e.provenance
           full == IF kept.fulltext = None THEN e.fulltext ELSE kept.fulltext
<1>2. /\ kept.unknown \in Seq(U) /\ e.unknown \in Seq(U)
      /\ kept.provenance \in Seq(P) /\ e.provenance \in Seq(P)
      /\ kept.fulltext \in X /\ e.fulltext \in X
  BY <1>1
<1>3. tags \in Seq(U) /\ Range(tags) = Range(kept.unknown) \cup Range(e.unknown)
  BY <1>2, AddTagsIn
<1>4. all \in Seq(P) /\ Range(all) = Range(kept.provenance) \cup Range(e.provenance)
  BY <1>2, JoinedRange
<1> HIDE DEF tags, all
<1>5. m = [kept EXCEPT !.unknown = tags, !.fulltext = full, !.provenance = all]
  BY DEF MergeInto, tags, all
<1>6. full \in X
  BY <1>2
<1> HIDE DEF full
<1>7. /\ m \in EntriesLike(es) /\ m.metadata = kept.metadata /\ m.id = kept.id
      /\ m.unknown = tags /\ m.fulltext = full /\ m.provenance = all
  <2> DEFINE Tags == Seq(U)
             Notes == Seq(P)
  <2>1. EntriesLike(es) = [id : I, metadata : M, fulltext : X, unknown : Tags, provenance : Notes]
    BY <1>1
  <2>2. tags \in Tags /\ all \in Notes
    BY <1>3, <1>4
  <2> HIDE DEF m, Tags, Notes
  <2> DEFINE R == [id : I, metadata : M, fulltext : X, unknown : Tags, provenance : Notes]
             p == [kept EXCEPT !.unknown = tags]
             q == [p EXCEPT !.fulltext = full]
  <2>3. kept \in R
    BY <2>1
  <2>4. p \in R /\ p.metadata = kept.metadata /\ p.id = kept.id /\ p.unknown = tags
    BY <2>2, <2>3
  <2> HIDE DEF p
  <2>5. q \in R /\ q.metadata = p.metadata /\ q.id = p.id /\ q.unknown = p.unknown /\ q.fulltext = full
    BY <1>6, <2>4
  <2> HIDE DEF q
  <2>6. m = [q EXCEPT !.provenance = all]
    BY <1>5 DEF p, q
  <2>7. /\ m \in R /\ m.metadata = q.metadata /\ m.id = q.id
        /\ m.unknown = q.unknown /\ m.fulltext = q.fulltext /\ m.provenance = all
    BY <2>2, <2>5, <2>6
  <2> HIDE DEF R
  <2> QED BY <2>1, <2>4, <2>5, <2>7 DEF R
<1> HIDE DEF m
<1> QED BY <1>3, <1>4, <1>7 DEF full, m

(* One entry alone is kept as it is. *)
LEMMA MergeOfOne ==
    ASSUME NEW es, NEW n \in Nat
    PROVE  MergeOf(es[n], es, {n})
<1>1. /\ UNION {Range(es[i].unknown) : i \in {n}} = Range(es[n].unknown)
      /\ UNION {Range(es[i].provenance) : i \in {n}} = Range(es[n].provenance)
  OBVIOUS
<1>2. n <= n
  OBVIOUS
<1> QED BY <1>1, <1>2, Zenon DEF MergeOf

(* A later entry that is merged into what is kept of some makes what is kept *)
(* of all of them.                                                           *)
LEMMA MergeOfMore ==
    ASSUME NEW es, NEW n \in Nat, NEW members \in SUBSET (1 .. (n - 1)), NEW kept, NEW m,
           MergeOf(kept, es, members),
           m.id = kept.id, m.metadata = kept.metadata,
           Range(m.unknown) = Range(kept.unknown) \cup Range(es[n].unknown),
           Range(m.provenance) = Range(kept.provenance) \cup Range(es[n].provenance),
           m.fulltext = IF kept.fulltext = None THEN es[n].fulltext ELSE kept.fulltext
    PROVE  MergeOf(m, es, members \cup {n})
<1> DEFINE all == members \cup {n}
<1>1. n \in all /\ n <= n /\ \A i \in all : i \in members \/ i = n
  OBVIOUS
<1>2. \A i \in members : i \in all /\ i <= n /\ ~(n <= i)
  OBVIOUS
<1>3. \E first \in all :
         /\ \A i \in all : first <= i
         /\ m.id = es[first].id /\ m.metadata = es[first].metadata
  <2>1. PICK first \in members :
           /\ \A i \in members : first <= i
           /\ kept.id = es[first].id /\ kept.metadata = es[first].metadata
    BY DEF MergeOf
  <2> HIDE DEF all
  <2> QED BY <1>1, <1>2, <2>1, Zenon
<1>4. Range(m.unknown) = UNION {Range(es[i].unknown) : i \in all}
  <2>1. Range(kept.unknown) = UNION {Range(es[i].unknown) : i \in members}
    BY Zenon DEF MergeOf
  <2> QED BY <2>1
<1>5. Range(m.provenance) = UNION {Range(es[i].provenance) : i \in all}
  <2>1. Range(kept.provenance) = UNION {Range(es[i].provenance) : i \in members}
    BY Zenon DEF MergeOf
  <2> QED BY <2>1
<1>6. \/ m.fulltext = None /\ \A i \in all : es[i].fulltext = None
      \/ \E i \in all : /\ m.fulltext = es[i].fulltext /\ m.fulltext # None
                       /\ \A j \in all : es[j].fulltext # None => i <= j
  <2>1. CASE kept.fulltext = None
    <3>1. m.fulltext = es[n].fulltext
      BY <2>1
    <3>2. \A i \in members : es[i].fulltext = None
      BY <2>1, Zenon DEF MergeOf
    <3> HIDE DEF all
    <3>3. CASE es[n].fulltext = None
      BY <1>1, <3>1, <3>2, <3>3, Zenon
    <3>4. CASE es[n].fulltext # None
      <4>1. \A j \in all : es[j].fulltext # None => n <= j
        BY <1>1, <3>2, Zenon
      <4> QED BY <1>1, <3>1, <3>4, <4>1, Zenon
    <3> QED BY <3>3, <3>4
  <2>2. CASE kept.fulltext # None
    <3>1. m.fulltext = kept.fulltext
      BY <2>2
    <3>2. PICK i \in members :
             /\ kept.fulltext = es[i].fulltext
             /\ \A j \in members : es[j].fulltext # None => i <= j
      BY <2>2, Zenon DEF MergeOf
    <3> HIDE DEF all
    <3>3. \A j \in all : es[j].fulltext # None => i <= j
      BY <1>1, <1>2, <3>2, Zenon
    <3> QED BY <1>2, <2>2, <3>1, <3>2, <3>3, Zenon
  <2> QED BY <2>1, <2>2
<1> HIDE DEF all
<1>7. MergeOf(m, es, all)
  BY <1>3, <1>4, <1>5, <1>6, Zenon DEF MergeOf
<1> QED BY <1>7 DEF all

(* Where each of the first n entries went. *)
Homes(es, n, result, home) ==
    /\ \A i \in 1 .. n : KeysOf(es[i]) \cap KeysOf(result[home[i]]) # {}
    /\ \A k \in DOMAIN result : MergeOf(result[k], es, {i \in 1 .. n : home[i] = k})

(* The states of a deduplication, and what each knows: every key of an entry *)
(* that is kept leads to it, and so there is one such entry; and every entry *)
(* taken so far has its home.                                                *)
DedupStates(es) ==
    [result : Seq(EntriesLike(es)),
     keys : UNION {[Q -> Nat] : Q \in SUBSET UNION {KeysOf(es[k]) : k \in DOMAIN es}}]

DedupSound(es, n, acc) ==
    /\ \A k \in DOMAIN acc.result : \A x \in KeysOf(acc.result[k]) : x \in DOMAIN acc.keys /\ acc.keys[x] = k
    /\ \A x \in DOMAIN acc.keys : acc.keys[x] \in DOMAIN acc.result /\ x \in KeysOf(acc.result[acc.keys[x]])
    /\ \E home \in [1 .. n -> DOMAIN acc.result] : Homes(es, n, acc.result, home)

LEMMA KeysOfEntries ==
    ASSUME NEW es, NEW e \in EntriesLike(es)
    PROVE  KeysOf(e) \subseteq UNION {KeysOf(es[k]) : k \in DOMAIN es}
<1>1. e.metadata \in {es[k].metadata : k \in DOMAIN es}
  BY DEF EntriesLike
<1>2. PICK k \in DOMAIN es : e.metadata = es[k].metadata
  BY <1>1
<1>3. KeysOf(e) = KeysOf(es[k])
  BY <1>2 DEF KeysOf
<1> QED BY <1>3

(* An entry that shares a key with one that is kept is merged into it. *)
LEMMA TakeMerges ==
    ASSUME NEW es, es \in Seq(EntriesLike(es)), NEW n \in 1 .. Len(es),
           NEW acc \in DedupStates(es), DedupSound(es, n - 1, acc),
           KeysOf(es[n]) \cap DOMAIN acc.keys # {}
    PROVE  TakeEntry(acc, es[n]) \in DedupStates(es) /\ DedupSound(es, n, TakeEntry(acc, es[n]))
<1> DEFINE e == es[n]
           E == EntriesLike(es)
           own == DedupKeys(e.metadata)
           known == {k \in DOMAIN own : own[k] \in DOMAIN acc.keys}
           first == CHOOSE k \in known : \A j \in known : k <= j
           x == own[first]
           p == acc.keys[x]
           m == MergeInto(acc.result[p], e)
           next == [acc EXCEPT !.result[p] = m]
<1>1. e \in E
  OBVIOUS
<1>2. own \in Seq(Range(own)) /\ known \in SUBSET Nat /\ known # {}
  <2>1. own \in Seq(Range(own)) /\ Len(own) \in Nat
    BY KeysType
  <2>2. PICK y \in KeysOf(e) : y \in DOMAIN acc.keys
    OBVIOUS
  <2>3. PICK k \in DOMAIN own : own[k] = y
    BY <2>2 DEF KeysOf, Range
  <2> HIDE DEF own
  <2> QED BY <2>1, <2>2, <2>3
<1>3. first \in known
  <2> HIDE DEF known
  <2>1. \E k \in known : \A j \in known : k <= j
    BY <1>2, LeastNumber
  <2> QED BY <2>1, Zenon
<1>4. x \in KeysOf(e) /\ x \in DOMAIN acc.keys
  <2> HIDE DEF first
  <2> QED BY <1>3 DEF KeysOf, Range
<1>5. TakeEntry(acc, e) = next
  <2>1. known # {}
    BY <1>3
  <2> QED BY <2>1, Zenon DEF TakeEntry
<1> HIDE DEF own, known, first, x
<1>6. /\ acc.result \in Seq(E) /\ p \in DOMAIN acc.result /\ x \in KeysOf(acc.result[p])
      /\ acc.result[p] \in E /\ Len(acc.result) \in Nat /\ DOMAIN acc.result = 1 .. Len(acc.result)
  <2>1. acc.result \in Seq(E)
    BY DEF DedupStates
  <2>2. p \in DOMAIN acc.result /\ x \in KeysOf(acc.result[p])
    BY <1>4 DEF DedupSound
  <2> HIDE DEF p, E
  <2> QED BY <2>1, <2>2
<1>7. /\ m \in E /\ m.metadata = acc.result[p].metadata
      /\ m.id = acc.result[p].id
      /\ Range(m.unknown) = Range(acc.result[p].unknown) \cup Range(e.unknown)
      /\ Range(m.provenance) = Range(acc.result[p].provenance) \cup Range(e.provenance)
      /\ m.fulltext = IF acc.result[p].fulltext = None THEN e.fulltext ELSE acc.result[p].fulltext
  <2> DEFINE kept == acc.result[p]
  <2>1. kept \in EntriesLike(es) /\ e \in EntriesLike(es)
    BY <1>1, <1>6
  <2> DEFINE merged == MergeInto(kept, e)
  <2> HIDE DEF kept, e, E
  <2>2. /\ merged \in EntriesLike(es) /\ merged.id = kept.id /\ merged.metadata = kept.metadata
        /\ Range(merged.unknown) = Range(kept.unknown) \cup Range(e.unknown)
        /\ Range(merged.provenance) = Range(kept.provenance) \cup Range(e.provenance)
        /\ merged.fulltext = IF kept.fulltext = None THEN e.fulltext ELSE kept.fulltext
    BY ONLY <2>1, MergeKeeps, Zenon
  <2>3. m = merged
    BY DEF kept
  <2> HIDE DEF merged, m
  <2> QED BY <2>2, <2>3, Zenon DEF kept, E
<1> DEFINE old == acc.result
           new == [old EXCEPT ![p] = m]
<1>8. next = [acc EXCEPT !.result = new]
  OBVIOUS
<1>9. next.result = new /\ next.keys = acc.keys /\ next \in DedupStates(es)
  <2>1. new \in Seq(E)
    <3> HIDE DEF p, m, E
    <3> QED BY <1>6, <1>7
  <2> HIDE DEF new, next
  <2> QED BY <1>8, <2>1 DEF DedupStates
<1> HIDE DEF next, p, m, E
<1>10. /\ DOMAIN new = DOMAIN old /\ new[p] = m
       /\ \A k \in DOMAIN old : k # p => new[k] = old[k]
  BY <1>6
<1> HIDE DEF new
<1>11. \A k \in DOMAIN old : KeysOf(new[k]) = KeysOf(old[k])
  BY <1>7, <1>10 DEF KeysOf
<1>12. PICK home \in [1 .. (n - 1) -> DOMAIN old] : Homes(es, n - 1, old, home)
  BY Zenon DEF DedupSound
<1> DEFINE moved == [i \in 1 .. n |-> IF i = n THEN p ELSE home[i]]
<1>n. n \in Nat /\ n \in 1 .. n /\ \A i \in 1 .. n : i = n \/ (i \in 1 .. (n - 1) /\ i # n)
  OBVIOUS
<1>d. moved \in [1 .. n -> DOMAIN new]
  BY <1>6, <1>10, <1>12, <1>n
<1>a. ASSUME NEW i \in 1 .. n PROVE KeysOf(es[i]) \cap KeysOf(new[moved[i]]) # {}
  <2>1. CASE i = n
    <3>1. moved[i] = p /\ es[i] = e
      BY <2>1
    <3>2. x \in KeysOf(e) \cap KeysOf(new[p])
      BY <1>4, <1>6, <1>11
    <3> QED BY <3>1, <3>2
  <2>2. CASE i # n
    <3>1. i \in 1 .. (n - 1) /\ moved[i] = home[i] /\ home[i] \in DOMAIN old
      BY <1>12, <1>n, <2>2
    <3> QED BY <1>11, <1>12, <3>1 DEF Homes
  <2> QED BY <2>1, <2>2
<1>b. ASSUME NEW k \in DOMAIN new PROVE MergeOf(new[k], es, {i \in 1 .. n : moved[i] = k})
  <2> DEFINE members == {i \in 1 .. (n - 1) : home[i] = k}
  <2>1. k \in DOMAIN old /\ MergeOf(old[k], es, members)
    BY <1>10, <1>12 DEF Homes
  <2>2. CASE k = p
    <3>1. {i \in 1 .. n : moved[i] = k} = members \cup {n}
      BY <1>n, <2>2
    <3>2. members \in SUBSET (1 .. (n - 1))
      OBVIOUS
    <3> HIDE DEF members, moved
    <3>3. new[k] = m /\ MergeOf(acc.result[p], es, members)
      BY <1>10, <2>1, <2>2
    <3> DEFINE kept == acc.result[p]
    <3>4. /\ m.id = kept.id /\ m.metadata = kept.metadata
          /\ Range(m.unknown) = Range(kept.unknown) \cup Range(es[n].unknown)
          /\ Range(m.provenance) = Range(kept.provenance) \cup Range(es[n].provenance)
          /\ m.fulltext = IF kept.fulltext = None THEN es[n].fulltext ELSE kept.fulltext
      BY <1>7
    <3>5. MergeOf(kept, es, members)
      BY <3>3
    <3> HIDE DEF kept, e
    <3>6. MergeOf(m, es, members \cup {n})
      BY ONLY <1>n, <3>2, <3>4, <3>5, MergeOfMore
    <3> QED BY <3>1, <3>3, <3>6
  <2>3. CASE k # p
    <3>1. {i \in 1 .. n : moved[i] = k} = members
      BY <1>n, <2>3
    <3> QED BY <1>10, <2>1, <2>3, <3>1
  <2> QED BY <2>2, <2>3
<1> HIDE DEF moved
<1>13. Homes(es, n, new, moved)
  BY <1>a, <1>b, Zenon DEF Homes
<1>14. DedupSound(es, n, next)
  <2>1. /\ \A k \in DOMAIN new : \A y \in KeysOf(new[k]) : y \in DOMAIN acc.keys /\ acc.keys[y] = k
        /\ \A y \in DOMAIN acc.keys : acc.keys[y] \in DOMAIN new /\ y \in KeysOf(new[acc.keys[y]])
    BY <1>10, <1>11 DEF DedupSound
  <2> QED BY <1>9, <1>13, <1>d, <2>1, Zenon DEF DedupSound
<1> QED BY <1>5, <1>9, <1>14

(* One that shares none is kept, and its keys lead to it. *)
LEMMA TakeAppends ==
    ASSUME NEW es, es \in Seq(EntriesLike(es)), NEW n \in 1 .. Len(es),
           NEW acc \in DedupStates(es), DedupSound(es, n - 1, acc),
           KeysOf(es[n]) \cap DOMAIN acc.keys = {}
    PROVE  TakeEntry(acc, es[n]) \in DedupStates(es) /\ DedupSound(es, n, TakeEntry(acc, es[n]))
<1> DEFINE e == es[n]
           E == EntriesLike(es)
           own == DedupKeys(e.metadata)
           old == acc.result
           place == Len(old) + 1
           new == Append(old, e)
           keys == [x \in DOMAIN acc.keys \cup KeysOf(e) |-> IF x \in KeysOf(e) THEN place ELSE acc.keys[x]]
           K == UNION {KeysOf(es[k]) : k \in DOMAIN es}
           next == [result |-> new, keys |-> keys]
<1>1. e \in E /\ n \in DOMAIN es
  OBVIOUS
<1>2. TakeEntry(acc, e) = next
  <2> DEFINE known == {k \in DOMAIN own : own[k] \in DOMAIN acc.keys}
  <2>1. known = {}
    BY DEF KeysOf, Range
  <2>2. Range(own) = KeysOf(e)
    BY DEF KeysOf
  <2> QED BY <2>1, <2>2, Zenon DEF TakeEntry
<1>3. /\ old \in Seq(E) /\ Len(old) \in Nat /\ place \in Nat /\ DOMAIN old = 1 .. Len(old)
      /\ acc.keys \in [DOMAIN acc.keys -> Nat] /\ DOMAIN acc.keys \subseteq K
  <2>1. old \in Seq(E)
    BY DEF DedupStates
  <2>2. Len(old) \in Nat /\ DOMAIN old = 1 .. Len(old)
    <3> HIDE DEF old, E
    <3> QED BY <2>1
  <2>3. PICK Q \in SUBSET K : acc.keys \in [Q -> Nat]
    BY DEF DedupStates
  <2> HIDE DEF K, E
  <2>4. DOMAIN acc.keys = Q /\ acc.keys \in [DOMAIN acc.keys -> Nat]
    BY <2>3
  <2>5. place \in Nat
    BY <2>2
  <2> HIDE DEF old, place
  <2> QED BY <2>1, <2>2, <2>4, <2>5
<1>4. KeysOf(e) \subseteq K
  BY <1>1, KeysOfEntries
<1> HIDE DEF e, E, own, old, K
<1>5. /\ new \in Seq(E) /\ DOMAIN new = 1 .. place /\ new[place] = e
      /\ \A k \in DOMAIN old : k \in DOMAIN new /\ k # place /\ new[k] = old[k]
      /\ \A k \in DOMAIN new : k = place \/ k \in DOMAIN old
  <2>1. /\ new \in Seq(E) /\ Len(new) = place /\ new[place] = e
        /\ \A k \in 1 .. Len(old) : new[k] = old[k]
    BY <1>1, <1>3, AppendProperties
  <2>2. DOMAIN new = 1 .. place
    <3> HIDE DEF new, place
    <3> QED BY <2>1
  <2> HIDE DEF new
  <2> QED BY <1>3, <2>1, <2>2
<1> HIDE DEF new
<1>6. keys \in [DOMAIN acc.keys \cup KeysOf(e) -> Nat]
  <2> HIDE DEF place
  <2> QED BY <1>3
<1>7. next \in DedupStates(es)
  <2>1. DOMAIN acc.keys \cup KeysOf(e) \in SUBSET K
    BY <1>3, <1>4
  <2> DEFINE Q == DOMAIN acc.keys \cup KeysOf(e)
             Keyed == UNION {[P -> Nat] : P \in SUBSET K}
  <2>2. keys \in [Q -> Nat] /\ Q \in SUBSET K
    BY <1>6, <2>1
  <2> HIDE DEF keys, Q
  <2>3. keys \in Keyed
    BY <2>2, Zenon
  <2>4. DedupStates(es) = [result : Seq(E), keys : Keyed]
    BY DEF DedupStates, E, K
  <2> HIDE DEF Keyed
  <2> QED BY <1>5, <2>3, <2>4
<1>8. KeysOf(e) \cap DOMAIN acc.keys = {}
  BY DEF e
<1>9. /\ \A k \in DOMAIN old : \A x \in KeysOf(old[k]) : x \in DOMAIN acc.keys /\ acc.keys[x] = k
      /\ \A x \in DOMAIN acc.keys : acc.keys[x] \in DOMAIN old /\ x \in KeysOf(old[acc.keys[x]])
      /\ \E home \in [1 .. (n - 1) -> DOMAIN old] : Homes(es, n - 1, old, home)
  BY DEF DedupSound, old
<1>10. ASSUME NEW k \in DOMAIN new, NEW x \in KeysOf(new[k]) PROVE x \in DOMAIN keys /\ keys[x] = k
  <2>1. CASE k = place
    BY <1>5, <2>1
  <2>2. CASE k # place
    <3>1. k \in DOMAIN old /\ x \in KeysOf(old[k])
      BY <1>5, <2>2
    <3>2. x \in DOMAIN acc.keys /\ acc.keys[x] = k /\ x \notin KeysOf(e)
      BY <1>8, <1>9, <3>1
    <3> QED BY <3>2
  <2> QED BY <2>1, <2>2
<1>11. ASSUME NEW x \in DOMAIN keys PROVE keys[x] \in DOMAIN new /\ x \in KeysOf(new[keys[x]])
  <2>1. CASE x \in KeysOf(e)
    <3>1. keys[x] = place /\ place \in DOMAIN new
      BY <1>3, <1>5, <2>1
    <3> QED BY <1>5, <2>1, <3>1
  <2>2. CASE x \notin KeysOf(e)
    <3>1. x \in DOMAIN acc.keys /\ keys[x] = acc.keys[x]
      BY <2>2
    <3> QED BY <1>5, <1>9, <3>1
  <2> QED BY <2>1, <2>2
<1> HIDE DEF keys
<1>12. PICK home \in [1 .. (n - 1) -> DOMAIN old] : Homes(es, n - 1, old, home)
  BY <1>9, Zenon
<1> DEFINE moved == [i \in 1 .. n |-> IF i = n THEN place ELSE home[i]]
<1>n. n \in Nat /\ n \in 1 .. n /\ \A i \in 1 .. n : i = n \/ (i \in 1 .. (n - 1) /\ i # n)
  OBVIOUS
<1>p. place \in DOMAIN new /\ place \notin DOMAIN old
  BY <1>3, <1>5
<1> HIDE DEF place
<1>d. moved \in [1 .. n -> DOMAIN new]
  BY <1>5, <1>12, <1>n, <1>p
<1>a. ASSUME NEW i \in 1 .. n PROVE KeysOf(es[i]) \cap KeysOf(new[moved[i]]) # {}
  <2>1. CASE i = n
    <3>1. new[moved[i]] = e /\ es[i] = e
      BY <1>5, <2>1 DEF e
    <3>2. KeysOf(e) \cap KeysOf(e) # {}
      BY KeysType DEF KeysOf
    <3> QED BY <3>1, <3>2
  <2>2. CASE i # n
    <3>1. i \in 1 .. (n - 1) /\ moved[i] = home[i] /\ home[i] \in DOMAIN old
      BY <1>12, <1>n, <2>2
    <3> QED BY <1>5, <1>12, <3>1 DEF Homes
  <2> QED BY <2>1, <2>2
<1>b. ASSUME NEW k \in DOMAIN new PROVE MergeOf(new[k], es, {i \in 1 .. n : moved[i] = k})
  <2>1. CASE k = place
    <3>1. {i \in 1 .. n : moved[i] = k} = {n}
      BY <1>12, <1>n, <1>p, <2>1
    <3>2. MergeOf(es[n], es, {n})
      BY <1>n, MergeOfOne
    <3>3. new[k] = es[n]
      BY <1>5, <2>1 DEF e
    <3> QED BY <3>1, <3>2, <3>3
  <2>2. CASE k # place
    <3>1. {i \in 1 .. n : moved[i] = k} = {i \in 1 .. (n - 1) : home[i] = k}
      BY <1>n, <2>2
    <3>2. k \in DOMAIN old /\ new[k] = old[k]
      BY <1>5, <2>2
    <3> QED BY <1>12, <3>1, <3>2, Zenon DEF Homes
  <2> QED BY <2>1, <2>2
<1> HIDE DEF moved
<1>13. Homes(es, n, new, moved)
  BY <1>a, <1>b, Zenon DEF Homes
<1>14. next.result = new /\ next.keys = keys
  OBVIOUS
<1> HIDE DEF next
<1>15. DedupSound(es, n, next)
  BY <1>10, <1>11, <1>13, <1>14, <1>d, Zenon DEF DedupSound
<1> QED BY <1>2, <1>7, <1>15 DEF e

LEMMA DedupExact ==
    ASSUME NEW es, es \in Seq(EntriesLike(es))
    PROVE  \E acc \in DedupStates(es) : DedupSound(es, Len(es), acc) /\ Deduplicate(es) = acc.result
<1> DEFINE n == Len(es)
           D == DedupStates(es)
           first == [result |-> <<>>, keys |-> [k \in {} |-> 0]]
           F == [k \in 1 .. n |-> [d \in D |-> TakeEntry(d, es[k])]]
           G == [k \in 0 .. n |-> {d \in D : DedupSound(es, k, d)}]
           Next(k, o) == IF k = 0 THEN first ELSE TakeEntry(o[k - 1], es[k])
           taken[k \in 0 .. n] ==
               IF k = 0 THEN [result |-> <<>>, keys |-> [x \in {} |-> 0]] ELSE TakeEntry(taken[k - 1], es[k])
<1>1. Deduplicate(es) = taken[n].result
  BY DEF Deduplicate
<1>2. n \in Nat
  OBVIOUS
<1>3. first \in D /\ DedupSound(es, 0, first)
  <2>1. first.result = <<>> /\ first.keys = [k \in {} |-> 0] /\ DOMAIN first.result = {} /\ DOMAIN first.keys = {}
    OBVIOUS
  <2>2. first \in D
    <3>1. <<>> \in Seq(EntriesLike(es))
      OBVIOUS
    <3>2. [k \in {} |-> 0] \in [{} -> Nat]
      OBVIOUS
    <3>3. {} \in SUBSET UNION {KeysOf(es[k]) : k \in DOMAIN es}
      OBVIOUS
    <3> QED BY <3>1, <3>2, <3>3 DEF DedupStates
  <2>3. \A i \in 1 .. 0 : FALSE
    OBVIOUS
  <2>4. \E home \in [1 .. 0 -> DOMAIN first.result] : Homes(es, 0, first.result, home)
    <3> DEFINE none == [i \in 1 .. 0 |-> i]
    <3>1. none \in [1 .. 0 -> {}]
      BY <2>3
    <3> HIDE DEF none, first
    <3>2. Homes(es, 0, first.result, none)
      BY <2>1, <2>3, Zenon DEF Homes
    <3> QED BY <2>1, <3>1, <3>2
  <2> HIDE DEF first
  <2> QED BY <2>1, <2>2, <2>4 DEF DedupSound
<1>4. ASSUME NEW k \in 1 .. n, NEW d \in D, DedupSound(es, k - 1, d)
      PROVE  TakeEntry(d, es[k]) \in D /\ DedupSound(es, k, TakeEntry(d, es[k]))
  <2>1. CASE KeysOf(es[k]) \cap DOMAIN d.keys = {}
    <3> HIDE DEF F, G
    <3> QED BY <1>4, <2>1, TakeAppends
  <2>2. CASE KeysOf(es[k]) \cap DOMAIN d.keys # {}
    <3> HIDE DEF F, G
    <3> QED BY <1>4, <2>2, TakeMerges
  <2> QED BY <2>1, <2>2
<1> HIDE DEF n, first, D
<1>5. first \in G[0] /\ \A k \in 1 .. n : \A d \in G[k - 1] : F[k][d] \in G[k]
  <2>1. first \in G[0]
    BY <1>2, <1>3
  <2>2. ASSUME NEW k \in 1 .. n, NEW d \in G[k - 1] PROVE F[k][d] \in G[k]
    <3>1. k - 1 \in 0 .. n /\ k \in 0 .. n
      BY <1>2
    <3>2. d \in D /\ DedupSound(es, k - 1, d)
      BY <3>1
    <3>3. TakeEntry(d, es[k]) \in D /\ DedupSound(es, k, TakeEntry(d, es[k]))
      BY <1>4, <3>2
    <3> QED BY <3>1, <3>2, <3>3
  <2> QED BY <2>1, <2>2
<1>6. PICK f : Iterated(n, first, F, f) /\ \A k \in 0 .. n : f[k] \in G[k]
  <2> HIDE DEF F, G
  <2> QED BY <1>2, <1>5, Iterates
<1>7. f = [k \in 0 .. n |-> f[k]] /\ f[0] = first /\ \A k \in 1 .. n : f[k] = F[k][f[k - 1]]
  <2> HIDE DEF F, G
  <2> QED BY <1>6, Zenon DEF Iterated
<1>8. \A k \in 0 .. n : f[k] \in D
  BY <1>6
<1>9. ASSUME NEW k \in 0 .. n PROVE f[k] = Next(k, f)
  <2>1. CASE k = 0
    BY <1>7, <2>1, Zenon
  <2>2. CASE k # 0
    <3>1. k \in 1 .. n /\ k - 1 \in 0 .. n
      BY <1>2, <2>2
    <3>2. f[k] = F[k][f[k - 1]] /\ f[k - 1] \in D
      <4> HIDE DEF F
      <4> QED BY <1>7, <1>8, <3>1, Zenon
    <3>3. F[k][f[k - 1]] = TakeEntry(f[k - 1], es[k])
      BY <3>1, <3>2, Zenon
    <3> QED BY <2>2, <3>2, <3>3, Zenon
  <2> QED BY <2>1, <2>2
<1>10. f = [k \in 0 .. n |-> Next(k, f)]
  <2> HIDE DEF Next
  <2> QED BY <1>7, <1>9
<1>11. taken = [k \in 0 .. n |-> Next(k, taken)]
  <2>1. f = [k \in 0 .. n |-> IF k = 0 THEN [result |-> <<>>, keys |-> [x \in {} |-> 0]]
                               ELSE TakeEntry(f[k - 1], es[k])]
    BY <1>10, Zenon DEF first
  <2>2. taken = [k \in 0 .. n |-> IF k = 0 THEN [result |-> <<>>, keys |-> [x \in {} |-> 0]]
                                   ELSE TakeEntry(taken[k - 1], es[k])]
    BY <2>1, Zenon
  <2> HIDE DEF taken
  <2> QED BY <2>2, Zenon DEF first
<1> HIDE DEF taken
<1> DEFINE T == {k \in 0 .. n : taken[k] \in D /\ DedupSound(es, k, taken[k])}
<1>12. \A k \in 0 .. n : taken[k] = Next(k, taken)
  <2> HIDE DEF Next
  <2> QED BY <1>11, Zenon
<1>13. 0 \in T
  <2>1. 0 \in 0 .. n /\ taken[0] = first
    BY <1>2, <1>12
  <2> QED BY <1>3, <2>1
<1>14. ASSUME NEW k \in 1 .. n, k - 1 \in T PROVE k \in T
  <2>1. k \in 0 .. n /\ taken[k] = TakeEntry(taken[k - 1], es[k])
    BY <1>2, <1>12
  <2>2. taken[k - 1] \in D /\ DedupSound(es, k - 1, taken[k - 1])
    BY <1>14
  <2>3. TakeEntry(taken[k - 1], es[k]) \in D /\ DedupSound(es, k, TakeEntry(taken[k - 1], es[k]))
    BY <1>4, <2>2
  <2> QED BY <2>1, <2>3
<1>15. \A k \in 0 .. n : k \in T
  <2> HIDE DEF T
  <2> QED BY <1>2, <1>13, <1>14, Counted
<1>16. taken[n] \in D /\ DedupSound(es, n, taken[n])
  BY <1>2, <1>15
<1> QED BY <1>1, <1>16 DEF n, D

(* Deduplication gives every entry a home, an entry that is kept and shares a   *)
(* key with it, and what is kept is the first entry of that home with the tags  *)
(* and the provenance of all of them and the first full text one of them has:   *)
(* an attachment is dropped exactly when an earlier entry of the same home had  *)
(* one.  No two that are kept share a key (deduplicate).                        *)
THEOREM DeduplicationKeeps == LibrarySpec => []DedupLossless
<1>1. LibraryInv => DedupLossless
  <2> SUFFICES ASSUME LibraryInv, answer.op = "dedup" PROVE DedupLossless
    BY DEF DedupLossless
  <2> DEFINE es == request.entries
             kept == answer.entries
  <2>1. es \in Seq(EntriesLike(es)) /\ kept = Deduplicate(es)
    BY LibraryAssumption DEF LibraryInv
  <2>2. DOMAIN es = 1 .. Len(es)
    BY <2>1
  <2> HIDE DEF es
  <2>3. PICK acc \in DedupStates(es) : DedupSound(es, Len(es), acc) /\ Deduplicate(es) = acc.result
    BY <2>1, DedupExact
  <2>4. kept = acc.result
    BY <2>1, <2>3
  <2>5. ASSUME NEW j \in DOMAIN kept, NEW k \in DOMAIN kept, ShareKey(kept[j], kept[k]) PROVE j = k
    <3>1. PICK y \in KeysOf(kept[j]) : y \in KeysOf(kept[k])
      BY <2>5 DEF ShareKey, KeysOf
    <3>2. acc.keys[y] = j /\ acc.keys[y] = k
      BY <2>3, <2>4, <3>1 DEF DedupSound
    <3> QED BY <3>2
  <2>6. PICK home \in [1 .. Len(es) -> DOMAIN acc.result] : Homes(es, Len(es), acc.result, home)
    BY <2>3, Zenon DEF DedupSound
  <2>7. home \in [DOMAIN es -> DOMAIN kept]
    BY <2>2, <2>4, <2>6
  <2>8. \A i \in DOMAIN es : ShareKey(es[i], kept[home[i]])
    BY <2>2, <2>4, <2>6, Zenon DEF Homes, ShareKey, KeysOf
  <2>9. \A k \in DOMAIN kept : MergeOf(kept[k], es, {i \in DOMAIN es : home[i] = k})
    BY <2>2, <2>4, <2>6, Zenon DEF Homes
  <2>10. \A j, k \in DOMAIN kept : j # k => ~ShareKey(kept[j], kept[k])
    BY <2>5
  <2> QED BY <2>7, <2>8, <2>9, <2>10, Zenon DEF DedupLossless, es
<1> QED BY <1>1, LibraryInvariant, PTL

-----------------------------------------------------------------------------
(* The numbers of a bibliography. *)

LEMMA RanksReach ==
    ASSUME NEW n \in Nat, NEW shown \in SUBSET (1 .. n)
    PROVE  \A k \in 1 .. Cardinality(shown) : \E i \in shown : Rank(shown, i) = k
<1> DEFINE T == {m \in 0 .. n : \A k \in 1 .. Rank(shown, m) : \E i \in shown : Rank(shown, i) = k}
<1>1. /\ \A m \in 0 .. n : Rank(shown, m) \in Nat
      /\ Rank(shown, 0) = 0 /\ Rank(shown, n) = Cardinality(shown)
      /\ \A m \in 1 .. n : Rank(shown, m) = IF m \in shown THEN Rank(shown, m - 1) + 1 ELSE Rank(shown, m - 1)
  BY Ranks
<1>2. 0 \in T
  BY <1>1
<1>3. ASSUME NEW m \in 1 .. n, m - 1 \in T PROVE m \in T
  <2>1. m \in 0 .. n /\ m - 1 \in 0 .. n
    OBVIOUS
  <2> SUFFICES ASSUME NEW k \in 1 .. Rank(shown, m) PROVE \E i \in shown : Rank(shown, i) = k
    BY <2>1
  <2>2. CASE k \in 1 .. Rank(shown, m - 1)
    BY <1>3, <2>2
  <2>3. CASE ~(k \in 1 .. Rank(shown, m - 1))
    <3>1. m \in shown /\ Rank(shown, m) = k
      BY <1>1, <2>1, <2>3
    <3> QED BY <3>1
  <2> QED BY <2>2, <2>3
<1>4. \A m \in 0 .. n : m \in T
  <2> HIDE DEF T
  <2> QED BY <1>2, <1>3, Counted
<1> QED BY <1>1, <1>4

LEMMA PlacesCount ==
    ASSUME NEW s, NEW places, IsFiniteSet(places), \A p, q \in places : s[p] = s[q] => p = q
    PROVE  IsFiniteSet({s[p] : p \in places}) /\ Cardinality({s[p] : p \in places}) = Cardinality(places)
<1> DEFINE g == [p \in places |-> s[p]]
           T == {s[p] : p \in places}
<1>1. g \in [places -> T] /\ \A p \in places : g[p] = s[p]
  OBVIOUS
<1>2. \A y \in T : \E p \in places : g[p] = y
  BY <1>1
<1> HIDE DEF g, T
<1>3. g \in Bijection(places, T)
  <2>1. g \in Injection(places, T)
    BY <1>1 DEF Injection, IsInjective
  <2>2. g \in Surjection(places, T)
    BY <1>1, <1>2 DEF Surjection
  <2> QED BY <2>1, <2>2 DEF Bijection
<1>4. ExistsBijection(places, T)
  BY <1>3 DEF ExistsBijection
<1> QED BY <1>4, FS_Bijection DEF T

(* The place of the first citation of an id. *)
LEMMA FirstCitation ==
    ASSUME NEW b, IsSeq(b.citations), NEW id
    PROVE  LET n == Len(b.citations)
               p == FirstCited(b, id)
           IN  /\ id \in Range(b.citations) => /\ p \in 1 .. n /\ b.citations[p] = id
               /\ id \notin Range(b.citations) => p = n + 1
<1> DEFINE s == b.citations
           n == Len(s)
           at == {k \in DOMAIN s : s[k] = id}
           First(k) == s[k] = id /\ \A j \in 1 .. (k - 1) : s[j] # id
<1>1. n \in Nat /\ DOMAIN s = 1 .. n
  BY DEF IsSeq
<1>2. FirstCited(b, id) = IF \E k \in DOMAIN s : s[k] = id THEN CHOOSE k \in DOMAIN s : First(k) ELSE n + 1
  BY DEF FirstCited
<1> HIDE DEF s, n
<1>3. ASSUME id \in Range(s) PROVE \E k \in DOMAIN s : First(k)
  <2>1. at \in SUBSET Nat /\ at # {}
    BY <1>1, <1>3 DEF Range
  <2>2. PICK k \in at : \A j \in at : k <= j
    <3> HIDE DEF at
    <3> QED BY <2>1, LeastNumber
  <2>3. ASSUME NEW j \in 1 .. (k - 1) PROVE s[j] # id
    BY <1>1, <2>2, <2>3
  <2> QED BY <2>2, <2>3
<1>4. ASSUME id \in Range(s) PROVE FirstCited(b, id) \in 1 .. n /\ s[FirstCited(b, id)] = id
  <2>1. \E k \in DOMAIN s : s[k] = id
    BY <1>4 DEF Range
  <2>2. FirstCited(b, id) = CHOOSE k \in DOMAIN s : First(k)
    BY <1>2, <2>1
  <2>3. FirstCited(b, id) \in DOMAIN s /\ First(FirstCited(b, id))
    <3> HIDE DEF First
    <3> QED BY <1>3, <1>4, <2>2, Zenon
  <2> QED BY <1>1, <2>3
<1>5. ASSUME id \notin Range(s) PROVE FirstCited(b, id) = n + 1
  <2>1. ~ \E k \in DOMAIN s : s[k] = id
    BY <1>5 DEF Range
  <2> QED BY <1>2, <2>1
<1> QED BY <1>4, <1>5 DEF s, n

FirstPlaces(b) == {FirstCited(b, id) : id \in Range(b.citations)}

(* An entry that is cited later has no smaller a number. *)
LEMMA NumbersRise ==
    ASSUME NEW b, IsSeq(b.citations), IsSeq(b.entries), Numberable(b),
           NEW x \in Range(b.citations), NEW y \in Range(b.citations),
           NumberBibliography(b)[x] < NumberBibliography(b)[y]
    PROVE  FirstCited(b, x) < FirstCited(b, y)
<1> DEFINE s == b.citations
           n == Len(s)
           D == DOMAIN b.entries
           at(id) == FirstCited(b, id)
           id(k) == b.entries[k].id
           before(u, v) == at(u) < at(v) \/ (at(u) = at(v) /\ IdLess(u, v))
           upto(v) == {k \in D : id(k) = v \/ before(id(k), v)}
<1>1. n \in Nat /\ \A u : at(u) \in Nat /\ (u \in Range(s) => s[at(u)] = u)
  <2>1. n \in Nat
    BY DEF IsSeq
  <2>2. ASSUME NEW u PROVE at(u) \in Nat /\ (u \in Range(s) => s[at(u)] = u)
    <3>1. /\ u \in Range(s) => at(u) \in 1 .. n /\ s[at(u)] = u
          /\ u \notin Range(s) => at(u) = n + 1
      BY FirstCitation
    <3> HIDE DEF n, at, s
    <3> QED BY <2>1, <3>1
  <2> QED BY <2>1, <2>2
<1>2. x \in IdsOf(b.entries) /\ y \in IdsOf(b.entries)
  BY DEF Numberable
<1>3. NumberBibliography(b)[x] = Cardinality(upto(x)) /\ NumberBibliography(b)[y] = Cardinality(upto(y))
  BY <1>2 DEF NumberBibliography
<1>4. \A v : IsFiniteSet(upto(v)) /\ Cardinality(upto(v)) \in Nat
  <2>1. D = 1 .. Len(b.entries) /\ Len(b.entries) \in Nat
    BY DEF IsSeq
  <2>2. IsFiniteSet(D)
    BY <2>1, FS_Interval
  <2> SUFFICES ASSUME NEW v PROVE IsFiniteSet(upto(v)) /\ Cardinality(upto(v)) \in Nat
    OBVIOUS
  <2>3. upto(v) \in SUBSET D
    OBVIOUS
  <2> HIDE DEF upto, D
  <2> QED BY <2>2, <2>3, FS_Subset, FS_CardinalityType
<1>5. x # y
  BY <1>3, <1>4
<1>6. at(x) # at(y)
  BY <1>1, <1>5
<1>7. ASSUME at(y) < at(x) PROVE FALSE
  <2>1. ASSUME NEW k \in upto(y) PROVE k \in upto(x)
    <3>1. at(id(k)) \in Nat /\ at(x) \in Nat /\ at(y) \in Nat
      BY <1>1
    <3>2. k \in D /\ (at(id(k)) < at(y) \/ at(id(k)) = at(y))
      BY <2>1
    <3>3. at(id(k)) < at(x)
      <4> HIDE DEF at, id
      <4> QED BY <1>7, <3>1, <3>2
    <3> QED BY <3>2, <3>3
  <2>2. upto(y) \in SUBSET upto(x)
    BY <2>1
  <2> HIDE DEF upto
  <2>3. Cardinality(upto(y)) <= Cardinality(upto(x))
    BY <1>4, <2>2, FS_Subset
  <2> QED BY <1>3, <1>4, <2>3
<1> HIDE DEF at
<1>8. at(x) \in Nat /\ at(y) \in Nat
  BY <1>1
<1>9. at(x) < at(y)
  BY <1>6, <1>7, <1>8
<1> QED BY <1>9 DEF at

(* If no id is there twice, the number of a cited reference is the rank of *)
(* its first citation among the first citations.                           *)
LEMMA NumberIsRank ==
    ASSUME NEW b, IsSeq(b.citations), IsSeq(b.entries), Numberable(b), IdsDiffer(b),
           NEW x \in Range(b.citations)
    PROVE  NumberBibliography(b)[x] = Rank(FirstPlaces(b), FirstCited(b, x))
<1> DEFINE s == b.citations
           n == Len(s)
           C == Range(s)
           D == DOMAIN b.entries
           ids == [k \in D |-> b.entries[k].id]
           shown == FirstPlaces(b)
           p == FirstCited(b, x)
           before(y) == FirstCited(b, y) < p \/ (FirstCited(b, y) = p /\ IdLess(y, x))
           counted == {k \in D : ids[k] = x \/ before(ids[k])}
           upto == shown \cap (1 .. p)
<1>1. n \in Nat /\ \A y : /\ y \in C => FirstCited(b, y) \in 1 .. n /\ s[FirstCited(b, y)] = y
                          /\ y \notin C => FirstCited(b, y) = n + 1
  <2>1. n \in Nat
    BY DEF IsSeq
  <2> QED BY <2>1, FirstCitation
<1>2. x \in IdsOf(b.entries) /\ \A y \in C : \E k \in D : ids[k] = y
  BY DEF Numberable, IdsOf
<1>3. NumberBibliography(b)[x] = Cardinality(counted)
  <2>1. NumberBibliography(b)[x] = Cardinality({k \in D : b.entries[k].id = x \/ before(b.entries[k].id)})
    BY <1>2 DEF NumberBibliography
  <2>2. counted = {k \in D : b.entries[k].id = x \/ before(b.entries[k].id)}
    OBVIOUS
  <2> QED BY <2>1, <2>2
<1>4. shown \in SUBSET (1 .. n) /\ p \in shown /\ p \in 1 .. n /\ s[p] = x
  BY <1>1 DEF FirstPlaces
<1>5. \A q \in shown : FirstCited(b, s[q]) = q /\ s[q] \in C
  BY <1>1 DEF FirstPlaces
<1>6. \A y \in C : FirstCited(b, y) \in shown
  BY DEF FirstPlaces
<1>7. \A j, k \in counted : ids[j] = ids[k] => j = k
  BY DEF IdsDiffer
<1>8. D = 1 .. Len(b.entries) /\ Len(b.entries) \in Nat
  BY DEF IsSeq
<1> HIDE DEF s, n, C, shown, p, D, ids
<1>9. {ids[k] : k \in counted} = {s[q] : q \in upto}
  <2>1. ASSUME NEW k \in counted PROVE \E q \in upto : ids[k] = s[q]
    <3>1. CASE ids[k] = x
      <4>1. p \in upto
        BY <1>4
      <4> QED BY <1>4, <3>1, <4>1
    <3>2. CASE ids[k] # x
      <4> DEFINE y == ids[k]
      <4>1. before(y)
        BY <3>2
      <4> HIDE DEF y
      <4>2. y \in C
        BY <1>1, <1>4, <4>1
      <4>3. FirstCited(b, y) \in upto /\ s[FirstCited(b, y)] = y
        BY <1>1, <1>4, <1>6, <4>1, <4>2
      <4> QED BY <4>3 DEF y
    <3> QED BY <3>1, <3>2
  <2>2. ASSUME NEW q \in upto PROVE \E k \in counted : ids[k] = s[q]
    <3>1. q \in shown /\ (q = p \/ q < p)
      BY <1>4
    <3>2. FirstCited(b, s[q]) = q /\ s[q] \in C
      BY <1>5, <3>1
    <3>3. PICK k \in D : ids[k] = s[q]
      BY <1>2, <3>2
    <3>4. ids[k] = x \/ before(ids[k])
      BY <1>4, <3>1, <3>2, <3>3
    <3> QED BY <3>3, <3>4
  <2> HIDE DEF counted, upto
  <2> QED BY <2>1, <2>2
<1>10. IsFiniteSet(counted) /\ IsFiniteSet(upto)
  <2>1. IsFiniteSet(shown)
    BY <1>1, <1>4, Ranks
  <2>2. IsFiniteSet(D)
    BY <1>8, FS_Interval
  <2>3. upto \in SUBSET shown /\ counted \in SUBSET D
    OBVIOUS
  <2> HIDE DEF upto, counted
  <2> QED BY <2>1, <2>2, <2>3, FS_Subset
<1>11. \A i, j \in upto : s[i] = s[j] => i = j
  BY <1>5
<1> HIDE DEF counted
<1>12. Cardinality({ids[k] : k \in counted}) = Cardinality(counted)
  BY <1>7, <1>10, PlacesCount
<1>13. Cardinality({s[q] : q \in upto}) = Cardinality(upto)
  <2> HIDE DEF upto
  <2> QED BY <1>10, <1>11, PlacesCount
<1>14. Rank(shown, p) = Cardinality(upto)
  BY DEF Rank
<1> HIDE DEF upto
<1> QED BY <1>3, <1>9, <1>12, <1>13, <1>14 DEF shown, p

(* If no id is there twice, the numbers of the cited references are 1, 2,  *)
(* and so on.                                                              *)
LEMMA CitedNumbers ==
    ASSUME NEW b, IsSeq(b.citations), IsSeq(b.entries), Numberable(b), IdsDiffer(b)
    PROVE  LET numbers == NumberBibliography(b)
               cited == Range(b.citations)
           IN  {numbers[id] : id \in cited} = 1 .. Cardinality(cited)
<1> DEFINE s == b.citations
           n == Len(s)
           cited == Range(s)
           shown == FirstPlaces(b)
           numbers == NumberBibliography(b)
           at(id) == FirstCited(b, id)
<1>1. n \in Nat /\ \A id \in cited : at(id) \in 1 .. n /\ s[at(id)] = id
  <2>1. n \in Nat
    BY DEF IsSeq
  <2> QED BY <2>1, FirstCitation
<1>2. /\ shown \in SUBSET (1 .. n)
      /\ \A id \in cited : at(id) \in shown
      /\ \A q \in shown : s[q] \in cited /\ at(s[q]) = q
  BY <1>1 DEF FirstPlaces
<1>3. \A id \in cited : numbers[id] = Rank(shown, at(id))
  BY NumberIsRank
<1> HIDE DEF s, n, cited, shown, numbers, at
<1>4. /\ IsFiniteSet(shown) /\ \A m \in 0 .. n : Rank(shown, m) \in Nat
      /\ Rank(shown, 0) = 0 /\ Rank(shown, n) = Cardinality(shown)
      /\ \A i \in 0 .. n, j \in shown : i < j => Rank(shown, i) < Rank(shown, j)
  BY <1>1, <1>2, Ranks
<1>5. Cardinality(cited) = Cardinality(shown) /\ Cardinality(shown) \in Nat
  <2>1. \A p, q \in shown : s[p] = s[q] => p = q
    BY <1>2
  <2>2. cited = {s[q] : q \in shown}
    BY <1>1, <1>2
  <2> QED BY <1>4, <2>1, <2>2, PlacesCount, FS_CardinalityType
<1>6. ASSUME NEW id \in cited PROVE numbers[id] \in 1 .. Cardinality(cited)
  <2> DEFINE p == at(id)
             some == shown \cap (1 .. p)
  <2>1. p \in shown /\ p \in 1 .. n
    BY <1>1, <1>2
  <2>2. Rank(shown, 0) < Rank(shown, p) /\ Rank(shown, p) \in Nat
    BY <1>1, <1>4, <2>1
  <2>3. some \in SUBSET shown /\ Rank(shown, p) = Cardinality(some)
    BY DEF Rank
  <2>4. Cardinality(some) <= Cardinality(shown)
    <3> HIDE DEF some
    <3> QED BY <1>4, <2>3, FS_Subset
  <2> QED BY <1>3, <1>4, <1>5, <2>2, <2>3, <2>4
<1>7. ASSUME NEW k \in 1 .. Cardinality(cited) PROVE \E id \in cited : numbers[id] = k
  <2>1. PICK q \in shown : Rank(shown, q) = k
    BY <1>1, <1>2, <1>5, RanksReach
  <2>2. s[q] \in cited /\ numbers[s[q]] = k
    BY <1>2, <1>3, <2>1
  <2> QED BY <2>2
<1>8. {numbers[id] : id \in cited} = 1 .. Cardinality(cited)
  BY <1>6, <1>7
<1> QED BY <1>8 DEF numbers, cited, s

-----------------------------------------------------------------------------
(* The files of an export. *)

LEMMA Flattened ==
    ASSUME NEW S, NEW parts \in Seq(Seq(S))
    PROVE  /\ FlattenSeq(parts) \in Seq(S)
           /\ \A k \in 1 .. Len(parts) : Range(parts[k]) \subseteq Range(FlattenSeq(parts))
<1> DEFINE n == Len(parts)
           D == Seq(S)
           F == [k \in 1 .. n |-> [d \in D |-> d \o parts[k]]]
           G == [k \in 0 .. n |-> D]
           Next(k, o) == IF k = 1 THEN parts[k] ELSE o[k - 1] \o parts[k]
           flatten[k \in 1 .. n] == IF k = 1 THEN parts[k] ELSE flatten[k - 1] \o parts[k]
<1>1. n \in Nat /\ \A k \in 1 .. n : parts[k] \in D
  <2>1. parts \in Seq(D)
    OBVIOUS
  <2> HIDE DEF D
  <2> QED BY <2>1
<1>2. FlattenSeq(parts) = IF n = 0 THEN parts ELSE flatten[n]
  BY DEF FlattenSeq
<1>3. CASE n = 0
  <2>1. parts = << >>
    BY <1>3
  <2> QED BY <1>2, <1>3, <2>1
<1>4. CASE n # 0
  <2> HIDE DEF n
  <2>1. << >> \in G[0] /\ \A k \in 1 .. n : \A d \in G[k - 1] : F[k][d] \in G[k]
    <3>1. << >> \in G[0]
      BY <1>1
    <3>2. ASSUME NEW k \in 1 .. n, NEW d \in G[k - 1] PROVE F[k][d] \in G[k]
      <4>1. k - 1 \in 0 .. n /\ k \in 0 .. n
        BY <1>1
      <4>2. d \in D
        BY <4>1
      <4>3. d \o parts[k] \in D
        BY <1>1, <4>2
      <4> HIDE DEF D
      <4> QED BY <4>1, <4>2, <4>3
    <3> QED BY <3>1, <3>2
  <2>2. PICK f : Iterated(n, << >>, F, f) /\ \A k \in 0 .. n : f[k] \in G[k]
    <3> HIDE DEF F, G
    <3> QED BY <1>1, <2>1, Iterates
  <2>3. f[0] = << >> /\ \A k \in 1 .. n : f[k] = F[k][f[k - 1]]
    <3> HIDE DEF F, G
    <3> QED BY <2>2, Zenon DEF Iterated
  <2>4. \A k \in 0 .. n : f[k] \in D
    <3> HIDE DEF D
    <3> QED BY <2>2
  <2> DEFINE h == [k \in 1 .. n |-> f[k]]
  <2>5. ASSUME NEW k \in 1 .. n PROVE h[k] = Next(k, h)
    <3>1. k - 1 \in 0 .. n /\ h[k] = f[k]
      BY <1>1
    <3>2. f[k] = F[k][f[k - 1]] /\ f[k - 1] \in D
      <4> HIDE DEF F, D, h
      <4> QED BY <2>3, <2>4, <3>1, Zenon
    <3>3. F[k][f[k - 1]] = f[k - 1] \o parts[k]
      <4> HIDE DEF D, h
      <4> QED BY <3>1, <3>2, Zenon
    <3>4. CASE k = 1
      <4>1. << >> \o parts[k] = parts[k]
        <5> DEFINE s == parts[k]
        <5>1. s \in Seq(S)
          BY <1>1
        <5> HIDE DEF s
        <5> QED BY <5>1 DEF s
      <4>2. f[k - 1] = << >>
        BY <2>3, <3>4
      <4> QED BY <3>1, <3>2, <3>3, <3>4, <4>1, <4>2
    <3>5. CASE k # 1
      <4>1. k - 1 \in 1 .. n
        BY <1>1, <3>5
      <4> HIDE DEF F
      <4> QED BY <3>1, <3>2, <3>3, <3>5, <4>1
    <3> QED BY <3>4, <3>5
  <2>6. h = [k \in 1 .. n |-> Next(k, h)]
    <3>1. h = [k \in 1 .. n |-> h[k]]
      OBVIOUS
    <3> HIDE DEF Next, h
    <3> QED BY <2>5, <3>1
  <2>7. flatten = [k \in 1 .. n |-> Next(k, flatten)]
    <3> HIDE DEF h
    <3>1. h = [k \in 1 .. n |-> IF k = 1 THEN parts[k] ELSE h[k - 1] \o parts[k]]
      BY <2>6, Zenon
    <3>2. flatten = [k \in 1 .. n |-> IF k = 1 THEN parts[k] ELSE flatten[k - 1] \o parts[k]]
      BY <3>1, Zenon
    <3> HIDE DEF flatten
    <3> QED BY <3>2, Zenon
  <2> HIDE DEF flatten
  <2> DEFINE Good(k) == flatten[k] \in D /\ \A i \in 1 .. k : Range(parts[i]) \subseteq Range(flatten[k])
             T == {k \in 0 .. n : k = 0 \/ Good(k)}
  <2>8. \A k \in 1 .. n : flatten[k] = Next(k, flatten)
    <3> HIDE DEF Next
    <3> QED BY <2>7, Zenon
  <2>9. ASSUME NEW k \in 1 .. n, k - 1 \in T PROVE k \in T
    <3>1. CASE k = 1
      <4>1. flatten[k] = parts[k] /\ \A i \in 1 .. k : i = k
        BY <2>8, <3>1
      <4>2. flatten[k] \in D /\ k \in 0 .. n
        BY <1>1, <4>1
      <4>3. \A i \in 1 .. k : Range(parts[i]) \subseteq Range(flatten[k])
        BY <4>1
      <4> QED BY <4>2, <4>3
    <3>2. CASE k # 1
      <4> DEFINE prev == flatten[k - 1]
                 part == parts[k]
      <4>1. Good(k - 1)
        BY <2>9, <3>2
      <4>2. flatten[k] = prev \o part
        BY <2>8, <3>2
      <4>3. prev \in Seq(S) /\ part \in Seq(S)
        BY <1>1, <4>1
      <4> HIDE DEF prev, part
      <4>4. flatten[k] \in D /\ Range(flatten[k]) = Range(prev) \cup Range(part)
        BY <4>2, <4>3, JoinedRange
      <4>5. \A i \in 1 .. k : i = k \/ i \in 1 .. (k - 1)
        OBVIOUS
      <4> HIDE DEF D
      <4>6. Good(k)
        BY <4>1, <4>4, <4>5 DEF prev, part
      <4> HIDE DEF Good
      <4>7. k \in 0 .. n
        BY <1>1
      <4> QED BY <4>6, <4>7
    <3> QED BY <3>1, <3>2
  <2>10. \A k \in 0 .. n : k \in T
    <3>1. 0 \in T
      BY <1>1
    <3> HIDE DEF T
    <3> QED BY <1>1, <2>9, <3>1, Counted
  <2>11. Good(n)
    <3> HIDE DEF Good
    <3> QED BY <1>1, <1>4, <2>10
  <2> QED BY <1>2, <1>4, <2>11 DEF n
<1> QED BY <1>3, <1>4

(* A bibliography that is built has a number for every citation and a file *)
(* for every full text.                                                    *)
LEMMA ManifestFiles ==
    ASSUME NEW b, IsSeq(b.entries), BuildManifest(b).ok
    PROVE  LET numbers == NumberBibliography(b)
               files == BuildManifest(b).files
           IN  /\ Numberable(b) /\ files \in Seq(Range(files))
               /\ \A e \in Range(b.entries) :
                    /\ e.id \in Range(b.citations) => HasText(e)
                    /\ HasText(e) => [path |-> FulltextPath(b, numbers, e), contents |-> e.fulltext] \in Range(files)
<1> DEFINE numbers == NumberBibliography(b)
           missing == {e \in Range(b.entries) : e.id \in Range(b.citations) /\ ~HasText(e)}
           ris == ExportRis(b.entries, LAMBDA id : Digits(numbers[id]))
           file(e) == [path |-> FulltextPath(b, numbers, e), contents |-> e.fulltext]
           attached(e) == IF e.fulltext = None THEN <<>> ELSE <<file(e)>>
           head == [path |-> RisPath(b), contents |-> ris.lines]
           parts == [k \in 1 .. Len(b.entries) |-> attached(b.entries[k])]
           made == [ok |-> TRUE, files |-> <<head>> \o FlattenSeq(parts)]
<1>1. BuildManifest(b) = IF ~Numberable(b) \/ missing # {} \/ ~ris.ok THEN [ok |-> FALSE] ELSE made
  BY DEF BuildManifest
<1> HIDE DEF numbers, ris, file, head
<1>2. Numberable(b) /\ missing = {} /\ BuildManifest(b) = made
  <2> HIDE DEF missing, made
  <2> QED BY <1>1
<1> DEFINE S == {head} \cup {file(b.entries[k]) : k \in DOMAIN b.entries}
<1>3. Len(b.entries) \in Nat /\ DOMAIN b.entries = 1 .. Len(b.entries)
  BY DEF IsSeq
<1>4. /\ parts \in Seq(Seq(S)) /\ Len(parts) = Len(b.entries)
      /\ \A k \in 1 .. Len(b.entries) : parts[k] = attached(b.entries[k])
  <2>1. ASSUME NEW k \in 1 .. Len(b.entries) PROVE attached(b.entries[k]) \in Seq(S)
    <3>1. file(b.entries[k]) \in S
      BY <1>3
    <3> DEFINE x == file(b.entries[k])
    <3> HIDE DEF S, x
    <3>2. <<x>> \in Seq(S) /\ << >> \in Seq(S)
      BY <3>1 DEF x
    <3> QED BY <3>2 DEF x
  <2> DEFINE D == Seq(S)
  <2>2. \A k \in 1 .. Len(b.entries) : attached(b.entries[k]) \in D
    BY <2>1
  <2> HIDE DEF D, attached
  <2>3. parts \in Seq(D) /\ Len(parts) = Len(b.entries)
    BY <1>3, <2>2
  <2>4. \A k \in 1 .. Len(b.entries) : parts[k] = attached(b.entries[k])
    OBVIOUS
  <2> HIDE DEF parts
  <2> QED BY <2>3, <2>4 DEF D
<1> HIDE DEF parts
<1>5. /\ FlattenSeq(parts) \in Seq(S)
      /\ \A k \in 1 .. Len(parts) : Range(parts[k]) \subseteq Range(FlattenSeq(parts))
  <2> HIDE DEF S
  <2> QED BY <1>4, Flattened
<1> DEFINE flat == FlattenSeq(parts)
           files == <<head>> \o flat
<1>6. files \in Seq(S) /\ Range(flat) \subseteq Range(files)
  <2> DEFINE first == <<head>>
  <2>1. first \in Seq(S) /\ files = first \o flat
    OBVIOUS
  <2>2. flat \in Seq(S)
    BY <1>5
  <2> HIDE DEF S, flat, first, files
  <2> QED BY <2>1, <2>2, JoinedRange
<1>7. made.files = files
  OBVIOUS
<1> HIDE DEF files
<1>8. files \in Seq(Range(files))
  <2> HIDE DEF S
  <2> QED BY <1>6 DEF Range
<1>9. ASSUME NEW e \in Range(b.entries), HasText(e) PROVE file(e) \in Range(files)
  <2>1. PICK k \in DOMAIN b.entries : e = b.entries[k]
    BY DEF Range
  <2>2. parts[k] = <<file(e)>> /\ k \in 1 .. Len(parts)
    BY <1>3, <1>4, <1>9, <2>1 DEF HasText
  <2>3. file(e) \in Range(parts[k])
    BY <2>2 DEF Range
  <2> QED BY <1>5, <1>6, <2>2, <2>3
<1>10. ASSUME NEW e \in Range(b.entries), e.id \in Range(b.citations) PROVE HasText(e)
  BY <1>2, <1>10
<1> QED BY <1>2, <1>7, <1>8, <1>9, <1>10 DEF file, numbers

(* An archive that is not refused holds the files of every bibliography. *)
LEMMA ArchiveFiles ==
    ASSUME NEW input, IsSeq(input.documents), IsSeq(input.bibliographies),
           \A k \in DOMAIN input.bibliographies : IsSeq(input.bibliographies[k].entries),
           BuildArchive(input).error = "none"
    PROVE  \A k \in DOMAIN input.bibliographies :
             LET made == BuildManifest(input.bibliographies[k])
             IN  made.ok /\ Range(made.files) \subseteq Range(BuildArchive(input).files)
<1> DEFINE n == Len(input.bibliographies)
           built == [k \in 1 .. n |-> BuildManifest(input.bibliographies[k])]
           pdf == [path |-> <<PdfFilename(input.date, input.name)>>, contents |-> input.pdf]
           source(k) == [path |-> <<<<"documents">>>> \o input.documents[k].path,
                         contents |-> input.documents[k].source]
           sources == [k \in 1 .. Len(input.documents) |-> source(k)]
           bad == {k \in DOMAIN built : ~built[k].ok \/ ExportErrors(input.bibliographies[k], built[k].files) # {}}
           first == CHOOSE k \in bad : \A j \in bad : k <= j
           parts == [k \in 1 .. Len(built) |-> built[k].files]
           files == <<pdf>> \o sources \o FlattenSeq(parts)
           refused == [error |-> IF built[first].ok THEN "validation" ELSE "reference"]
<1>1. n \in Nat /\ DOMAIN input.bibliographies = 1 .. n /\ Len(input.documents) \in Nat
  BY DEF IsSeq
<1>2. DOMAIN built = 1 .. n /\ Len(built) = n /\ \A k \in 1 .. n : built[k] = BuildManifest(input.bibliographies[k])
  BY <1>1
<1>3. AddBibliographies(input, built) = IF bad # {} THEN refused ELSE FinishArchive(files)
  BY DEF AddBibliographies
<1>4. BuildArchive(input) = AddBibliographies(input, built)
  <2> DEFINE path == [error |-> "path"]
             noPdf == [error |-> "pdf"]
             outcome == AddBibliographies(input, built)
             badPath == \E k \in DOMAIN input.documents : ~SafePath(input.documents[k].path)
  <2>1. BuildArchive(input) = IF badPath THEN path ELSE IF input.pdf # <<"%PDF-">> THEN noPdf ELSE outcome
    BY DEF BuildArchive
  <2>2. path.error # "none" /\ noPdf.error # "none"
    OBVIOUS
  <2> HIDE DEF path, noPdf, outcome, badPath
  <2> QED BY <2>1, <2>2 DEF outcome
<1>5. bad = {} /\ BuildArchive(input) = FinishArchive(files)
  <2>1. refused.error # "none"
    OBVIOUS
  <2> DEFINE finished == FinishArchive(files)
             outcome == AddBibliographies(input, built)
  <2>2. outcome = IF bad # {} THEN refused ELSE finished
    BY <1>3, Zenon
  <2>3. outcome.error = "none" /\ BuildArchive(input) = outcome
    BY <1>4
  <2> HIDE DEF bad, refused, finished, outcome
  <2>4. outcome = finished /\ bad = {}
    BY ONLY <2>1, <2>2, <2>3
  <2> QED BY <2>3, <2>4, Zenon DEF finished
<1>6. BuildArchive(input).files = files
  <2> DEFINE twice == [error |-> "duplicate"]
             once == [error |-> "none", files |-> files]
  <2>1. twice.error # "none" /\ once.files = files
    <3> HIDE DEF files
    <3> QED OBVIOUS
  <2>2. FinishArchive(files) = twice \/ FinishArchive(files) = once
    BY Zenon DEF FinishArchive
  <2>3. FinishArchive(files).error = "none"
    BY <1>5
  <2> HIDE DEF twice, once, files
  <2>4. FinishArchive(files) = once
    BY ONLY <2>1, <2>2, <2>3
  <2> QED BY <1>5, <2>1, <2>4, Zenon
<1>7. \A k \in 1 .. n : built[k].ok
  <2>1. \A k \in DOMAIN built : built[k].ok
    BY <1>5
  <2> HIDE DEF built
  <2> QED BY <1>2, <2>1
<1> HIDE DEF built
<1>8. \A k \in 1 .. n : built[k].files \in Seq(Range(built[k].files))
  <2> SUFFICES ASSUME NEW k \in 1 .. n PROVE built[k].files \in Seq(Range(built[k].files))
    OBVIOUS
  <2> DEFINE b == input.bibliographies[k]
  <2>1. IsSeq(b.entries) /\ BuildManifest(b).ok /\ built[k] = BuildManifest(b)
    BY <1>1, <1>2, <1>7
  <2> HIDE DEF b
  <2> QED BY <2>1, ManifestFiles
<1> DEFINE S == {pdf} \cup {source(k) : k \in 1 .. Len(input.documents)} \cup UNION {Range(built[k].files) : k \in 1 .. n}
<1>9. <<pdf>> \in Seq(S) /\ sources \in Seq(S)
  <2>1. pdf \in S /\ \A k \in 1 .. Len(input.documents) : source(k) \in S
    OBVIOUS
  <2> HIDE DEF S, pdf, source
  <2> QED BY <1>1, <2>1
<1>10. parts \in Seq(Seq(S)) /\ Len(parts) = n /\ \A k \in 1 .. n : parts[k] = built[k].files
  <2> DEFINE D == Seq(S)
  <2>1. ASSUME NEW k \in 1 .. n PROVE built[k].files \in D
    <3> DEFINE R == Range(built[k].files)
               s == built[k].files
    <3>1. R \subseteq S /\ s \in Seq(R)
      BY <1>8
    <3> HIDE DEF R, S, s
    <3>2. s \in Seq(S)
      BY <3>1
    <3> QED BY <3>2 DEF s
  <2> HIDE DEF D, n
  <2>2. parts = [k \in 1 .. n |-> built[k].files]
    BY <1>2
  <2>3. parts \in Seq(D) /\ Len(parts) = n /\ \A k \in 1 .. n : parts[k] = built[k].files
    <3> HIDE DEF parts
    <3> QED BY <1>1, <2>1, <2>2
  <2> HIDE DEF parts
  <2> QED BY <2>3 DEF D
<1> DEFINE flat == FlattenSeq(parts)
           front == <<pdf>> \o sources
<1>11. flat \in Seq(S) /\ \A k \in 1 .. n : Range(parts[k]) \subseteq Range(flat)
  <2> HIDE DEF S, parts
  <2> QED BY <1>10, Flattened
<1>12. files = front \o flat
  OBVIOUS
<1>13. Range(flat) \subseteq Range(files)
  <2>1. front \in Seq(S)
    <3> HIDE DEF S, pdf, sources
    <3> QED BY <1>9
  <2> HIDE DEF S, front, flat, files
  <2> QED BY <1>11, <1>12, <2>1, JoinedRange
<1> HIDE DEF files, flat, parts
<1>14. ASSUME NEW k \in 1 .. n
       PROVE  LET made == BuildManifest(input.bibliographies[k])
              IN  made.ok /\ Range(made.files) \subseteq Range(BuildArchive(input).files)
  <2> DEFINE made == BuildManifest(input.bibliographies[k])
  <2>1. made = built[k] /\ parts[k] = made.files
    BY <1>2, <1>10
  <2>2. Range(made.files) \subseteq Range(files) /\ made.ok
    BY <1>7, <1>11, <1>13, <2>1
  <2> QED BY <1>6, <2>2
<1> HIDE DEF n
<1> QED BY <1>1, <1>14

(* The archive of an export that is not refused has, for every bibliography,    *)
(* numbers in the order of the first citations, the numbers 1, 2, and so on if  *)
(* no id is there twice, and the full text of every cited reference under its   *)
(* number (number_bibliography, ExportManifest::build, build_project_archive).  *)
THEOREM CitedTextsAreExported == LibrarySpec => []CitedTextsExported
<1>1. LibraryInv => CitedTextsExported
  <2> SUFFICES ASSUME LibraryInv, answer.op = "archive", answer.archive.error = "none",
                      NEW k \in DOMAIN request.input.bibliographies
               PROVE  LET b == request.input.bibliographies[k]
                          numbers == NumberBibliography(b)
                          cited == Range(b.citations)
                      IN  /\ IdsDiffer(b) => {numbers[id] : id \in cited} = 1 .. Cardinality(cited)
                          /\ \A x, y \in cited : numbers[x] < numbers[y] => FirstCited(b, x) < FirstCited(b, y)
                          /\ \A e \in Range(b.entries) : e.id \in cited =>
                               \E f \in Range(answer.archive.files) :
                                 f.contents = e.fulltext /\ HasText(e) /\ f.path = FulltextPath(b, numbers, e)
    BY DEF CitedTextsExported
  <2> DEFINE input == request.input
             b == input.bibliographies[k]
             numbers == NumberBibliography(b)
             made == BuildManifest(b)
  <2>1. answer.archive = BuildArchive(input) /\ BuildArchive(input).error = "none"
    BY DEF LibraryInv
  <2>2. /\ IsSeq(input.documents) /\ IsSeq(input.bibliographies)
        /\ \A j \in DOMAIN input.bibliographies :
             IsSeq(input.bibliographies[j].entries) /\ IsSeq(input.bibliographies[j].citations)
    BY LibraryAssumption DEF LibraryInv
  <2> HIDE DEF input
  <2>3. made.ok /\ Range(made.files) \subseteq Range(answer.archive.files)
    BY <2>1, <2>2, ArchiveFiles DEF input
  <2>4. IsSeq(b.entries) /\ IsSeq(b.citations)
    BY <2>2 DEF input
  <2> HIDE DEF b
  <2>5. /\ Numberable(b)
        /\ \A e \in Range(b.entries) :
             /\ e.id \in Range(b.citations) => HasText(e)
             /\ HasText(e) => [path |-> FulltextPath(b, numbers, e), contents |-> e.fulltext] \in Range(made.files)
    BY <2>3, <2>4, ManifestFiles
  <2>6. /\ IdsDiffer(b) => {numbers[id] : id \in Range(b.citations)} = 1 .. Cardinality(Range(b.citations))
        /\ \A x, y \in Range(b.citations) : numbers[x] < numbers[y] => FirstCited(b, x) < FirstCited(b, y)
    <3>1. IdsDiffer(b) => {numbers[id] : id \in Range(b.citations)} = 1 .. Cardinality(Range(b.citations))
      BY <2>4, <2>5, CitedNumbers
    <3>2. \A x, y \in Range(b.citations) : numbers[x] < numbers[y] => FirstCited(b, x) < FirstCited(b, y)
      BY <2>4, <2>5, NumbersRise
    <3> QED BY <3>1, <3>2
  <2> HIDE DEF numbers, made
  <2>7. ASSUME NEW e \in Range(b.entries), e.id \in Range(b.citations)
        PROVE  \E f \in Range(answer.archive.files) :
                 f.contents = e.fulltext /\ HasText(e) /\ f.path = FulltextPath(b, numbers, e)
    <3> DEFINE f == [path |-> FulltextPath(b, numbers, e), contents |-> e.fulltext]
    <3>1. HasText(e) /\ f \in Range(answer.archive.files)
      BY <2>3, <2>5, <2>7
    <3>2. f.contents = e.fulltext /\ f.path = FulltextPath(b, numbers, e)
      OBVIOUS
    <3> QED BY <3>1, <3>2
  <2> QED BY <2>6, <2>7 DEF b, numbers, input
<1> QED BY <1>1, LibraryInvariant, PTL

-----------------------------------------------------------------------------
(* The nesting of a text. *)

Delimiters == Opening \cup {"$"}

Stacks == Seq(Delimiters)

(* A second "$" closes the first. *)
Alternates(S) == \A i \in 1 .. Len(S) - 1 : ~(S[i] = "$" /\ S[i + 1] = "$")

LEMMA BrokenIsNoStack == Broken \notin Stacks
<1> SUFFICES ASSUME Broken \in Stacks PROVE FALSE
  OBVIOUS
<1>1. Broken[1] = "error" /\ Len(Broken) = 1
  BY DEF Broken
<1>2. Broken[1] \in Delimiters
  <2> DEFINE s == Broken
  <2>1. s \in Seq(Delimiters) /\ 1 \in 1 .. Len(s)
    BY <1>1 DEF Stacks
  <2> HIDE DEF s
  <2>2. s[1] \in Delimiters
    BY <2>1
  <2> QED BY <2>2 DEF s
<1> QED BY <1>1, <1>2 DEF Delimiters, Opening

(* What is under the top of a stack. *)
LEMMA TopOff ==
    ASSUME NEW S \in Stacks, S # <<>>
    PROVE  /\ Len(S) \in Nat \ {0} /\ Last(S) = S[Len(S)] /\ Last(S) \in Delimiters
           /\ Front(S) \in Stacks /\ Len(Front(S)) = Len(S) - 1
           /\ \A i \in 1 .. Len(S) - 1 : Front(S)[i] = S[i]
<1>1. S \in Seq(Delimiters) /\ Len(S) \in Nat \ {0}
  <2>1. S \in Seq(Delimiters)
    BY DEF Stacks
  <2> QED BY <2>1, EmptySeq
<1>2. Last(S) = S[Len(S)] /\ Front(S) = SubSeq(S, 1, Len(S) - 1)
  BY DEF Front, Last
<1>3. S[Len(S)] \in Delimiters
  BY <1>1
<1>4. /\ SubSeq(S, 1, Len(S) - 1) \in Seq(Delimiters) /\ Len(SubSeq(S, 1, Len(S) - 1)) = Len(S) - 1
      /\ \A i \in 1 .. Len(S) - 1 : SubSeq(S, 1, Len(S) - 1)[i] = S[i]
  <2>1. 1 \in Int /\ Len(S) - 1 \in Int /\ \A i \in 1 .. Len(S) - 1 : S[i] \in Delimiters
    BY <1>1
  <2> DEFINE m == Len(S) - 1
             s == SubSeq(S, 1, m)
  <2>2. s \in Seq(Delimiters) /\ Len(s) = (IF 1 <= m THEN m - 1 + 1 ELSE 0)
        /\ \A i \in 1 .. m - 1 + 1 : s[i] = S[1 + i - 1]
    <3> HIDE DEF m
    <3> QED BY <2>1, SubSeqProperties DEF m
  <2>3. m \in Nat
    BY <1>1
  <2>4. Len(s) = m /\ \A i \in 1 .. m : s[i] = S[i]
    <3>1. \A i \in 1 .. m : i \in 1 .. m - 1 + 1 /\ 1 + i - 1 = i
      BY <2>3
    <3> HIDE DEF s, m
    <3> QED BY <2>2, <2>3, <3>1
  <2> QED BY <2>2, <2>4
<1> QED BY <1>1, <1>2, <1>3, <1>4 DEF Stacks

LEMMA StackStep ==
    ASSUME NEW S \in Stacks, NEW c, Alternates(S)
    PROVE  \/ NestStep(S, c) = Broken
           \/ NestStep(S, c) \in Stacks /\ Alternates(NestStep(S, c))
<1>1. S # Broken
  BY BrokenIsNoStack
<1>2. ASSUME NEW x \in Delimiters, x # "$" \/ S = <<>> \/ Last(S) # "$"
      PROVE  Append(S, x) \in Stacks /\ Alternates(Append(S, x))
  <2>1. Append(S, x) \in Stacks /\ Len(Append(S, x)) = Len(S) + 1 /\ Len(S) \in Nat
        /\ \A i \in 1 .. Len(S) : Append(S, x)[i] = S[i]
    <3>1. S \in Seq(Delimiters)
      BY DEF Stacks
    <3> QED BY <3>1 DEF Stacks
  <2>2. Append(S, x)[Len(S) + 1] = x
    BY DEF Stacks
  <2>3. S = <<>> \/ Last(S) = S[Len(S)]
    BY DEF Last
  <2>4. ASSUME NEW i \in 1 .. Len(S), Append(S, x)[i] = "$", Append(S, x)[i + 1] = "$" PROVE FALSE
    <3>1. CASE i = Len(S)
      BY <1>2, <2>1, <2>2, <2>3, <2>4, <3>1
    <3>2. CASE i # Len(S)
      <4>1. i \in 1 .. Len(S) - 1 /\ i + 1 \in 1 .. Len(S)
        BY <2>1, <3>2
      <4> QED BY <2>1, <2>4, <4>1 DEF Alternates
    <3> QED BY <3>1, <3>2
  <2> QED BY <2>1, <2>4 DEF Alternates
<1>3. ASSUME S # <<>> PROVE Front(S) \in Stacks /\ Alternates(Front(S))
  <2>1. /\ Len(S) \in Nat \ {0} /\ Front(S) \in Stacks /\ Len(Front(S)) = Len(S) - 1
        /\ \A i \in 1 .. Len(S) - 1 : Front(S)[i] = S[i]
    BY <1>3, TopOff
  <2>2. \A i \in 1 .. Len(S) - 1 - 1 : i \in 1 .. Len(S) - 1 /\ i + 1 \in 1 .. Len(S) - 1
    BY <2>1
  <2> QED BY <2>1, <2>2 DEF Alternates
<1>4. S \in Stacks /\ Alternates(S)
  OBVIOUS
<1>5. CASE c \in Opening
  <2>1. NestStep(S, c) = Append(S, c)
    BY <1>1, <1>5 DEF NestStep
  <2> QED BY <1>2, <1>5, <2>1 DEF Delimiters, Opening
<1>6. CASE c \notin Opening /\ c \in DOMAIN Closes
  <2>1. NestStep(S, c) = IF S # <<>> /\ Last(S) = Closes[c] THEN Front(S) ELSE Broken
    BY <1>1, <1>6 DEF NestStep
  <2> QED BY <1>3, <2>1
<1>7. CASE c \notin Opening /\ c \notin DOMAIN Closes
  <2>1. NestStep(S, c) = IF c # "$" THEN S
                         ELSE IF S # <<>> /\ Last(S) = "$" THEN Front(S) ELSE Append(S, "$")
    BY <1>1, <1>7 DEF NestStep
  <2>2. "$" \in Delimiters
    BY DEF Delimiters
  <2> QED BY <1>2, <1>3, <1>4, <2>1, <2>2
<1> QED BY <1>5, <1>6, <1>7

(* A stack as it can be when a text is read. *)
IsNesting(x) == x = Broken \/ (x \in Stacks /\ Alternates(x))

(* The stacks while a text is read. *)
LEMMA NestingSteps ==
    ASSUME NEW t, Len(t) \in Nat, NEW x, IsNesting(x)
    PROVE  LET N == Nesting(x, t)
           IN  /\ N[0] = x /\ \A i \in 0 .. Len(t) : IsNesting(N[i])
               /\ \A i \in 1 .. Len(t) : N[i] = NestStep(N[i - 1], t[i])
<1> DEFINE n == Len(t)
           D == {y \in Stacks \cup {Broken} : IsNesting(y)}
           F == [k \in 1 .. n |-> [d \in D |-> NestStep(d, t[k])]]
           G == [k \in 0 .. n |-> D]
           Next(k, o) == IF k = 0 THEN x ELSE NestStep(o[k - 1], t[k])
           stack[i \in 0 .. n] == IF i = 0 THEN x ELSE NestStep(stack[i - 1], t[i])
<1>1. Nesting(x, t) = stack
  BY DEF Nesting
<1>2. n \in Nat
  OBVIOUS
<1> HIDE DEF n
<1>3. x \in D /\ \A d \in D : \A c : NestStep(d, c) \in D
  <2>1. x \in D
    BY DEF IsNesting
  <2>2. ASSUME NEW d \in D, NEW c PROVE NestStep(d, c) \in D
    <3>1. CASE d = Broken
      <4>1. NestStep(d, c) = Broken
        BY <3>1 DEF NestStep
      <4> QED BY <4>1 DEF IsNesting
    <3>2. CASE d # Broken
      <4>1. d \in Stacks /\ Alternates(d)
        BY <3>2 DEF IsNesting
      <4> QED BY <4>1, StackStep DEF IsNesting
    <3> QED BY <3>1, <3>2
  <2> QED BY <2>1, <2>2
<1>4. \A d \in D : IsNesting(d)
  OBVIOUS
<1> HIDE DEF D
<1>5. x \in G[0] /\ \A k \in 1 .. n : \A d \in G[k - 1] : F[k][d] \in G[k]
  <2>1. x \in G[0]
    BY <1>2, <1>3
  <2>2. ASSUME NEW k \in 1 .. n, NEW d \in G[k - 1] PROVE F[k][d] \in G[k]
    <3>1. k - 1 \in 0 .. n /\ k \in 0 .. n
      BY <1>2
    <3>2. d \in D
      BY <3>1
    <3> QED BY <1>3, <3>1, <3>2
  <2> QED BY <2>1, <2>2
<1>6. PICK f : Iterated(n, x, F, f) /\ \A k \in 0 .. n : f[k] \in G[k]
  <2> HIDE DEF F, G
  <2> QED BY <1>2, <1>5, Iterates
<1>7. f = [k \in 0 .. n |-> f[k]] /\ f[0] = x /\ \A k \in 1 .. n : f[k] = F[k][f[k - 1]]
  <2> HIDE DEF F, G
  <2> QED BY <1>6, Zenon DEF Iterated
<1>8. \A k \in 0 .. n : f[k] \in D
  BY <1>6
<1>9. ASSUME NEW k \in 0 .. n PROVE f[k] = Next(k, f)
  <2>1. CASE k = 0
    BY <1>7, <2>1, Zenon
  <2>2. CASE k # 0
    <3>1. k \in 1 .. n /\ k - 1 \in 0 .. n
      BY <1>2, <2>2
    <3>2. f[k] = F[k][f[k - 1]] /\ f[k - 1] \in D
      <4> HIDE DEF F
      <4> QED BY <1>7, <1>8, <3>1, Zenon
    <3>3. F[k][f[k - 1]] = NestStep(f[k - 1], t[k])
      BY <3>1, <3>2, Zenon
    <3> QED BY <2>2, <3>2, <3>3, Zenon
  <2> QED BY <2>1, <2>2
<1>10. f = [k \in 0 .. n |-> Next(k, f)]
  <2> HIDE DEF Next
  <2> QED BY <1>7, <1>9
<1>11. stack = [k \in 0 .. n |-> Next(k, stack)]
  <2>1. f = [k \in 0 .. n |-> IF k = 0 THEN x ELSE NestStep(f[k - 1], t[k])]
    BY <1>10, Zenon
  <2>2. stack = [k \in 0 .. n |-> IF k = 0 THEN x ELSE NestStep(stack[k - 1], t[k])]
    BY <2>1, Zenon
  <2> HIDE DEF stack
  <2> QED BY <2>2, Zenon
<1> HIDE DEF stack
<1> DEFINE T == {k \in 0 .. n : stack[k] \in D}
<1>12. \A k \in 0 .. n : stack[k] = Next(k, stack)
  <2> HIDE DEF Next
  <2> QED BY <1>11, Zenon
<1>13. stack[0] = x /\ 0 \in T
  <2>1. 0 \in 0 .. n
    BY <1>2
  <2> QED BY <1>3, <1>12, <2>1
<1>14. \A k \in 1 .. n : stack[k] = NestStep(stack[k - 1], t[k])
  <2> TAKE k \in 1 .. n
  <2>1. k \in 0 .. n /\ k # 0
    BY <1>2
  <2> QED BY <1>12, <2>1
<1>15. ASSUME NEW k \in 1 .. n, k - 1 \in T PROVE k \in T
  <2>1. k \in 0 .. n /\ stack[k - 1] \in D
    BY <1>2, <1>15
  <2> QED BY <1>3, <1>14, <2>1
<1>16. \A k \in 0 .. n : k \in T
  <2> HIDE DEF T
  <2> QED BY <1>2, <1>13, <1>15, Counted
<1>17. \A k \in 0 .. n : IsNesting(stack[k])
  BY <1>4, <1>16
<1> QED BY <1>1, <1>13, <1>14, <1>17 DEF n

(* The text u is a part of t, after its first s characters. *)
PartOf(u, t, s) ==
    /\ Len(t) \in Nat /\ Len(u) \in Nat /\ s \in Nat /\ s + Len(u) <= Len(t)
    /\ \A i \in 1 .. Len(u) : u[i] = t[s + i]

(* A part of a text is read as it is in the text. *)
LEMMA NestAligned ==
    ASSUME NEW t, NEW u, NEW s, PartOf(u, t, s), NEW x, IsNesting(x)
    PROVE  Nest(Nesting(x, t)[s], u) = Nesting(x, t)[s + Len(u)]
<1> DEFINE N == Nesting(x, t)
           y == N[s]
           P == Nesting(y, u)
           T == {i \in 0 .. Len(u) : P[i] = N[s + i]}
<1>0. /\ Len(t) \in Nat /\ Len(u) \in Nat /\ s \in Nat /\ s + Len(u) <= Len(t)
      /\ \A i \in 1 .. Len(u) : u[i] = t[s + i]
  BY DEF PartOf
<1>1. IsNesting(y) /\ \A i \in 1 .. Len(t) : N[i] = NestStep(N[i - 1], t[i])
  <2>1. s \in 0 .. Len(t)
    BY <1>0
  <2> QED BY <1>0, <2>1, NestingSteps
<1> HIDE DEF N, y
<1>2. P[0] = y /\ \A i \in 1 .. Len(u) : P[i] = NestStep(P[i - 1], u[i])
  BY <1>0, <1>1, NestingSteps
<1> HIDE DEF P
<1>3. 0 \in T
  BY <1>0, <1>2 DEF y
<1>4. ASSUME NEW i \in 1 .. Len(u), i - 1 \in T PROVE i \in T
  <2>1. P[i - 1] = N[s + (i - 1)] /\ P[i] = NestStep(P[i - 1], u[i]) /\ u[i] = t[s + i]
    BY <1>0, <1>2, <1>4
  <2>2. s + i \in 1 .. Len(t) /\ s + (i - 1) = (s + i) - 1
    BY <1>0
  <2>3. N[s + i] = NestStep(N[(s + i) - 1], t[s + i])
    BY <1>1, <2>2
  <2> QED BY <2>1, <2>2, <2>3
<1>5. \A i \in 0 .. Len(u) : i \in T
  <2> HIDE DEF T
  <2> QED BY <1>0, <1>3, <1>4, Counted
<1>6. Len(u) \in T
  BY <1>0, <1>5
<1> QED BY <1>6 DEF P, y, N, Nest

LEMMA NestPart ==
    ASSUME NEW A, NEW t \in Seq(A), NEW s \in Nat, NEW j \in Nat, s <= j, j <= Len(t), NEW x, IsNesting(x)
    PROVE  /\ SubSeq(t, s + 1, j) \in Seq(A)
           /\ Nest(Nesting(x, t)[s], SubSeq(t, s + 1, j)) = Nesting(x, t)[j]
<1> DEFINE u == SubSeq(t, s + 1, j)
           y == Nesting(x, t)[s]
<1>1. u \in Seq(A) /\ Len(u) = j - s /\ \A i \in 1 .. Len(u) : u[i] = t[s + i]
  OBVIOUS
<1> HIDE DEF u
<1>2. PartOf(u, t, s) /\ s + Len(u) = j
  BY <1>1 DEF PartOf
<1>3. Nest(y, u) = Nesting(x, t)[j]
  BY <1>2, NestAligned
<1> QED BY <1>1, <1>3 DEF u

LEMMA NestJoined ==
    ASSUME NEW A, NEW a \in Seq(A), NEW b \in Seq(A), NEW x, IsNesting(x)
    PROVE  IsNesting(Nest(x, a)) /\ Nest(x, a \o b) = Nest(Nest(x, a), b)
<1> DEFINE t == a \o b
           N == Nesting(x, t)
<1>1. /\ t \in Seq(A) /\ Len(t) = Len(a) + Len(b) /\ Len(a) \in Nat /\ Len(b) \in Nat /\ Len(t) \in Nat
      /\ \A i \in 1 .. Len(a) : a[i] = t[0 + i] /\ \A j \in 1 .. Len(b) : b[j] = t[Len(a) + j]
  OBVIOUS
<1>2. \A j \in 1 .. Len(b) : b[j] = t[Len(a) + j]
  OBVIOUS
<1>3. \A i \in 1 .. Len(a) : a[i] = t[0 + i]
  BY <1>1
<1> HIDE DEF t
<1>4. N[0] = x
  BY <1>1, NestingSteps
<1>5. PartOf(a, t, 0) /\ PartOf(b, t, Len(a))
  BY <1>1, <1>2, <1>3 DEF PartOf
<1>6. Nest(N[0], a) = N[0 + Len(a)] /\ Nest(N[Len(a)], b) = N[Len(a) + Len(b)]
  BY <1>5, NestAligned
<1>7. Nest(x, a) = N[Len(a)]
  <2> HIDE DEF N
  <2> QED BY <1>1, <1>4, <1>6
<1>8. IsNesting(Nest(x, a))
  <2>1. Len(a) \in 0 .. Len(a)
    BY <1>1
  <2> QED BY <1>1, <2>1, NestingSteps DEF Nest
<1> HIDE DEF N
<1>9. Nest(x, t) = Nest(Nest(x, a), b)
  BY <1>1, <1>6, <1>7 DEF Nest, N
<1> QED BY <1>8, <1>9 DEF t

(* What is broken stays broken. *)
LEMMA NeverBroken ==
    ASSUME NEW t, Len(t) \in Nat, NEW x, IsNesting(x), Nest(x, t) # Broken
    PROVE  \A i \in 0 .. Len(t) : Nesting(x, t)[i] # Broken
<1> DEFINE n == Len(t)
           N == Nesting(x, t)
           T == {k \in 0 .. n : N[n - k] # Broken}
<1>1. \A i \in 1 .. n : N[i] = NestStep(N[i - 1], t[i])
  BY NestingSteps
<1>2. n \in Nat /\ N[n] # Broken
  BY DEF Nest
<1> HIDE DEF n, N
<1>3. 0 \in T
  BY <1>2
<1>4. ASSUME NEW k \in 1 .. n, k - 1 \in T PROVE k \in T
  <2>1. n - (k - 1) \in 1 .. n /\ N[n - (k - 1)] # Broken /\ (n - (k - 1)) - 1 = n - k /\ k \in 0 .. n
    BY <1>2, <1>4
  <2>2. N[n - (k - 1)] = NestStep(N[n - k], t[n - (k - 1)])
    BY <1>1, <2>1
  <2>3. N[n - k] # Broken
    BY <2>1, <2>2 DEF NestStep
  <2> QED BY <2>1, <2>3
<1>5. \A k \in 0 .. n : k \in T
  <2> HIDE DEF T
  <2> QED BY <1>2, <1>3, <1>4, Counted
<1>6. ASSUME NEW i \in 0 .. n PROVE N[i] # Broken
  <2>1. n - i \in 0 .. n /\ n - (n - i) = i
    BY <1>2
  <2> QED BY <1>5, <2>1
<1> QED BY <1>6 DEF n, N

(* A stack with one "$" more or less on its top. *)
Base(S, b) == IF b = 0 THEN S ELSE NestStep(S, "$")

(* What is open over a stack, of a part of the text that starts there. *)
Above(S, T, b) == Base(S, b) \o T

NextTop(T, c) == IF T = <<>> /\ c = "$" THEN <<>> ELSE NestStep(T, c)
NextBit(T, b, c) == IF T = <<>> /\ c = "$" THEN 1 - b ELSE b

(* A "$" at the bottom would be the bit. *)
Grounded(T) == T \in Stacks /\ (T = <<>> \/ T[1] # "$")

LEMMA Toggles ==
    ASSUME NEW S \in Stacks, Alternates(S)
    PROVE  NestStep(S, "$") \in Stacks /\ NestStep(NestStep(S, "$"), "$") = S
<1>1. \A X \in Stacks : NestStep(X, "$") = IF X # <<>> /\ Last(X) = "$" THEN Front(X) ELSE Append(X, "$")
  <2>1. "$" \notin Opening /\ "$" \notin DOMAIN Closes
    BY DEF Opening, Closes
  <2>2. \A X \in Stacks : X # Broken
    BY BrokenIsNoStack
  <2> QED BY <2>1, <2>2 DEF NestStep
<1>2. S \in Seq(Delimiters) /\ "$" \in Delimiters
  BY DEF Stacks, Delimiters
<1>3. CASE S # <<>> /\ Last(S) = "$"
  <2>1. NestStep(S, "$") = Front(S)
    BY <1>1, <1>3
  <2>2. /\ Len(S) \in Nat \ {0} /\ S[Len(S)] = "$" /\ Front(S) \in Stacks /\ Len(Front(S)) = Len(S) - 1
        /\ \A i \in 1 .. Len(S) - 1 : Front(S)[i] = S[i]
    BY <1>3, TopOff
  <2>3. Front(S) = <<>> \/ Last(Front(S)) # "$"
    <3> SUFFICES ASSUME Front(S) # <<>> PROVE Last(Front(S)) # "$"
      OBVIOUS
    <3>1. Last(Front(S)) = Front(S)[Len(S) - 1] /\ Len(S) - 1 \in Nat \ {0}
      BY <2>2, TopOff
    <3>2. Front(S)[Len(S) - 1] = S[Len(S) - 1] /\ Len(S) - 1 \in 1 .. Len(S) - 1 /\ Len(S) - 1 + 1 = Len(S)
      BY <2>2, <3>1
    <3> QED BY <2>2, <3>1, <3>2 DEF Alternates
  <2>4. NestStep(Front(S), "$") = Append(Front(S), "$")
    BY <1>1, <2>2, <2>3
  <2>5. Append(Front(S), "$") = S
    <3> DEFINE F == Front(S)
    <3>1. F \in Seq(Delimiters) /\ Len(F) = Len(S) - 1 /\ \A i \in 1 .. Len(S) - 1 : F[i] = S[i]
      BY <2>2 DEF Stacks
    <3> HIDE DEF F
    <3>2. Append(F, "$") = S
      BY <1>2, <2>2, <3>1
    <3> QED BY <3>2 DEF F
  <2> QED BY <2>1, <2>2, <2>4, <2>5
<1>4. CASE ~(S # <<>> /\ Last(S) = "$")
  <2> DEFINE A == Append(S, "$")
  <2>1. NestStep(S, "$") = A
    BY <1>1, <1>4
  <2>2. A \in Seq(Delimiters) /\ A # <<>> /\ Len(A) = Len(S) + 1 /\ A[Len(S) + 1] = "$"
        /\ \A i \in 1 .. Len(S) : A[i] = S[i]
    BY <1>2, AppendProperties
  <2> HIDE DEF A
  <2>3. A \in Stacks
    BY <2>2 DEF Stacks
  <2>4. /\ Last(A) = A[Len(A)] /\ Front(A) \in Stacks /\ Len(Front(A)) = Len(A) - 1
        /\ \A i \in 1 .. Len(A) - 1 : Front(A)[i] = A[i]
    BY <2>2, <2>3, TopOff
  <2>5. NestStep(A, "$") = Front(A)
    BY <1>1, <2>2, <2>3, <2>4
  <2>6. Front(A) = S
    <3> DEFINE F == Front(A)
    <3>1. F \in Seq(Delimiters) /\ Len(F) = Len(S) /\ \A i \in 1 .. Len(S) : F[i] = S[i]
      BY <1>2, <2>2, <2>4 DEF Stacks
    <3> HIDE DEF F
    <3>2. F = S
      BY <1>2, <3>1
    <3> QED BY <3>2 DEF F
  <2> QED BY <2>1, <2>3, <2>5, <2>6
<1> QED BY <1>3, <1>4

(* A stack that is not empty is read on as it would be alone. *)
LEMMA StepOver ==
    ASSUME NEW B \in Stacks, NEW T \in Stacks, T # <<>>, NEW c
    PROVE  NestStep(B \o T, c) = IF NestStep(T, c) = Broken THEN Broken ELSE B \o NestStep(T, c)
<1> DEFINE X == B \o T
<1>1. B \in Seq(Delimiters) /\ T \in Seq(Delimiters) /\ Len(B) \in Nat /\ Len(T) \in Nat \ {0}
  BY TopOff DEF Stacks
<1>2. X \in Seq(Delimiters) /\ Len(X) = Len(B) + Len(T) /\ X # <<>>
      /\ \A i \in 1 .. Len(X) : X[i] = IF i <= Len(B) THEN B[i] ELSE T[i - Len(B)]
  BY <1>1
<1> HIDE DEF X
<1>3. X \in Stacks /\ X # Broken /\ T # Broken
  BY <1>2, BrokenIsNoStack DEF Stacks
<1>4. /\ Last(T) = T[Len(T)] /\ Front(T) \in Stacks /\ Len(Front(T)) = Len(T) - 1
      /\ \A i \in 1 .. Len(T) - 1 : Front(T)[i] = T[i]
  BY TopOff
<1>5. /\ Last(X) = X[Len(X)] /\ Front(X) \in Stacks /\ Len(Front(X)) = Len(X) - 1
      /\ \A i \in 1 .. Len(X) - 1 : Front(X)[i] = X[i]
  BY <1>2, <1>3, TopOff
<1>6. Last(X) = Last(T)
  BY <1>1, <1>2, <1>4, <1>5
<1>7. Front(X) = B \o Front(T) /\ Front(T) # Broken
  <2> DEFINE F == Front(X)
             R == Front(T)
  <2>1. F \in Seq(Delimiters) /\ R \in Seq(Delimiters) /\ Len(F) = Len(B) + Len(R)
    BY <1>1, <1>2, <1>4, <1>5 DEF Stacks
  <2>2. \A i \in 1 .. Len(F) : F[i] = IF i <= Len(B) THEN B[i] ELSE R[i - Len(B)]
    <3> TAKE i \in 1 .. Len(F)
    <3>1. i \in 1 .. Len(X) - 1 /\ F[i] = X[i]
      BY <1>1, <1>2, <1>5
    <3>2. CASE i <= Len(B)
      BY <1>2, <3>1, <3>2
    <3>3. CASE ~(i <= Len(B))
      <4>1. i - Len(B) \in 1 .. Len(T) - 1 /\ i \in 1 .. Len(X)
        BY <1>1, <1>2, <3>1, <3>3
      <4> QED BY <1>2, <1>4, <3>1, <3>3, <4>1
    <3> QED BY <3>2, <3>3
  <2> HIDE DEF F, R
  <2>3. F = B \o R
    <3> DEFINE J == B \o R
    <3>1. J \in Seq(Delimiters) /\ Len(J) = Len(F) /\ Len(F) \in Nat
          /\ \A i \in 1 .. Len(F) : J[i] = IF i <= Len(B) THEN B[i] ELSE R[i - Len(B)]
      BY <1>1, <2>1
    <3> HIDE DEF J
    <3> QED BY <2>1, <2>2, <3>1, SeqEqual DEF J
  <2>4. R # Broken
    BY <1>4, BrokenIsNoStack DEF R
  <2> QED BY <2>3, <2>4 DEF F, R
<1>8. \A x \in Delimiters : Append(X, x) = B \o Append(T, x) /\ Append(T, x) # Broken
  <2> TAKE x \in Delimiters
  <2>1. Append(T, x) \in Seq(Delimiters)
    BY <1>1
  <2>2. Append(T, x) # Broken
    BY <2>1, BrokenIsNoStack DEF Stacks
  <2>3. Append(X, x) = B \o Append(T, x)
    BY <1>1 DEF X
  <2> QED BY <2>2, <2>3
<1>9. "$" \in Delimiters /\ Opening \subseteq Delimiters
  BY DEF Delimiters
<1>10. X = B \o T
  BY DEF X
<1> DEFINE P == NestStep(X, c)
           Q == NestStep(T, c)
<1>11. P = IF c \in Opening THEN Append(X, c)
           ELSE IF c \in DOMAIN Closes THEN IF Last(X) = Closes[c] THEN Front(X) ELSE Broken
           ELSE IF c # "$" THEN X
           ELSE IF Last(X) = "$" THEN Front(X) ELSE Append(X, "$")
  BY <1>2, <1>3 DEF NestStep
<1>12. Q = IF c \in Opening THEN Append(T, c)
           ELSE IF c \in DOMAIN Closes THEN IF Last(T) = Closes[c] THEN Front(T) ELSE Broken
           ELSE IF c # "$" THEN T
           ELSE IF Last(T) = "$" THEN Front(T) ELSE Append(T, "$")
  BY <1>3 DEF NestStep
<1> HIDE DEF P, Q
<1>13. P = IF Q = Broken THEN Broken ELSE B \o Q
  BY <1>3, <1>6, <1>7, <1>8, <1>9, <1>10, <1>11, <1>12
<1> QED BY <1>13 DEF P, Q, X

LEMMA Bases ==
    ASSUME NEW S \in Stacks, Alternates(S), NEW b \in {0, 1}
    PROVE  Base(S, b) \in Stacks /\ NestStep(Base(S, b), "$") = Base(S, 1 - b)
<1>1. CASE b = 0
  BY <1>1, Toggles DEF Base
<1>2. CASE b = 1
  BY <1>2, Toggles DEF Base
<1> QED BY <1>1, <1>2

(* The same characters are open over any stack.  What they close must not  *)
(* be below.                                                               *)
LEMMA OverStep ==
    ASSUME NEW S \in Stacks, Alternates(S), NEW T, Grounded(T), NEW b \in {0, 1}, NEW c,
           NextTop(T, c) # Broken
    PROVE  /\ Grounded(NextTop(T, c)) /\ NextBit(T, b, c) \in {0, 1}
           /\ NestStep(Above(S, T, b), c) = Above(S, NextTop(T, c), NextBit(T, b, c))
<1>1. Base(S, b) \in Stacks /\ NestStep(Base(S, b), "$") = Base(S, 1 - b) /\ Base(S, 1 - b) \in Stacks
  BY Bases
<1>2. T \in Stacks /\ \A X \in Stacks : X # Broken /\ X \in Seq(Delimiters)
  BY BrokenIsNoStack DEF Grounded, Stacks
<1>3. <<>> \in Stacks /\ \A X \in Stacks : X \o <<>> = X
  <2>1. <<>> \in Stacks
    BY DEF Stacks
  <2> QED BY <1>2, <2>1, ConcatEmptySeq
<1>4. "$" \notin Opening /\ "$" \notin DOMAIN Closes /\ Opening \subseteq Delimiters /\ "$" \in Delimiters
  BY DEF Opening, Closes, Delimiters
<1>5. CASE T = <<>> /\ c = "$"
  BY <1>1, <1>3, <1>5 DEF Above, NextTop, NextBit, Grounded
<1>6. CASE T = <<>> /\ c # "$"
  <2> DEFINE B == Base(S, b)
  <2>1. NextTop(T, c) = NestStep(<<>>, c) /\ NextBit(T, b, c) = b /\ Above(S, T, b) = B
    BY <1>1, <1>3, <1>6 DEF NextTop, NextBit, Above
  <2>2. <<>> # Broken /\ B # Broken
    BY <1>1, <1>2, <1>3
  <2>3. CASE c \in Opening
    <3>1. NestStep(<<>>, c) = <<c>> /\ NestStep(B, c) = Append(B, c)
      <4>1. NestStep(<<>>, c) = Append(<<>>, c) /\ NestStep(B, c) = Append(B, c)
        BY <2>2, <2>3 DEF NestStep
      <4> QED BY <4>1
    <3>2. B \in Seq(Delimiters) /\ c \in Delimiters
      BY <1>1, <1>2, <1>4, <2>3
    <3> HIDE DEF B
    <3>3. Append(B, c) = B \o <<c>> /\ <<c>> \in Stacks
      BY <3>2, AppendIsConcat DEF Stacks
    <3>4. Grounded(<<c>>)
      BY <1>6, <3>3 DEF Grounded
    <3> QED BY <2>1, <3>1, <3>3, <3>4 DEF Above, B
  <2>4. CASE c \notin Opening
    <3>1. c \notin DOMAIN Closes
      <4> SUFFICES ASSUME c \in DOMAIN Closes PROVE FALSE
        OBVIOUS
      <4>1. NestStep(<<>>, c) = Broken
        BY <2>2, <2>4 DEF NestStep
      <4> QED BY <2>1, <4>1
    <3>2. NestStep(<<>>, c) = <<>> /\ NestStep(B, c) = B
      BY <1>6, <2>2, <2>4, <3>1 DEF NestStep
    <3> QED BY <1>1, <1>3, <2>1, <3>2 DEF Above, Grounded
  <2> QED BY <2>3, <2>4
<1>7. CASE T # <<>>
  <2> DEFINE Q == NestStep(T, c)
  <2>1. NextTop(T, c) = Q /\ NextBit(T, b, c) = b /\ Q # Broken
    BY <1>7 DEF NextTop, NextBit
  <2>2. NestStep(Base(S, b) \o T, c) = Base(S, b) \o Q
    BY <1>1, <1>2, <1>7, <2>1, StepOver
  <2>3. T[1] # "$" /\ Len(T) \in Nat \ {0}
    BY <1>2, <1>7, TopOff DEF Grounded
  <2>4. \A x \in Delimiters : Append(T, x) \in Stacks /\ Append(T, x)[1] = T[1]
    <3> TAKE x \in Delimiters
    <3>1. T \in Seq(Delimiters) /\ 1 \in 1 .. Len(T)
      BY <1>2, <2>3
    <3> QED BY <3>1, AppendProperties DEF Stacks
  <2>5. Front(T) \in Stacks /\ (Front(T) = <<>> \/ Front(T)[1] = T[1])
    <3>1. /\ Front(T) \in Stacks /\ Len(Front(T)) = Len(T) - 1
          /\ \A i \in 1 .. Len(T) - 1 : Front(T)[i] = T[i]
      BY <1>2, <1>7, TopOff
    <3>2. Front(T) = <<>> \/ Len(Front(T)) \in Nat \ {0}
      BY <3>1, TopOff
    <3> QED BY <2>3, <3>1, <3>2
  <2>6. Grounded(Q)
    <3>1. Q = IF c \in Opening THEN Append(T, c)
              ELSE IF c \in DOMAIN Closes THEN IF Last(T) = Closes[c] THEN Front(T) ELSE Broken
              ELSE IF c # "$" THEN T
              ELSE IF Last(T) = "$" THEN Front(T) ELSE Append(T, "$")
      BY <1>2, <1>7 DEF NestStep
    <3>2. \/ Q = T \/ Q = Front(T) \/ \E x \in Delimiters : Q = Append(T, x)
      BY <1>4, <2>1, <3>1
    <3>3. Q \in Stacks /\ (Q = <<>> \/ Q[1] = T[1])
      <4> HIDE DEF Q
      <4>1. CASE Q = T
        BY <1>2, <4>1
      <4>2. CASE Q = Front(T)
        BY <2>5, <4>2
      <4>3. ASSUME NEW x \in Delimiters, Q = Append(T, x) PROVE Q \in Stacks /\ Q[1] = T[1]
        <5>1. Append(T, x) \in Stacks /\ Append(T, x)[1] = T[1]
          BY <2>4
        <5> QED BY <4>3, <5>1, Zenon
      <4> QED BY <3>2, <4>1, <4>2, <4>3
    <3> HIDE DEF Q
    <3> QED BY <2>3, <3>3 DEF Grounded
  <2> HIDE DEF Q
  <2> QED BY <2>1, <2>2, <2>6 DEF Above
<1> QED BY <1>5, <1>6, <1>7

(* Where the step fails, so does that over any stack, unless it closes     *)
(* what is below.                                                          *)
LEMMA OverFails ==
    ASSUME NEW S \in Stacks, Alternates(S), NEW T, Grounded(T), NEW b \in {0, 1}, NEW c,
           NextTop(T, c) = Broken
    PROVE  /\ c \in DOMAIN Closes /\ c \notin Opening /\ c # "$"
           /\ T # <<>> => NestStep(Above(S, T, b), c) = Broken
<1>1. Base(S, b) \in Stacks
  BY Bases
<1>2. T \in Stacks /\ \A X \in Stacks : X # Broken /\ X \in Seq(Delimiters)
  BY BrokenIsNoStack DEF Grounded, Stacks
<1>3. "$" \notin Opening /\ "$" \notin DOMAIN Closes /\ Opening \subseteq Delimiters /\ "$" \in Delimiters
  BY DEF Opening, Closes, Delimiters
<1>4. T # <<>> => NestStep(Above(S, T, b), c) = Broken
  <2> SUFFICES ASSUME T # <<>> PROVE NestStep(Above(S, T, b), c) = Broken
    OBVIOUS
  <2>1. NestStep(T, c) = Broken
    BY DEF NextTop
  <2> QED BY <1>1, <1>2, <2>1, StepOver DEF Above
<1>5. NestStep(T, c) = Broken
  <2>1. <<>> # Broken
    BY DEF Broken
  <2> QED BY <2>1 DEF NextTop
<1>6. \A x \in Delimiters : Append(T, x) # Broken
  <2> TAKE x \in Delimiters
  <2>1. Append(T, x) \in Stacks
    BY <1>2, AppendProperties DEF Stacks
  <2> QED BY <1>2, <2>1
<1>7. T # <<>> => Front(T) # Broken
  BY <1>2, TopOff
<1>8. c \in DOMAIN Closes /\ c \notin Opening
  BY <1>2, <1>3, <1>5, <1>6, <1>7 DEF NestStep
<1> QED BY <1>3, <1>4, <1>8

LEMMA OverNothing ==
    /\ <<>> \in Stacks /\ Alternates(<<>>) /\ Grounded(<<>>) /\ IsNesting(<<>>)
    /\ Base(<<>>, 0) = <<>> /\ Base(<<>>, 1) = <<"$">>
    /\ \A T \in Stacks : Above(<<>>, T, 0) = T /\ Above(<<>>, T, 1) # <<>> /\ Above(<<>>, T, 1)[1] = "$"
    /\ \A b \in {0, 1}, c \in DOMAIN Closes \ Opening : c # "$" => NestStep(Above(<<>>, <<>>, b), c) = Broken
<1>1. <<>> \in Stacks /\ Alternates(<<>>) /\ Grounded(<<>>) /\ IsNesting(<<>>)
  <2>1. <<>> \in Stacks /\ Len(<<>>) = 0
    BY DEF Stacks
  <2>2. Alternates(<<>>)
    BY DEF Alternates
  <2> QED BY <2>1, <2>2 DEF Grounded, IsNesting
<1>2. "$" \notin Opening /\ "$" \notin DOMAIN Closes /\ <<>> # Broken /\ <<"$">> # Broken
  BY DEF Opening, Closes, Broken
<1>3. Base(<<>>, 0) = <<>> /\ Base(<<>>, 1) = <<"$">>
  <2>1. NestStep(<<>>, "$") = Append(<<>>, "$")
    BY <1>2 DEF NestStep
  <2> QED BY <2>1 DEF Base
<1>4. ASSUME NEW T \in Stacks
      PROVE  Above(<<>>, T, 0) = T /\ Above(<<>>, T, 1) # <<>> /\ Above(<<>>, T, 1)[1] = "$"
  <2>1. T \in Seq(Delimiters) /\ <<"$">> \in Seq(Delimiters) /\ Len(<<"$">>) = 1 /\ <<"$">>[1] = "$"
    BY DEF Stacks, Delimiters
  <2>2. <<>> \o T = T
    BY <2>1, ConcatEmptySeq
  <2> DEFINE X == <<"$">> \o T
  <2>3. Len(X) = 1 + Len(T) /\ X[1] = "$" /\ Len(T) \in Nat /\ X \in Seq(Delimiters)
    BY <2>1
  <2> HIDE DEF X
  <2>4. X # <<>>
    BY <2>3
  <2> QED BY <1>3, <2>2, <2>3, <2>4 DEF Above, X
<1>5. ASSUME NEW b \in {0, 1}, NEW c \in DOMAIN Closes \ Opening, c # "$"
      PROVE  NestStep(Above(<<>>, <<>>, b), c) = Broken
  <2>1. Above(<<>>, <<>>, b) \in {<<>>, <<"$">>}
    BY <1>3 DEF Above
  <2>2. Closes[c] # "$" /\ Last(<<"$">>) = "$"
    BY DEF Closes, Last
  <2> QED BY <1>2, <1>5, <2>1, <2>2 DEF NestStep
<1> QED BY <1>1, <1>3, <1>4, <1>5

LEMMA JoinedNesting ==
    ASSUME NEW S \in Stacks, Alternates(S), NEW T, Grounded(T), Alternates(T)
    PROVE  S \o T \in Stacks /\ Alternates(S \o T)
<1> DEFINE X == S \o T
<1>1. S \in Seq(Delimiters) /\ T \in Seq(Delimiters) /\ Len(S) \in Nat /\ Len(T) \in Nat
  BY DEF Stacks, Grounded
<1>2. X \in Seq(Delimiters) /\ Len(X) = Len(S) + Len(T)
      /\ \A i \in 1 .. Len(X) : X[i] = IF i <= Len(S) THEN S[i] ELSE T[i - Len(S)]
  BY <1>1
<1> HIDE DEF X
<1>3. ASSUME NEW i \in 1 .. Len(X) - 1, X[i] = "$", X[i + 1] = "$" PROVE FALSE
  <2>1. i \in 1 .. Len(X) /\ i + 1 \in 1 .. Len(X)
    BY <1>1, <1>2
  <2>2. CASE i < Len(S)
    <3>1. i \in 1 .. Len(S) - 1 /\ X[i] = S[i] /\ X[i + 1] = S[i + 1]
      BY <1>1, <1>2, <2>1, <2>2
    <3> QED BY <1>3, <3>1 DEF Alternates
  <2>3. CASE i = Len(S)
    <3>1. X[i + 1] = T[1] /\ T # <<>>
      BY <1>1, <1>2, <2>1, <2>3
    <3> QED BY <1>3, <3>1 DEF Grounded
  <2>4. CASE i > Len(S)
    <3>1. i - Len(S) \in 1 .. Len(T) - 1 /\ X[i] = T[i - Len(S)] /\ X[i + 1] = T[i - Len(S) + 1]
      BY <1>1, <1>2, <2>1, <2>4
    <3> QED BY <1>3, <3>1 DEF Alternates
  <2> QED BY <1>1, <2>1, <2>2, <2>3, <2>4
<1> QED BY <1>2, <1>3 DEF Alternates, Stacks, X

(* A text that nests over a stack nests over a higher one. *)
LEMMA NestLifts ==
    ASSUME NEW t, Len(t) \in Nat, NEW S \in Stacks, Alternates(S), NEW T0, Grounded(T0), Alternates(T0),
           Grounded(Nest(T0, t))
    PROVE  Nest(S \o T0, t) = S \o Nest(T0, t)
<1> DEFINE n == Len(t)
           M == Nesting(T0, t)
           N == Nesting(S \o T0, t)
           Lifted(i) == \E T \in Stacks, b \in {0, 1} : Grounded(T) /\ M[i] = Above(<<>>, T, b) /\ N[i] = Above(S, T, b)
           K == {i \in 0 .. n : Lifted(i)}
<1>1. IsNesting(T0) /\ IsNesting(S \o T0) /\ n \in Nat
  BY JoinedNesting DEF IsNesting, Grounded
<1>2. Nest(T0, t) # Broken
  BY BrokenIsNoStack DEF Grounded
<1>3. /\ M[0] = T0 /\ \A i \in 1 .. n : M[i] = NestStep(M[i - 1], t[i])
      /\ N[0] = S \o T0 /\ \A i \in 1 .. n : N[i] = NestStep(N[i - 1], t[i])
  <2>1. M[0] = T0 /\ \A i \in 1 .. n : M[i] = NestStep(M[i - 1], t[i])
    BY <1>1, NestingSteps
  <2>2. N[0] = S \o T0 /\ \A i \in 1 .. n : N[i] = NestStep(N[i - 1], t[i])
    BY <1>1, NestingSteps
  <2> QED BY <2>1, <2>2, Zenon
<1>4. \A i \in 0 .. n : M[i] # Broken
  BY <1>1, <1>2, NeverBroken
<1>5. Nest(T0, t) = M[n] /\ Nest(S \o T0, t) = N[n]
  BY DEF Nest
<1> HIDE DEF M, N, n
<1>6. 0 \in K
  <2>1. M[0] = Above(<<>>, T0, 0) /\ N[0] = Above(S, T0, 0)
    BY <1>3, OverNothing DEF Above, Base, Grounded
  <2>2. Lifted(0)
    <3>1. T0 \in Stacks /\ 0 \in {0, 1}
      BY DEF Grounded
    <3> QED BY <2>1, <3>1, Zenon
  <2> HIDE DEF Lifted
  <2> QED BY <1>1, <2>2
<1>7. ASSUME NEW i \in 1 .. n, i - 1 \in K PROVE i \in K
  <2>1. i \in 0 .. n
    BY <1>1
  <2>2. PICK T \in Stacks, b \in {0, 1} : Grounded(T) /\ M[i - 1] = Above(<<>>, T, b) /\ N[i - 1] = Above(S, T, b)
    BY <1>7
  <2> DEFINE c == t[i]
             T1 == NextTop(T, c)
             b1 == NextBit(T, b, c)
  <2>3. M[i] = NestStep(Above(<<>>, T, b), c) /\ N[i] = NestStep(Above(S, T, b), c) /\ M[i] # Broken
    BY <1>3, <1>4, <2>1, <2>2
  <2> HIDE DEF c
  <2>4. <<>> \in Stacks /\ Alternates(<<>>)
    BY OverNothing
  <2>5. T1 # Broken
    <3> SUFFICES ASSUME T1 = Broken PROVE FALSE
      OBVIOUS
    <3>1. /\ c \in DOMAIN Closes /\ c \notin Opening /\ c # "$"
          /\ T # <<>> => NestStep(Above(<<>>, T, b), c) = Broken
      BY <2>2, <2>4, OverFails
    <3>2. T = <<>> => NestStep(Above(<<>>, T, b), c) = Broken
      BY <3>1, OverNothing
    <3> QED BY <2>3, <3>1, <3>2
  <2>6. Grounded(T1) /\ b1 \in {0, 1} /\ NestStep(Above(<<>>, T, b), c) = Above(<<>>, T1, b1)
    BY <2>2, <2>4, <2>5, OverStep
  <2>7. NestStep(Above(S, T, b), c) = Above(S, T1, b1)
    BY <2>2, <2>5, OverStep
  <2> HIDE DEF T1, b1
  <2>8. Lifted(i)
    <3>1. T1 \in Stacks
      BY <2>6 DEF Grounded
    <3> QED BY <2>3, <2>6, <2>7, <3>1, Zenon
  <2> HIDE DEF Lifted
  <2> QED BY <2>1, <2>8
<1>8. \A i \in 0 .. n : i \in K
  <2> HIDE DEF K
  <2> QED BY <1>1, <1>6, <1>7, Counted
<1>9. PICK T \in Stacks, b \in {0, 1} : Grounded(T) /\ M[n] = Above(<<>>, T, b) /\ N[n] = Above(S, T, b)
  <2>1. n \in K
    BY <1>1, <1>8
  <2> QED BY <2>1
<1>10. b = 0
  <2> SUFFICES ASSUME b = 1 PROVE FALSE
    OBVIOUS
  <2>1. M[n] # <<>> /\ M[n][1] = "$"
    BY <1>9, OverNothing DEF Grounded
  <2> QED BY <1>5, <2>1 DEF Grounded
<1> QED BY <1>5, <1>9, <1>10, OverNothing DEF Above, Base, Grounded

CountsUp(t, n, chars) ==
    /\ Count(t, chars, 0) = 0 /\ \A i \in 0 .. n : Count(t, chars, i) \in Nat
    /\ \A i \in 1 .. n : Count(t, chars, i) = Count(t, chars, i - 1) + (IF t[i] \in chars THEN 1 ELSE 0)

LEMMA Counts == ASSUME NEW t, NEW n \in Nat, NEW chars PROVE CountsUp(t, n, chars)
<1> DEFINE P == {k \in 1 .. n : t[k] \in chars}
<1>1. P \in SUBSET (1 .. n)
  OBVIOUS
<1>2. \A i \in 0 .. n : Count(t, chars, i) = Rank(P, i)
  <2> TAKE i \in 0 .. n
  <2>1. {k \in 1 .. i : t[k] \in chars} = P \cap (1 .. i)
    OBVIOUS
  <2> QED BY <2>1 DEF Count, Rank
<1> HIDE DEF P
<1>3. /\ \A m \in 0 .. n : Rank(P, m) \in Nat
      /\ Rank(P, 0) = 0
      /\ \A m \in 1 .. n : Rank(P, m) = IF m \in P THEN Rank(P, m - 1) + 1 ELSE Rank(P, m - 1)
  BY <1>1, Ranks
<1>4. ASSUME NEW i \in 1 .. n
      PROVE  Count(t, chars, i) = Count(t, chars, i - 1) + (IF t[i] \in chars THEN 1 ELSE 0)
  <2>1. i \in 0 .. n /\ i - 1 \in 0 .. n
    OBVIOUS
  <2>2. i \in P <=> t[i] \in chars
    BY DEF P
  <2> QED BY <1>2, <1>3, <2>1, <2>2
<1>5. Count(t, chars, 0) = 0 /\ \A i \in 0 .. n : Count(t, chars, i) \in Nat
  <2>1. 0 \in 0 .. n
    OBVIOUS
  <2> QED BY <1>2, <1>3, <2>1
<1> QED BY <1>4, <1>5 DEF CountsUp

LEMMA CountSame ==
    ASSUME NEW s, NEW t, NEW n \in Nat, NEW chars, \A k \in 1 .. n : s[k] = t[k]
    PROVE  Count(s, chars, n) = Count(t, chars, n)
<1>1. {k \in 1 .. n : s[k] \in chars} = {k \in 1 .. n : t[k] \in chars}
  OBVIOUS
<1> QED BY <1>1 DEF Count

(* How often a delimiter is open. *)
Held(T, x) == Count(T, {x}, Len(T))

LEMMA HeldSteps ==
    ASSUME NEW T \in Stacks, NEW x
    PROVE  /\ Held(T, x) \in Nat /\ Held(<<>>, x) = 0
           /\ \A c \in Delimiters : Held(Append(T, c), x) = Held(T, x) + (IF c = x THEN 1 ELSE 0)
           /\ T # <<>> => Held(Front(T), x) = Held(T, x) - (IF Last(T) = x THEN 1 ELSE 0)
           /\ T # <<>> /\ T[1] = x => Held(T, x) # 0
<1> DEFINE n == Len(T)
<1>1. T \in Seq(Delimiters) /\ n \in Nat
  BY DEF Stacks
<1>2. Held(T, x) \in Nat
  <2>1. n \in 0 .. n
    BY <1>1
  <2> QED BY <1>1, <2>1, Counts DEF CountsUp, Held
<1>3. Held(<<>>, x) = 0
  <2>1. Len(<<>>) = 0 /\ 0 \in Nat
    OBVIOUS
  <2> QED BY <2>1, Counts DEF CountsUp, Held
<1>4. ASSUME NEW c \in Delimiters PROVE Held(Append(T, c), x) = Held(T, x) + (IF c = x THEN 1 ELSE 0)
  <2> DEFINE A == Append(T, c)
  <2>1. Len(A) = n + 1 /\ A[n + 1] = c /\ \A k \in 1 .. n : A[k] = T[k]
    BY <1>1, AppendProperties
  <2> HIDE DEF A, n
  <2>2. n + 1 \in 1 .. (n + 1) /\ n + 1 \in Nat /\ (n + 1) - 1 = n
    BY <1>1
  <2>3. Count(A, {x}, n + 1) = Count(A, {x}, n) + (IF A[n + 1] \in {x} THEN 1 ELSE 0)
    <3> DEFINE m == n + 1
    <3>1. \A i \in 1 .. m : Count(A, {x}, i) = Count(A, {x}, i - 1) + (IF A[i] \in {x} THEN 1 ELSE 0)
      <4>1. m \in Nat
        BY <2>2
      <4> HIDE DEF m
      <4>2. CountsUp(A, m, {x})
        BY <4>1, Counts
      <4> QED BY <4>2 DEF CountsUp
    <3> QED BY <2>2, <3>1
  <2>4. Count(A, {x}, n) = Count(T, {x}, n)
    BY <1>1, <2>1, CountSame
  <2> QED BY <2>1, <2>3, <2>4 DEF Held, A, n
<1>5. ASSUME T # <<>> PROVE Held(Front(T), x) = Held(T, x) - (IF Last(T) = x THEN 1 ELSE 0)
  <2> DEFINE F == Front(T)
  <2>1. n \in Nat \ {0} /\ Last(T) = T[n] /\ Len(F) = n - 1 /\ \A k \in 1 .. n - 1 : F[k] = T[k]
    BY <1>5, TopOff
  <2> HIDE DEF F, n
  <2>2. n \in 1 .. n /\ n - 1 \in Nat /\ n - 1 \in 0 .. n
    BY <2>1
  <2>3. Count(T, {x}, n) = Count(T, {x}, n - 1) + (IF T[n] \in {x} THEN 1 ELSE 0) /\ Count(T, {x}, n - 1) \in Nat
    <3>1. CountsUp(T, n, {x})
      BY <1>1, Counts
    <3> QED BY <2>2, <3>1 DEF CountsUp
  <2>4. Count(F, {x}, n - 1) = Count(T, {x}, n - 1)
    BY <2>1, <2>2, CountSame
  <2> QED BY <2>1, <2>3, <2>4 DEF Held, F, n
<1>6. ASSUME T # <<>>, T[1] = x PROVE Held(T, x) # 0
  <2> DEFINE P == {k \in 1 .. n : T[k] \in {x}}
  <2>1. n \in Nat \ {0}
    BY <1>6, TopOff
  <2>2. 1 \in P /\ P \in SUBSET (1 .. n)
    BY <1>6, <2>1
  <2>3. IsFiniteSet(P)
    <3> HIDE DEF P
    <3> QED BY <1>1, <2>2, Ranks
  <2>4. Held(T, x) = Cardinality(P)
    BY DEF Held, Count
  <2> HIDE DEF P
  <2>5. Cardinality(P) # 0
    BY <2>2, <2>3, FS_EmptySet
  <2> QED BY <2>4, <2>5
<1> QED BY <1>2, <1>3, <1>4, <1>5, <1>6

DepthsFollow(t, n, x) ==
    /\ Depth(t, x, 0) = 0 /\ \A i \in 0 .. n : Depth(t, x, i) \in Int
    /\ \A i \in 1 .. n :
         Depth(t, x, i) = Depth(t, x, i - 1) + (IF t[i] = x THEN 1 ELSE 0)
                          - (IF t[i] \in DOMAIN Closes /\ Closes[t[i]] = x THEN 1 ELSE 0)

LEMMA DepthSteps == ASSUME NEW t, NEW n \in Nat, NEW x PROVE DepthsFollow(t, n, x)
<1> DEFINE C == {c \in DOMAIN Closes : Closes[c] = x}
           O(i) == Count(t, {x}, i)
           E(i) == Count(t, C, i)
<1>1. \A i : Depth(t, x, i) = O(i) - E(i)
  BY DEF Depth
<1>2. /\ O(0) = 0 /\ \A i \in 0 .. n : O(i) \in Nat
      /\ \A i \in 1 .. n : O(i) = O(i - 1) + (IF t[i] \in {x} THEN 1 ELSE 0)
  <2>1. CountsUp(t, n, {x})
    BY Counts
  <2> QED BY <2>1 DEF CountsUp
<1>3. /\ E(0) = 0 /\ \A i \in 0 .. n : E(i) \in Nat
      /\ \A i \in 1 .. n : E(i) = E(i - 1) + (IF t[i] \in C THEN 1 ELSE 0)
  <2> HIDE DEF C
  <2>1. CountsUp(t, n, C)
    BY Counts
  <2> QED BY <2>1 DEF CountsUp
<1> HIDE DEF O, E
<1>4. ASSUME NEW i \in 1 .. n
      PROVE  Depth(t, x, i) = Depth(t, x, i - 1) + (IF t[i] = x THEN 1 ELSE 0)
                              - (IF t[i] \in DOMAIN Closes /\ Closes[t[i]] = x THEN 1 ELSE 0)
  <2>1. i \in 0 .. n /\ i - 1 \in 0 .. n
    OBVIOUS
  <2>2. t[i] \in C <=> t[i] \in DOMAIN Closes /\ Closes[t[i]] = x
    OBVIOUS
  <2> HIDE DEF C
  <2> QED BY <1>1, <1>2, <1>3, <2>1, <2>2
<1> QED BY <1>1, <1>2, <1>3, <1>4 DEF DepthsFollow

(* The depths are the numbers of open brackets, and the "$" that are open  *)
(* are as even as those that were read.                                    *)
Tallied(t, T, b, i) ==
    /\ \A x \in Opening : Depth(t, x, i) = Held(T, x)
    /\ (Count(t, {"$"}, i) + Held(T, "$") + b) % 2 = 0

LEMMA TallyStep ==
    ASSUME NEW t, NEW n \in Nat, NEW i \in 1 .. n, NEW T, Grounded(T), NEW b \in {0, 1},
           NextTop(T, t[i]) # Broken, Tallied(t, T, b, i - 1)
    PROVE  Tallied(t, NextTop(T, t[i]), NextBit(T, b, t[i]), i)
<1> DEFINE c == t[i]
           T1 == NextTop(T, c)
           b1 == NextBit(T, b, c)
           open(x) == IF c = x THEN 1 ELSE 0
           close(x) == IF c \in DOMAIN Closes /\ Closes[c] = x THEN 1 ELSE 0
           held(x) == Held(T, x)
<1>1. \A x \in Opening : Depth(t, x, i) = Depth(t, x, i - 1) + open(x) - close(x)
  <2>1. \A x : DepthsFollow(t, n, x)
    BY DepthSteps
  <2> QED BY <2>1 DEF DepthsFollow
<1>2. Count(t, {"$"}, i) = Count(t, {"$"}, i - 1) + open("$") /\ Count(t, {"$"}, i - 1) \in Nat
  <2>1. CountsUp(t, n, {"$"})
    BY Counts
  <2>2. i - 1 \in 0 .. n
    OBVIOUS
  <2> QED BY <2>1, <2>2 DEF CountsUp
<1>3. /\ \A x \in Opening : Depth(t, x, i - 1) = held(x)
      /\ (Count(t, {"$"}, i - 1) + held("$") + b) % 2 = 0
  BY DEF Tallied
<1>4. T \in Stacks /\ T # Broken
  BY BrokenIsNoStack DEF Grounded
<1>5. \A x : held(x) \in Nat
  BY <1>4, HeldSteps
<1>6. \A d \in Delimiters : \A x : Held(Append(T, d), x) = held(x) + (IF d = x THEN 1 ELSE 0)
  BY <1>4, HeldSteps
<1>7. T # <<>> => Last(T) \in Delimiters /\ \A x : Held(Front(T), x) = held(x) - (IF Last(T) = x THEN 1 ELSE 0)
  BY <1>4, HeldSteps, TopOff
<1>8. "$" \notin Opening /\ "$" \notin DOMAIN Closes /\ Opening \cap DOMAIN Closes = {}
      /\ \A d \in DOMAIN Closes : Closes[d] \in Opening
  BY DEF Opening, Closes
<1>9. Opening \subseteq Delimiters /\ "$" \in Delimiters
  BY DEF Delimiters
<1> HIDE DEF c, held
(* What is held after the step. *)
<1>10. /\ \A x \in Opening : Held(T1, x) = held(x) + open(x) - close(x)
       /\ (open("$") + Held(T1, "$") + b1 - held("$") - b) \in {0, 2}
  <2>1. CASE T = <<>> /\ c = "$"
    <3>1. T1 = T /\ b1 = 1 - b
      BY <2>1 DEF NextTop, NextBit
    <3>2. \A x : Held(T1, x) = held(x)
      BY <3>1 DEF held
    <3>3. \A x \in Opening : open(x) = 0 /\ close(x) = 0
      BY <1>8, <2>1
    <3>4. open("$") = 1
      BY <2>1
    <3> HIDE DEF T1, b1, open, close
    <3> QED BY <1>5, <3>1, <3>2, <3>3, <3>4
  <2>2. ASSUME ~(T = <<>> /\ c = "$")
        PROVE  /\ b1 = b /\ T1 # Broken
               /\ T1 = IF c \in Opening THEN Append(T, c)
                       ELSE IF c \in DOMAIN Closes THEN
                           IF T # <<>> /\ Last(T) = Closes[c] THEN Front(T) ELSE Broken
                       ELSE IF c # "$" THEN T
                       ELSE IF T # <<>> /\ Last(T) = "$" THEN Front(T) ELSE Append(T, "$")
    <3>1. T1 = NestStep(T, c) /\ b1 = b
      BY <2>2 DEF NextTop, NextBit
    <3>2. T1 # Broken
      BY DEF c
    <3> HIDE DEF T1, b1
    <3> QED BY <1>4, <3>1, <3>2 DEF NestStep
  <2>3. CASE ~(T = <<>> /\ c = "$") /\ c \in Opening
    <3>1. T1 = Append(T, c) /\ b1 = b
      BY <2>2, <2>3
    <3>2. \A x : Held(T1, x) = held(x) + open(x)
      BY <1>6, <1>9, <2>3, <3>1
    <3>3. \A x \in Opening : close(x) = 0
      BY <1>8, <2>3
    <3>4. open("$") = 0
      BY <1>8, <2>3
    <3>5. \A x : open(x) \in {0, 1}
      OBVIOUS
    <3> HIDE DEF T1, b1, open, close
    <3> QED BY <1>5, <3>1, <3>2, <3>3, <3>4, <3>5
  <2>4. CASE ~(T = <<>> /\ c = "$") /\ c \in DOMAIN Closes
    <3>1. T1 = Front(T) /\ b1 = b /\ T # <<>> /\ Last(T) = Closes[c]
      BY <1>8, <2>2, <2>4
    <3>2. \A x : Held(T1, x) = held(x) - close(x)
      BY <1>7, <2>4, <3>1
    <3>3. \A x \in Opening : open(x) = 0
      BY <1>8, <2>4
    <3>4. open("$") = 0 /\ close("$") = 0
      BY <1>8, <2>4
    <3>5. \A x : close(x) \in {0, 1}
      OBVIOUS
    <3> HIDE DEF T1, b1, open, close
    <3> QED BY <1>5, <3>1, <3>2, <3>3, <3>4, <3>5
  <2>5. CASE c \notin Opening /\ c \notin DOMAIN Closes /\ c # "$"
    <3>1. T1 = T /\ b1 = b
      BY <2>2, <2>5
    <3>2. \A x : Held(T1, x) = held(x)
      BY <3>1 DEF held
    <3>3. \A x \in Opening : open(x) = 0 /\ close(x) = 0
      BY <2>5
    <3>4. open("$") = 0
      BY <2>5
    <3> HIDE DEF T1, b1, open, close
    <3> QED BY <1>5, <3>1, <3>2, <3>3, <3>4
  <2>6. CASE T # <<>> /\ c = "$" /\ Last(T) = "$"
    <3>1. T1 = Front(T) /\ b1 = b
      BY <1>8, <2>2, <2>6
    <3>2. \A x \in Opening : Held(T1, x) = held(x)
      BY <1>5, <1>7, <1>8, <2>6, <3>1
    <3>3. \A x \in Opening : open(x) = 0 /\ close(x) = 0
      BY <1>8, <2>6
    <3>4. open("$") = 1 /\ Held(T1, "$") = held("$") - 1
      BY <1>7, <2>6, <3>1
    <3> HIDE DEF T1, b1, open, close
    <3> QED BY <1>5, <3>1, <3>2, <3>3, <3>4
  <2>7. CASE T # <<>> /\ c = "$" /\ Last(T) # "$"
    <3>1. T1 = Append(T, "$") /\ b1 = b
      BY <1>8, <2>2, <2>7
    <3>2. \A x \in Opening : Held(T1, x) = held(x)
      BY <1>5, <1>6, <1>8, <1>9, <3>1
    <3>3. \A x \in Opening : open(x) = 0 /\ close(x) = 0
      BY <1>8, <2>7
    <3>4. open("$") = 1 /\ Held(T1, "$") = held("$") + 1
      BY <1>6, <1>9, <2>7, <3>1
    <3> HIDE DEF T1, b1, open, close
    <3> QED BY <1>5, <3>1, <3>2, <3>3, <3>4
  <2> HIDE DEF T1, b1
  <2> QED BY <1>8, <2>1, <2>3, <2>4, <2>5, <2>6, <2>7
<1>11. Held(T1, "$") \in Nat /\ b1 \in {0, 1}
  <2>1. T1 \in Stacks
    <3>1. <<>> \in Stacks /\ Alternates(<<>>) /\ T1 # Broken
      BY OverNothing DEF c
    <3> QED BY <3>1, OverStep DEF Grounded
  <2>2. b1 \in {0, 1}
    BY DEF NextBit
  <2> QED BY <2>1, <2>2, HeldSteps
<1> DEFINE p == Count(t, {"$"}, i - 1)
           q == Count(t, {"$"}, i)
           h == Held(T1, "$")
<1>12. (q + h + b1) % 2 = 0
  <2>1. open("$") \in {0, 1}
    OBVIOUS
  <2> HIDE DEF p, q, T1, b1, h, open
  <2>2. q = p + open("$") /\ p \in Nat /\ held("$") \in Nat /\ h \in Nat /\ (p + held("$") + b) % 2 = 0
    BY <1>2, <1>3, <1>5, <1>11 DEF p, q, h
  <2>3. \E d \in {0, 2} : open("$") + h + b1 - held("$") - b = d
    BY <1>10 DEF h
  <2>4. \E d \in {0, 2} : q + h + b1 = (p + held("$") + b) + d
    BY <1>11, <2>1, <2>2, <2>3
  <2>5. \A m \in Nat, d \in {0, 2} : m % 2 = 0 => (m + d) % 2 = 0
    OBVIOUS
  <2>6. p + held("$") + b \in Nat
    BY <2>2
  <2> QED BY <2>2, <2>4, <2>5, <2>6
<1>13. \A x \in Opening : Depth(t, x, i) = Held(T1, x)
  BY <1>1, <1>3, <1>10
<1> HIDE DEF T1, b1
<1> QED BY <1>12, <1>13 DEF Tallied, T1, b1, c, q, h

(* A span that is safe nests alone, whatever is open where it stands. *)
LEMMA SafeSpanNests ==
    ASSUME NEW t, Len(t) \in Nat, NEW S \in Stacks, Alternates(S), Nest(S, t) # Broken,
           ClassifyInlineSafety(t) = "safe"
    PROVE  Nest(<<>>, t) = <<>>
<1> DEFINE n == Len(t)
           M == Nesting(<<>>, t)
           N == Nesting(S, t)
           Reads(T, b, i) == /\ Grounded(T) /\ M[i] = Above(<<>>, T, b) /\ N[i] = Above(S, T, b)
                             /\ Tallied(t, T, b, i)
           Read(i) == \E T \in Stacks, b \in {0, 1} : Reads(T, b, i)
           K == {i \in 0 .. n : Read(i)}
<1>1. n \in Nat /\ IsNesting(S) /\ <<>> \in Stacks /\ Alternates(<<>>) /\ Grounded(<<>>) /\ IsNesting(<<>>)
  BY OverNothing DEF IsNesting
<1>2. /\ M[0] = <<>> /\ \A i \in 1 .. n : M[i] = NestStep(M[i - 1], t[i])
      /\ N[0] = S /\ \A i \in 1 .. n : N[i] = NestStep(N[i - 1], t[i])
  BY <1>1, NestingSteps
<1>3. \A i \in 0 .. n : N[i] # Broken
  BY <1>1, NeverBroken
<1>4. Nest(<<>>, t) = M[n]
  BY DEF Nest
<1>5. /\ \A x \in Opening : (\A i \in 0 .. n : Depth(t, x, i) >= 0) /\ Depth(t, x, n) = 0
      /\ Count(t, {"$"}, n) % 2 = 0
  <2>1. (\A x \in Opening : NeverNegative(t, x) /\ Depth(t, x, n) = 0) /\ Occurrences(t, "$") % 2 = 0
    BY DEF ClassifyInlineSafety
  <2> QED BY <2>1 DEF NeverNegative, Occurrences
<1>6. /\ \A x : DepthsFollow(t, n, x)
      /\ CountsUp(t, n, {"$"})
  BY <1>1, DepthSteps, Counts
<1> HIDE DEF M, N, n
<1>7. 0 \in K
  <2>1. M[0] = Above(<<>>, <<>>, 0) /\ N[0] = Above(S, <<>>, 0)
    <3>1. S \in Seq(Delimiters) /\ S \o <<>> = S
      <4>1. S \in Seq(Delimiters)
        BY DEF Stacks
      <4> QED BY <4>1, ConcatEmptySeq
    <3> QED BY <1>1, <1>2, <3>1, OverNothing DEF Above, Base
  <2>2. Tallied(t, <<>>, 0, 0)
    <3>1. \A x : Held(<<>>, x) = 0
      BY <1>1, HeldSteps
    <3> QED BY <1>6, <3>1 DEF Tallied, DepthsFollow, CountsUp
  <2>3. Read(0)
    <3>1. Reads(<<>>, 0, 0)
      BY <1>1, <2>1, <2>2
    <3> HIDE DEF Reads
    <3> QED BY <1>1, <3>1
  <2> HIDE DEF Read
  <2> QED BY <1>1, <2>3
<1>8. ASSUME NEW i \in 1 .. n, i - 1 \in K PROVE i \in K
  <2>1. i \in 0 .. n
    BY <1>1
  <2>2. PICK T \in Stacks, b \in {0, 1} : Reads(T, b, i - 1)
    <3> HIDE DEF Reads
    <3> QED BY <1>8
  <2> DEFINE c == t[i]
             T1 == NextTop(T, c)
             b1 == NextBit(T, b, c)
  <2>3. M[i] = NestStep(Above(<<>>, T, b), c) /\ N[i] = NestStep(Above(S, T, b), c) /\ N[i] # Broken
    BY <1>2, <1>3, <2>1, <2>2
  <2> HIDE DEF c
  <2>4. T1 # Broken
    <3> SUFFICES ASSUME T1 = Broken PROVE FALSE
      OBVIOUS
    <3>1. /\ c \in DOMAIN Closes /\ c \notin Opening /\ c # "$"
          /\ T # <<>> => NestStep(Above(S, T, b), c) = Broken
      BY <2>2, OverFails
    <3>2. T = <<>>
      BY <2>3, <3>1
    <3> DEFINE x == Closes[c]
    <3>3. x \in Opening
      BY <3>1 DEF Closes, Opening
    <3>4. Depth(t, x, i - 1) = 0
      <4>1. Depth(t, x, i - 1) = Held(T, x)
        BY <2>2, <3>3 DEF Tallied
      <4> QED BY <1>1, <3>2, <4>1, HeldSteps
    <3>5. Depth(t, x, i) = Depth(t, x, i - 1) - 1
      <4>1. Depth(t, x, i) = Depth(t, x, i - 1) + (IF c = x THEN 1 ELSE 0)
                             - (IF c \in DOMAIN Closes /\ Closes[c] = x THEN 1 ELSE 0)
        BY <1>6 DEF DepthsFollow, c
      <4>2. c # x
        BY <3>1, <3>3
      <4> QED BY <3>1, <3>4, <4>1, <4>2
    <3> HIDE DEF x
    <3> QED BY <1>5, <2>1, <3>3, <3>4, <3>5
  <2>5. Grounded(T1) /\ b1 \in {0, 1} /\ NestStep(Above(<<>>, T, b), c) = Above(<<>>, T1, b1)
    BY <1>1, <2>2, <2>4, OverStep
  <2>6. NestStep(Above(S, T, b), c) = Above(S, T1, b1)
    BY <2>2, <2>4, OverStep
  <2>7. Tallied(t, T1, b1, i)
    BY <1>1, <2>2, <2>4, TallyStep DEF c
  <2> HIDE DEF T1, b1
  <2>8. Read(i)
    <3>1. Reads(T1, b1, i) /\ T1 \in Stacks
      BY <2>3, <2>5, <2>6, <2>7 DEF Grounded
    <3> HIDE DEF Reads
    <3> QED BY <2>5, <3>1
  <2> HIDE DEF Read
  <2> QED BY <2>1, <2>8
<1>9. \A i \in 0 .. n : i \in K
  <2> HIDE DEF K
  <2> QED BY <1>1, <1>7, <1>8, Counted
<1>10. PICK T \in Stacks, b \in {0, 1} : Reads(T, b, n)
  <2>1. n \in K
    BY <1>1, <1>9
  <2> HIDE DEF Reads
  <2> QED BY <2>1
<1>11. \A x \in Opening : Held(T, x) = 0
  BY <1>5, <1>10 DEF Tallied
<1>12. T = <<>>
  <2> SUFFICES ASSUME T # <<>> PROVE FALSE
    OBVIOUS
  <2>1. T[1] # "$"
    BY <1>10 DEF Grounded
  <2>2. T[1] \in Opening
    <3>1. T \in Seq(Delimiters) /\ 1 \in 1 .. Len(T)
      BY TopOff DEF Stacks
    <3>2. T[1] \in Delimiters
      BY <3>1
    <3> QED BY <2>1, <3>2 DEF Delimiters
  <2> QED BY <1>11, <2>2, HeldSteps
<1>13. b = 0
  <2>1. Held(T, "$") = 0
    BY <1>1, <1>12, HeldSteps
  <2>2. (Count(t, {"$"}, n) + 0 + b) % 2 = 0 /\ Count(t, {"$"}, n) % 2 = 0 /\ Count(t, {"$"}, n) \in Nat
    <3>1. n \in 0 .. n
      BY <1>1
    <3> QED BY <1>5, <1>6, <1>10, <2>1, <3>1 DEF Tallied, CountsUp
  <2> DEFINE q == Count(t, {"$"}, n)
  <2> HIDE DEF q
  <2>3. (q + b) % 2 = 0 /\ q % 2 = 0 /\ q \in Nat
    BY <2>2 DEF q
  <2> QED BY <2>3
<1> QED BY <1>4, <1>10, <1>12, <1>13, OverNothing

Bracket == <<"[">>

(* Markers do not change what is open, around whatever span. *)
LEMMA EmitNests ==
    ASSUME NEW A, NEW style, NEW span \in Seq(A), NEW kind, StyleNests(style),
           \A m \in {style.insertOpen, style.insertClose, style.deleteOpen, style.deleteClose,
                     style.replacedOpen, style.replacedClose} : m \in Seq(A),
           NEW S \in Stacks, Alternates(S), Nest(S, span) # Broken
    PROVE  EmitChange(span, kind, style) \in Seq(A) /\ Nest(S, EmitChange(span, kind, style)) = Nest(S, span)
<1>1. \A X \in Stacks : X \o <<>> = X
  <2> TAKE X \in Stacks
  <2>1. X \in Seq(Delimiters)
    BY DEF Stacks
  <2> QED BY <2>1, ConcatEmptySeq
<1>2. /\ Grounded(<<>>) /\ Alternates(<<>>)
      /\ Grounded(Bracket) /\ Alternates(Bracket)
  <2>1. Bracket \in Stacks /\ Bracket[1] # "$" /\ Len(Bracket) = 1
    <3>1. "[" \in Delimiters
      BY DEF Delimiters, Opening
    <3>2. Bracket \in Stacks
      BY <3>1 DEF Bracket, Stacks
    <3> QED BY <3>2 DEF Bracket
  <2>2. Alternates(Bracket)
    BY <2>1 DEF Alternates
  <2> QED BY <2>1, <2>2, OverNothing DEF Grounded
<1>3. S \o Bracket \in Stacks /\ Alternates(S \o Bracket)
  BY <1>2, JoinedNesting
<1>4. \A X \in Stacks : Alternates(X) => IsNesting(X)
  BY DEF IsNesting
<1>5. \A m \in Seq(A) : Len(m) \in Nat
  OBVIOUS
<1>6. ASSUME NEW o \in Seq(A), NEW c \in Seq(A), NEW X \in Stacks, Alternates(X), Nest(S, o) = X,
             NEW Y \in Stacks, Alternates(Y), Nest(X, span) = Y
      PROVE  o \o span \o c \in Seq(A) /\ Nest(S, o \o span \o c) = Nest(Y, c)
  <2> DEFINE front == o \o span
  <2>1. front \in Seq(A) /\ front \o c \in Seq(A)
    OBVIOUS
  <2>2. Nest(S, front) = Y
    BY <1>4, <1>6, NestJoined
  <2> HIDE DEF front
  <2>3. Nest(S, front \o c) = Nest(Y, c)
    BY <1>4, <2>1, <2>2, NestJoined
  <2> QED BY <2>1, <2>3 DEF front
<1>7. CASE ClassifyInlineSafety(span) = "safe"
  <2>1. PICK o, c : /\ o \in Seq(A) /\ c \in Seq(A) /\ Nest(<<>>, o) = Bracket /\ Nest(Bracket, c) = <<>>
                    /\ EmitChange(span, kind, style) = o \o span \o c
    <3>1. EmitChange(span, kind, style) = IF kind = "insert" THEN style.insertOpen \o span \o style.insertClose
                                                             ELSE style.deleteOpen \o span \o style.deleteClose
      BY <1>7 DEF EmitChange, WrapChange
    <3> QED BY <3>1 DEF StyleNests, Bracket
  <2>2. Nest(S, o) = S \o Bracket
    <3>1. Nest(S \o <<>>, o) = S \o Nest(<<>>, o)
      BY <1>2, <1>5, <2>1, NestLifts
    <3> QED BY <1>1, <2>1, <3>1
  <2>3. Nest(<<>>, span) = <<>>
    BY <1>5, <1>7, SafeSpanNests
  <2>4. \A X \in Stacks : Alternates(X) => Nest(X, span) = X
    <3> SUFFICES ASSUME NEW X \in Stacks, Alternates(X) PROVE Nest(X, span) = X
      OBVIOUS
    <3>1. Nest(X \o <<>>, span) = X \o Nest(<<>>, span)
      BY <1>2, <1>5, <2>3, NestLifts
    <3> QED BY <1>1, <2>3, <3>1
  <2>5. Nest(S \o Bracket, c) = S
    <3>1. Nest(S \o Bracket, c) = S \o Nest(Bracket, c)
      BY <1>2, <1>5, <2>1, NestLifts
    <3> QED BY <1>1, <2>1, <3>1
  <2>6. o \o span \o c \in Seq(A) /\ Nest(S, o \o span \o c) = Nest(S \o Bracket, c)
    <3>1. Nest(S \o Bracket, span) = S \o Bracket
      BY <1>3, <2>4
    <3> DEFINE X == S \o Bracket
    <3>2. X \in Stacks /\ Alternates(X) /\ Nest(S, o) = X /\ Nest(X, span) = X
      BY <1>3, <2>2, <3>1
    <3> HIDE DEF X
    <3>3. o \o span \o c \in Seq(A) /\ Nest(S, o \o span \o c) = Nest(X, c)
      BY <1>6, <2>1, <3>2
    <3> QED BY <3>3 DEF X
  <2> QED BY <2>1, <2>4, <2>5, <2>6
<1>8. CASE ClassifyInlineSafety(span) # "safe"
  <2> DEFINE o == style.replacedOpen
             c == style.replacedClose
             Y == Nest(S, span)
  <2>1. EmitChange(span, kind, style) = o \o span \o c /\ o \in Seq(A) /\ c \in Seq(A)
    BY <1>8 DEF EmitChange
  <2>2. Nest(<<>>, o) = <<>> /\ Nest(<<>>, c) = <<>>
    BY DEF StyleNests, Nested
  <2> HIDE DEF o, c, Y
  <2>3. Y \in Stacks /\ Alternates(Y)
    <3>1. IsNesting(Y)
      <4>1. <<>> \in Seq(A) /\ IsNesting(S)
        BY <1>4
      <4> QED BY <4>1, NestJoined DEF Y
    <3> QED BY <3>1 DEF IsNesting, Y
  <2>4. \A X \in Stacks : Alternates(X) => Nest(X, o) = X /\ Nest(X, c) = X
    <3> SUFFICES ASSUME NEW X \in Stacks, Alternates(X) PROVE Nest(X, o) = X /\ Nest(X, c) = X
      OBVIOUS
    <3>1. Nest(X \o <<>>, o) = X \o Nest(<<>>, o) /\ Nest(X \o <<>>, c) = X \o Nest(<<>>, c)
      BY <1>2, <1>5, <2>1, <2>2, NestLifts
    <3> QED BY <1>1, <2>2, <3>1
  <2>5. Nest(S, o) = S /\ Nest(Y, c) = Y /\ Nest(S, span) = Y
    BY <2>3, <2>4 DEF Y
  <2>6. o \o span \o c \in Seq(A) /\ Nest(S, o \o span \o c) = Nest(Y, c)
    BY <1>6, <2>1, <2>3, <2>5
  <2> QED BY <2>1, <2>5, <2>6
<1> QED BY <1>7, <1>8

-----------------------------------------------------------------------------
(* The characters that a redline keeps. *)

LEMMA TakingSteps ==
    ASSUME NEW t0, Len(t0) \in Nat, NEW t, Len(t) \in Nat, NEW m \in 0 .. Len(t0)
    PROVE  LET K == Taking(t0, m, t)
           IN  /\ K[0] = m /\ \A i \in 0 .. Len(t) : K[i] \in 0 .. Len(t0)
               /\ \A i \in 1 .. Len(t) : K[i] = Take(t0, K[i - 1], t[i])
<1> DEFINE n == Len(t)
           D == 0 .. Len(t0)
           F == [k \in 1 .. n |-> [d \in D |-> Take(t0, d, t[k])]]
           G == [k \in 0 .. n |-> D]
           Next(k, o) == IF k = 0 THEN m ELSE Take(t0, o[k - 1], t[k])
           taken[i \in 0 .. n] == IF i = 0 THEN m ELSE Take(t0, taken[i - 1], t[i])
<1>1. Taking(t0, m, t) = taken
  BY DEF Taking
<1>2. n \in Nat
  OBVIOUS
<1> HIDE DEF n
<1>3. m \in D /\ \A d \in D : \A c : Take(t0, d, c) \in D
  BY DEF Take
<1> HIDE DEF D
<1>4. m \in G[0] /\ \A k \in 1 .. n : \A d \in G[k - 1] : F[k][d] \in G[k]
  <2>1. m \in G[0]
    BY <1>2, <1>3
  <2>2. ASSUME NEW k \in 1 .. n, NEW d \in G[k - 1] PROVE F[k][d] \in G[k]
    <3>1. k - 1 \in 0 .. n /\ k \in 0 .. n
      BY <1>2
    <3>2. d \in D
      BY <3>1
    <3> QED BY <1>3, <3>1, <3>2
  <2> QED BY <2>1, <2>2
<1>5. PICK f : Iterated(n, m, F, f) /\ \A k \in 0 .. n : f[k] \in G[k]
  <2> HIDE DEF F, G
  <2> QED BY <1>2, <1>4, Iterates
<1>6. f = [k \in 0 .. n |-> f[k]] /\ f[0] = m /\ \A k \in 1 .. n : f[k] = F[k][f[k - 1]]
  <2> HIDE DEF F, G
  <2> QED BY <1>5, Zenon DEF Iterated
<1>7. \A k \in 0 .. n : f[k] \in D
  BY <1>5
<1>8. ASSUME NEW k \in 0 .. n PROVE f[k] = Next(k, f)
  <2>1. CASE k = 0
    BY <1>6, <2>1, Zenon
  <2>2. CASE k # 0
    <3>1. k \in 1 .. n /\ k - 1 \in 0 .. n
      BY <1>2, <2>2
    <3>2. f[k] = F[k][f[k - 1]] /\ f[k - 1] \in D
      <4> HIDE DEF F
      <4> QED BY <1>6, <1>7, <3>1, Zenon
    <3>3. F[k][f[k - 1]] = Take(t0, f[k - 1], t[k])
      BY <3>1, <3>2, Zenon
    <3> QED BY <2>2, <3>2, <3>3, Zenon
  <2> QED BY <2>1, <2>2
<1>9. f = [k \in 0 .. n |-> Next(k, f)]
  <2> HIDE DEF Next
  <2> QED BY <1>6, <1>8
<1>10. taken = [k \in 0 .. n |-> Next(k, taken)]
  <2>1. f = [k \in 0 .. n |-> IF k = 0 THEN m ELSE Take(t0, f[k - 1], t[k])]
    BY <1>9, Zenon
  <2>2. taken = [k \in 0 .. n |-> IF k = 0 THEN m ELSE Take(t0, taken[k - 1], t[k])]
    BY <2>1, Zenon
  <2> HIDE DEF taken
  <2> QED BY <2>2, Zenon
<1> HIDE DEF taken
<1> DEFINE T == {k \in 0 .. n : taken[k] \in D}
<1>11. \A k \in 0 .. n : taken[k] = Next(k, taken)
  <2> HIDE DEF Next
  <2> QED BY <1>10, Zenon
<1>12. taken[0] = m /\ 0 \in T
  <2>1. 0 \in 0 .. n
    BY <1>2
  <2> QED BY <1>3, <1>11, <2>1
<1>13. \A k \in 1 .. n : taken[k] = Take(t0, taken[k - 1], t[k])
  <2> TAKE k \in 1 .. n
  <2>1. k \in 0 .. n /\ k # 0
    BY <1>2
  <2> QED BY <1>11, <2>1
<1>14. ASSUME NEW k \in 1 .. n, k - 1 \in T PROVE k \in T
  <2>1. k \in 0 .. n /\ taken[k - 1] \in D
    BY <1>2, <1>14
  <2> QED BY <1>3, <1>13, <2>1
<1>15. \A k \in 0 .. n : k \in T
  <2> HIDE DEF T
  <2> QED BY <1>2, <1>12, <1>14, Counted
<1>16. \A k \in 0 .. n : taken[k] \in D
  BY <1>15
<1> QED BY <1>1, <1>12, <1>13, <1>16 DEF n, D

LEMMA TakenJoined ==
    ASSUME NEW t0, Len(t0) \in Nat, NEW A, NEW a \in Seq(A), NEW b \in Seq(A), NEW m \in 0 .. Len(t0)
    PROVE  Taken(t0, m, a) \in 0 .. Len(t0) /\ Taken(t0, m, a \o b) = Taken(t0, Taken(t0, m, a), b)
<1> DEFINE t == a \o b
           mid == Taken(t0, m, a)
           K == Taking(t0, m, t)
           P == Taking(t0, m, a)
           Q == Taking(t0, mid, b)
           T == {i \in 0 .. Len(a) : P[i] = K[i]}
           U == {j \in 0 .. Len(b) : Q[j] = K[Len(a) + j]}
<1>1. /\ Len(t) = Len(a) + Len(b) /\ Len(a) \in Nat /\ Len(b) \in Nat /\ Len(t) \in Nat
      /\ \A i \in 1 .. Len(a) : a[i] = t[i]
      /\ \A j \in 1 .. Len(b) : b[j] = t[Len(a) + j]
  OBVIOUS
<1> HIDE DEF t
<1>2. mid = P[Len(a)] /\ mid \in 0 .. Len(t0)
  <2>1. Len(a) \in 0 .. Len(a)
    BY <1>1
  <2> QED BY <1>1, <2>1, TakingSteps DEF Taken
<1> HIDE DEF mid
<1>3. /\ K[0] = m /\ \A i \in 1 .. Len(t) : K[i] = Take(t0, K[i - 1], t[i])
      /\ P[0] = m /\ \A i \in 1 .. Len(a) : P[i] = Take(t0, P[i - 1], a[i])
      /\ Q[0] = mid /\ \A i \in 1 .. Len(b) : Q[i] = Take(t0, Q[i - 1], b[i])
  <2>1. K[0] = m /\ \A i \in 1 .. Len(t) : K[i] = Take(t0, K[i - 1], t[i])
    <3>1. Len(t) \in Nat
      BY <1>1
    <3> HIDE DEF P, Q
    <3> QED BY ONLY <3>1, Len(t0) \in Nat, m \in 0 .. Len(t0), TakingSteps DEF K
  <2>2. P[0] = m /\ \A i \in 1 .. Len(a) : P[i] = Take(t0, P[i - 1], a[i])
    BY <1>1, TakingSteps
  <2>3. Q[0] = mid /\ \A i \in 1 .. Len(b) : Q[i] = Take(t0, Q[i - 1], b[i])
    BY <1>1, <1>2, TakingSteps
  <2> HIDE DEF K, P, Q
  <2> QED BY <2>1, <2>2, <2>3
<1> HIDE DEF K, P, Q
<1>4. \A i \in 0 .. Len(a) : i \in T
  <2>1. 0 \in T
    BY <1>1, <1>3
  <2>2. ASSUME NEW i \in 1 .. Len(a), i - 1 \in T PROVE i \in T
    <3>1. i \in 0 .. Len(a) /\ i \in 1 .. Len(t) /\ a[i] = t[i] /\ P[i - 1] = K[i - 1]
      BY <1>1, <2>2
    <3> QED BY <1>3, <3>1
  <2> HIDE DEF T
  <2> QED BY <1>1, <2>1, <2>2, Counted
<1>5. mid = K[Len(a)]
  <2>1. Len(a) \in T
    BY <1>1, <1>4
  <2> QED BY <1>2, <2>1
<1>6. \A j \in 0 .. Len(b) : j \in U
  <2>1. 0 \in U
    BY <1>1, <1>3, <1>5
  <2>2. ASSUME NEW j \in 1 .. Len(b), j - 1 \in U PROVE j \in U
    <3>1. /\ j \in 0 .. Len(b) /\ Len(a) + j \in 1 .. Len(t) /\ Len(a) + (j - 1) = (Len(a) + j) - 1
          /\ b[j] = t[Len(a) + j] /\ Q[j - 1] = K[(Len(a) + j) - 1]
      BY <1>1, <2>2
    <3>2. K[Len(a) + j] = Take(t0, K[(Len(a) + j) - 1], t[Len(a) + j])
      BY <1>3, <3>1
    <3> QED BY <1>3, <3>1, <3>2
  <2> HIDE DEF U
  <2> QED BY <1>1, <2>1, <2>2, Counted
<1>7. Q[Len(b)] = K[Len(t)]
  <2>1. Len(b) \in U
    BY <1>1, <1>6
  <2> QED BY <1>1, <2>1
<1> QED BY <1>2, <1>7 DEF Taken, t, mid, K, Q

(* What was seen stays seen, and a part of the text is seen to its end if  *)
(* it was seen to its start.                                               *)
LEMMA TakenRises ==
    ASSUME NEW t0, Len(t0) \in Nat, NEW t, Len(t) \in Nat, NEW m \in 0 .. Len(t0)
    PROVE  /\ Taken(t0, m, t) \in m .. Len(t0)
           /\ \A s \in 0 .. m : PartOf(t, t0, s) => s + Len(t) <= Taken(t0, m, t)
<1> DEFINE K == Taking(t0, m, t)
           n == Len(t)
<1>1. /\ K[0] = m /\ \A i \in 0 .. n : K[i] \in 0 .. Len(t0)
      /\ \A i \in 1 .. n : K[i] = Take(t0, K[i - 1], t[i])
  BY TakingSteps
<1>2. n \in Nat /\ Taken(t0, m, t) = K[n]
  BY DEF Taken
<1> HIDE DEF K, n
<1> DEFINE T == {i \in 0 .. n : m <= K[i]}
<1>3. \A i \in 0 .. n : i \in T
  <2>1. 0 \in T
    BY <1>1, <1>2
  <2>2. ASSUME NEW i \in 1 .. n, i - 1 \in T PROVE i \in T
    <3>1. i \in 0 .. n /\ i - 1 \in 0 .. n /\ m <= K[i - 1]
      BY <1>2, <2>2
    <3>2. K[i] \in {K[i - 1], K[i - 1] + 1}
      BY <1>1 DEF Take
    <3> QED BY <1>1, <3>1, <3>2
  <2> HIDE DEF T
  <2> QED BY <1>2, <2>1, <2>2, Counted
<1>4. Taken(t0, m, t) \in m .. Len(t0)
  <2>1. n \in 0 .. n
    BY <1>2
  <2> QED BY <1>1, <1>2, <1>3, <2>1
<1>5. ASSUME NEW s \in 0 .. m, PartOf(t, t0, s) PROVE s + n <= K[n]
  <2> DEFINE U == {i \in 0 .. n : s + i <= K[i]}
  <2>1. s + n <= Len(t0) /\ \A i \in 1 .. n : t[i] = t0[s + i]
    BY <1>5 DEF PartOf, n
  <2>2. 0 \in U
    BY <1>1, <1>2
  <2>3. ASSUME NEW i \in 1 .. n, i - 1 \in U PROVE i \in U
    <3>1. i \in 0 .. n /\ i - 1 \in 0 .. n /\ s + (i - 1) <= K[i - 1] /\ K[i - 1] \in 0 .. Len(t0)
      BY <1>1, <1>2, <2>3
    <3>2. K[i] = Take(t0, K[i - 1], t[i]) /\ K[i] \in {K[i - 1], K[i - 1] + 1} /\ t[i] = t0[s + i]
      BY <1>1, <2>1 DEF Take
    <3>3. CASE K[i - 1] = s + (i - 1)
      <4>1. K[i - 1] < Len(t0) /\ K[i - 1] + 1 = s + i
        BY <1>2, <2>1, <3>1, <3>3
      <4>2. K[i] = K[i - 1] + 1
        BY <3>2, <4>1 DEF Take
      <4> QED BY <3>1, <4>1, <4>2
    <3>4. CASE K[i - 1] # s + (i - 1)
      BY <3>1, <3>2, <3>4
    <3> QED BY <3>3, <3>4
  <2>4. \A i \in 0 .. n : i \in U
    <3> HIDE DEF U
    <3> QED BY <1>2, <2>2, <2>3, Counted
  <2>5. n \in U
    BY <1>2, <2>4
  <2> QED BY <2>5
<1> QED BY <1>2, <1>4, <1>5 DEF n

-----------------------------------------------------------------------------
(* The scan. *)

PiecesIn(style, A) ==
    \A m \in {style.insertOpen, style.insertClose, style.deleteOpen, style.deleteClose,
              style.replacedOpen, style.replacedClose} : m \in Seq(A)

LEMMA ChangeNests ==
    ASSUME NEW A, NEW style, NEW span \in Seq(A), NEW kind, StyleNests(style), PiecesIn(style, A),
           NEW S \in Stacks, Alternates(S), Nest(S, span) # Broken
    PROVE  Nest(S, EmitChange(span, kind, style)) = Nest(S, span)
BY EmitNests DEF PiecesIn

(* What the scan has written stands for the first s characters. *)
Renders(t0, style, A, out, s) ==
    /\ out \in Seq(A)
    /\ Taken(t0, 0, out) \in s .. Len(t0)
    /\ Nested(t0) /\ StyleNests(style) => Nest(<<>>, out) = Nesting(<<>>, t0)[s]

Emitted(span, kind, style) == IF kind = "plain" THEN span ELSE EmitChange(span, kind, style)

LEMMA EmptyNests == IsNesting(<<>>) /\ <<>> \in Stacks /\ Alternates(<<>>)
<1>1. <<>> \in Stacks
  BY DEF Stacks
<1>2. Alternates(<<>>)
  BY DEF Alternates
<1> QED BY <1>1, <1>2 DEF IsNesting

Around(span, more, A) == \E o, c \in Seq(A) : more = (o \o span) \o c

(* Whatever is written, the span is in it. *)
LEMMA EmitKeeps ==
    ASSUME NEW A, NEW style, PiecesIn(style, A), NEW span \in Seq(A), NEW kind
    PROVE  Around(span, Emitted(span, kind, style), A)
<1>1. CASE kind = "plain"
  <2>1. <<>> \in Seq(A) /\ (<<>> \o span) \o <<>> = span
    BY ConcatEmptySeq
  <2>2. Emitted(span, kind, style) = span
    BY <1>1 DEF Emitted
  <2> QED BY <2>1, <2>2 DEF Around
<1>2. CASE kind # "plain"
  <2>1. Emitted(span, kind, style) = EmitChange(span, kind, style)
    BY <1>2 DEF Emitted
  <2> QED BY <2>1 DEF EmitChange, WrapChange, PiecesIn, Around
<1> QED BY <1>1, <1>2

(* Writing a run whose text is next. *)
LEMMA FlushRenders ==
    ASSUME NEW A, NEW t0 \in Seq(A), NEW style, PiecesIn(style, A), NEW out, NEW kind,
           NEW s \in Nat, NEW i \in Nat, s <= i, i <= Len(t0), Renders(t0, style, A, out, s)
    PROVE  Renders(t0, style, A, out \o Emitted(SubSeq(t0, s + 1, i), kind, style), i)
<1>01. Len(t0) \in Nat /\ 0 \in 0 .. Len(t0) /\ \A u \in Seq(A) : Len(u) \in Nat
  OBVIOUS
<1>02. \A x \in 0 .. Len(t0), u \in Seq(A) :
         /\ Taken(t0, x, u) \in x .. Len(t0)
         /\ \A j \in 0 .. x : PartOf(u, t0, j) => j + Len(u) <= Taken(t0, x, u)
  BY <1>01, TakenRises
<1>03. \A x \in 0 .. Len(t0), u \in Seq(A), v \in Seq(A) : Taken(t0, x, u \o v) = Taken(t0, Taken(t0, x, u), v)
  BY <1>01, TakenJoined
<1> DEFINE span == SubSeq(t0, s + 1, i)
           more == Emitted(span, kind, style)
           n == Len(t0)
<1>1. span \in Seq(A) /\ Len(span) = i - s /\ (\A k \in 1 .. Len(span) : span[k] = t0[s + k]) /\ n \in Nat
  OBVIOUS
<1>2. PartOf(span, t0, s)
  BY <1>1 DEF PartOf
<1>3. Nest(Nesting(<<>>, t0)[s], span) = Nesting(<<>>, t0)[i]
  BY EmptyNests, NestPart
<1> HIDE DEF span, n
<1>4. PICK o, c \in Seq(A) : more = (o \o span) \o c
  <2>1. Around(span, more, A)
    BY <1>1, EmitKeeps
  <2> QED BY <2>1 DEF Around
<1> DEFINE front == o \o span
<1>5. front \in Seq(A) /\ more \in Seq(A) /\ more = front \o c
  BY <1>1, <1>4
<1> HIDE DEF more
<1>6. out \in Seq(A) /\ out \o more \in Seq(A)
  BY <1>5 DEF Renders
<1>7. Taken(t0, 0, out \o more) \in i .. Len(t0)
  <2> DEFINE x == Taken(t0, 0, out)
             y == Taken(t0, x, o)
             z == Taken(t0, y, span)
  <2>1. x \in s .. Len(t0) /\ x \in 0 .. Len(t0) /\ s \in 0 .. x
    BY <1>01 DEF Renders
  <2>2. Taken(t0, 0, out \o more) = Taken(t0, x, more)
    <3>1. 0 \in 0 .. Len(t0) /\ out \in Seq(A) /\ more \in Seq(A)
      BY <1>01, <1>5, <1>6
    <3> QED BY <1>03, <3>1, Zenon
  <2> HIDE DEF x
  <2>3. y \in x .. Len(t0) /\ y \in 0 .. Len(t0) /\ s \in 0 .. y
    <3>1. y \in x .. Len(t0)
      BY <1>02, <2>1
    <3> HIDE DEF y
    <3> QED BY <1>01, <2>1, <3>1
  <2>4. Taken(t0, x, front) = Taken(t0, y, span)
    BY <1>1, <1>03, <2>1
  <2> HIDE DEF y, front
  <2>5. z \in y .. Len(t0) /\ z \in 0 .. Len(t0) /\ i <= z
    <3>1. z \in y .. Len(t0) /\ s + Len(span) <= z
      BY <1>1, <1>2, <1>02, <2>3
    <3> HIDE DEF z
    <3> QED BY <1>1, <1>01, <2>3, <3>1
  <2>6. Taken(t0, x, more) = Taken(t0, z, c)
    BY <1>03, <1>4, <1>5, <2>1, <2>4
  <2> HIDE DEF z
  <2>7. Taken(t0, z, c) \in z .. Len(t0)
    BY <1>02, <2>5
  <2> QED BY <1>01, <2>2, <2>5, <2>6, <2>7
<1>8. ASSUME Nested(t0), StyleNests(style) PROVE Nest(<<>>, out \o more) = Nesting(<<>>, t0)[i]
  <2> DEFINE S == Nesting(<<>>, t0)[s]
  <2>1. Nest(<<>>, t0) # Broken
    <3>1. <<>> # Broken
      BY EmptyNests, BrokenIsNoStack
    <3> QED BY <1>8, <3>1 DEF Nested
  <2>2. \A k \in 0 .. n : Nesting(<<>>, t0)[k] # Broken /\ IsNesting(Nesting(<<>>, t0)[k])
    BY <1>1, <2>1, EmptyNests, NeverBroken, NestingSteps DEF n
  <2>3. S \in Stacks /\ Alternates(S) /\ Nest(S, span) # Broken
    <3>1. s \in 0 .. n /\ i \in 0 .. n
      BY <1>1 DEF n
    <3>2. IsNesting(S) /\ S # Broken /\ Nesting(<<>>, t0)[i] # Broken
      BY <2>2, <3>1
    <3> QED BY <1>3, <3>2 DEF IsNesting
  <2>4. Nest(<<>>, out) = S
    BY <1>8 DEF Renders
  <2> HIDE DEF S
  <2>5. Nest(S, more) = Nest(S, span)
    <3>1. CASE kind = "plain"
      BY <3>1 DEF Emitted, more
    <3>2. CASE kind # "plain"
      <4>1. more = EmitChange(span, kind, style)
        BY <3>2 DEF Emitted, more
      <4>2. Nest(S, EmitChange(span, kind, style)) = Nest(S, span)
        BY <1>1, <1>8, <2>3, ChangeNests
      <4> QED BY <4>1, <4>2
    <3> QED BY <3>1, <3>2
  <2>6. Nest(<<>>, out \o more) = Nest(S, more)
    <3>1. out \in Seq(A) /\ more \in Seq(A) /\ IsNesting(<<>>)
      BY <1>5, <1>6, EmptyNests
    <3>2. Nest(<<>>, out \o more) = Nest(Nest(<<>>, out), more)
      BY <3>1, NestJoined
    <3> QED BY <2>4, <3>2, Zenon
  <2> QED BY <1>3, <2>5, <2>6 DEF S
<1> QED BY <1>6, <1>7, <1>8 DEF Renders, more, span

(* A redline keeps what it is of, and nests as it does. *)
LEMMA RedlineRenders ==
    ASSUME NEW A, NEW t0 \in Seq(A), NEW style, PiecesIn(style, A), NEW ms
    PROVE  Renders(t0, style, A, Redline(t0, ms, style), Len(t0))
<1> DEFINE n == Len(t0)
           flags == CharFlags(t0, ms)
           kind(i) == RunKind(flags[i - 1])
           emit(span, k) == IF k = "plain" THEN span ELSE EmitChange(span, k, style)
           flush(at, i) == at.out \o emit(SubSeq(t0, at.start + 1, i), kind(i))
           next(at, i) == IF kind(i) = kind(i - 1) THEN at ELSE [out |-> flush(at, i - 1), start |-> i - 1]
           none == [out |-> <<>>, start |-> 0]
           Next(i, o) == IF i = 1 THEN none ELSE next(o[i - 1], i)
           scan[i \in 1 .. n] == IF i = 1 THEN none ELSE next(scan[i - 1], i)
           Wanted(i) == {r \in [out : Seq(A), start : 0 .. i - 1] : Renders(t0, style, A, r.out, r.start)}
<1>1. Redline(t0, ms, style) = IF t0 = <<>> THEN <<>> ELSE flush(scan[n], n)
  BY DEF Redline
<1>2. n \in Nat /\ (t0 # <<>> <=> n # 0) /\ n = Len(t0)
  OBVIOUS
<1>3. Renders(t0, style, A, <<>>, 0)
  <2>1. <<>> \in Seq(A) /\ Len(<<>>) = 0 /\ 0 \in 0 .. Len(t0)
    BY <1>2
  <2>2. Nesting(<<>>, t0)[0] = <<>> /\ Nest(<<>>, <<>>) = <<>>
    BY <1>2, <2>1, EmptyNests, NestingSteps DEF Nest
  <2>3. Taken(t0, 0, <<>>) \in 0 .. Len(t0)
    BY <1>2, <2>1, TakenRises
  <2> QED BY <2>1, <2>2, <2>3 DEF Renders
<1>4. \A r \in Wanted(n) : Renders(t0, style, A, flush(r, n), n)
  <2> SUFFICES ASSUME NEW r \in Wanted(n) PROVE Renders(t0, style, A, flush(r, n), n)
    OBVIOUS
  <2> DEFINE s == r.start
             out == r.out
             k == kind(n)
  <2>1. s \in Nat /\ s <= n /\ Renders(t0, style, A, out, s)
    BY <1>2
  <2>2. flush(r, n) = out \o Emitted(SubSeq(t0, s + 1, n), k, style)
    BY DEF Emitted
  <2> HIDE DEF s, out, k, flush
  <2> QED BY <1>2, <2>1, <2>2, FlushRenders
<1>5. ASSUME NEW i \in 2 .. n, NEW r \in Wanted(i - 1) PROVE next(r, i) \in Wanted(i)
  <2> DEFINE s == r.start
             out == r.out
             k == kind(i - 1)
             more == flush(r, i - 1)
  <2>1. s \in Nat /\ s <= i - 1 /\ Renders(t0, style, A, out, s) /\ i - 1 \in Nat /\ i - 1 <= n
    BY <1>2
  <2>2. more = out \o Emitted(SubSeq(t0, s + 1, i - 1), k, style)
    BY DEF Emitted
  <2>3. r \in [out : Seq(A), start : 0 .. i - 1]
    OBVIOUS
  <2> HIDE DEF s, out, k, flush, more
  <2>4. Renders(t0, style, A, more, i - 1)
    BY <1>2, <2>1, <2>2, FlushRenders
  <2>5. CASE kind(i) = kind(i - 1)
    BY <2>1, <2>3, <2>5 DEF s, out
  <2>6. CASE kind(i) # kind(i - 1)
    <3> DEFINE w == [out |-> more, start |-> i - 1]
    <3>1. next(r, i) = w
      BY <2>6 DEF more
    <3>2. more \in Seq(A) /\ i - 1 \in 0 .. i - 1
      BY <2>1, <2>4 DEF Renders
    <3>3. w \in Wanted(i)
      BY <2>4, <3>2
    <3> QED BY <3>1, <3>3
  <2> QED BY <2>5, <2>6
<1>6. none \in [out : Seq(A), start : 0 .. 0] /\ none \in Wanted(1)
  BY <1>3
<1> HIDE DEF none, next, Wanted, n
<1>7. CASE n # 0
  <2> DEFINE G == [k \in 0 .. n |-> IF k = 0 THEN {none} ELSE Wanted(k)]
             F == [k \in 1 .. n |-> [r \in G[k - 1] |-> IF k = 1 THEN none ELSE next(r, k)]]
  <2>1. none \in G[0] /\ \A k \in 1 .. n : \A d \in G[k - 1] : F[k][d] \in G[k]
    <3>1. none \in G[0]
      BY <1>2
    <3>2. ASSUME NEW k \in 1 .. n, NEW d \in G[k - 1] PROVE F[k][d] \in G[k]
      <4>1. k - 1 \in 0 .. n /\ k \in 0 .. n /\ G[k] = Wanted(k)
        BY <1>2
      <4>2. F[k][d] = IF k = 1 THEN none ELSE next(d, k)
        OBVIOUS
      <4>3. CASE k = 1
        BY <1>6, <4>1, <4>2, <4>3
      <4>4. CASE k # 1
        <5>1. k \in 2 .. n /\ d \in Wanted(k - 1)
          BY <1>2, <4>1, <4>4
        <5>2. next(d, k) \in Wanted(k)
          BY <1>5, <5>1
        <5> QED BY <4>1, <4>2, <4>4, <5>2
      <4> QED BY <4>3, <4>4
    <3> QED BY <3>1, <3>2
  <2>2. PICK f : Iterated(n, none, F, f) /\ \A k \in 0 .. n : f[k] \in G[k]
    <3> HIDE DEF F, G
    <3> QED BY <1>2, <2>1, Iterates
  <2>3. \A k \in 1 .. n : f[k] = F[k][f[k - 1]]
    <3> HIDE DEF F, G
    <3> QED BY <2>2, Zenon DEF Iterated
  <2>4. \A k \in 0 .. n : f[k] \in G[k]
    BY <2>2
  <2> DEFINE h == [k \in 1 .. n |-> f[k]]
  <2>5. ASSUME NEW k \in 1 .. n PROVE h[k] = Next(k, h)
    <3>1. k - 1 \in 0 .. n /\ h[k] = f[k] /\ f[k - 1] \in G[k - 1]
      BY <1>2, <2>4
    <3>2. F[k][f[k - 1]] = IF k = 1 THEN none ELSE next(f[k - 1], k)
      <4> HIDE DEF G, h
      <4> QED BY <3>1, Zenon
    <3>3. k # 1 => h[k - 1] = f[k - 1]
      <4>1. k # 1 => k - 1 \in 1 .. n
        BY <1>2
      <4> QED BY <4>1
    <3> HIDE DEF F, G, h
    <3> QED BY <2>3, <3>1, <3>2, <3>3, Zenon
  <2>6. h = [k \in 1 .. n |-> Next(k, h)]
    <3>1. h = [k \in 1 .. n |-> h[k]]
      OBVIOUS
    <3> HIDE DEF Next, h
    <3> QED BY <2>5, <3>1
  <2>7. scan = [k \in 1 .. n |-> Next(k, scan)]
    <3> HIDE DEF h
    <3>1. h = [k \in 1 .. n |-> IF k = 1 THEN none ELSE next(h[k - 1], k)]
      BY <2>6, Zenon
    <3>2. scan = [k \in 1 .. n |-> IF k = 1 THEN none ELSE next(scan[k - 1], k)]
      BY <3>1, Zenon
    <3> HIDE DEF scan
    <3> QED BY <3>2, Zenon
  <2> HIDE DEF scan
  <2> DEFINE T == {k \in 0 .. n : k = 0 \/ scan[k] \in Wanted(k)}
  <2>8. \A k \in 1 .. n : scan[k] = Next(k, scan)
    <3> HIDE DEF Next
    <3> QED BY <2>7, Zenon
  <2>9. ASSUME NEW k \in 1 .. n, k - 1 \in T PROVE k \in T
    <3>1. k \in 0 .. n
      BY <1>2
    <3>2. CASE k = 1
      BY <1>6, <2>8, <3>1, <3>2
    <3>3. CASE k # 1
      <4>1. k \in 2 .. n /\ scan[k - 1] \in Wanted(k - 1) /\ scan[k] = next(scan[k - 1], k)
        BY <1>2, <2>8, <2>9, <3>3
      <4> DEFINE r == scan[k - 1]
      <4>2. r \in Wanted(k - 1) /\ scan[k] = next(r, k)
        BY <4>1
      <4> HIDE DEF r
      <4>3. next(r, k) \in Wanted(k)
        BY <1>5, <4>1, <4>2
      <4> QED BY <3>1, <4>2, <4>3
    <3> QED BY <3>2, <3>3
  <2>10. \A k \in 0 .. n : k \in T
    <3>1. 0 \in T
      BY <1>2
    <3> HIDE DEF T
    <3> QED BY ONLY <1>2, <2>9, <3>1, Counted
  <2>11. scan[n] \in Wanted(n)
    BY <1>2, <1>7, <2>10
  <2> DEFINE r == scan[n]
  <2>12. r \in Wanted(n) /\ Redline(t0, ms, style) = flush(r, n)
    BY <1>1, <1>2, <1>7, <2>11
  <2> HIDE DEF r, flush
  <2> QED BY <1>2, <1>4, <2>12
<1>8. CASE n = 0
  BY <1>1, <1>2, <1>3, <1>8
<1> QED BY <1>7, <1>8

(* A redline keeps every character of the text in its order, and with markers   *)
(* that nest the redline of a text that nests does, whatever the marks cut      *)
(* apart (redline_with_report, classify_inline_safety, emit_change).            *)
THEOREM RedlinesAreSafe == LibrarySpec => []RedlineSafe
<1>1. LibraryInv => RedlineSafe
  <2> SUFFICES ASSUME LibraryInv, answer.op = "redline" PROVE RedlineSafe
    BY DEF RedlineSafe
  <2> DEFINE t == request.text
             style == request.style
             pieces == {style.insertOpen, style.insertClose, style.deleteOpen, style.deleteClose,
                        style.replacedOpen, style.replacedClose}
             A == Range(t) \cup UNION {Range(m) : m \in pieces}
  <2>1. IsSeq(t) /\ (\A m \in pieces : IsSeq(m)) /\ answer.text = Redline(t, request.marks, style)
    BY LibraryAssumption DEF LibraryInv
  <2> HIDE DEF t
  <2>2. t \in Seq(A)
    <3>1. t \in Seq(Range(t)) /\ Range(t) \subseteq A
      BY <2>1 DEF IsSeq
    <3> HIDE DEF A
    <3> QED BY <3>1
  <2>3. PiecesIn(style, A)
    <3> SUFFICES ASSUME NEW m \in pieces PROVE m \in Seq(A)
      BY DEF PiecesIn
    <3>1. m \in Seq(Range(m)) /\ Range(m) \subseteq A
      BY <2>1 DEF IsSeq
    <3> HIDE DEF A
    <3> QED BY <3>1
  <2> HIDE DEF A, style
  <2>4. Renders(t, style, A, answer.text, Len(t)) /\ Len(t) \in Nat
    BY <2>1, <2>2, <2>3, RedlineRenders
  <2>5. Taken(t, 0, answer.text) = Len(t)
    BY <2>4 DEF Renders
  <2>6. Nested(t) /\ StyleNests(style) => Nested(answer.text)
    BY <2>4 DEF Renders, Nested, Nest
  <2> QED BY <2>5, <2>6 DEF RedlineSafe, t, style
<1> QED BY <1>1, LibraryInvariant, PTL
=============================================================================
