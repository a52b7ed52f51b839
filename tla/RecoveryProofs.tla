-------------------------- MODULE RecoveryProofs ---------------------------
(***************************************************************************)
(* Proofs about FsOpLog and Recovery, for any records, sizes, misread      *)
(* headers, environment and calls of snapshot_now.  First the file: what   *)
(* read_records gives back of one that begins with whole records, and that *)
(* acknowledged records stay in that beginning.  Then the snapshots: that  *)
(* they are stages of one growing authority, of which latest picks the     *)
(* last, unless one that is there for good has a version ahead of its      *)
(* bytes.                                                                  *)
(***************************************************************************)
EXTENDS Recovery, TLAPS, SequenceTheorems, FiniteSetTheorems

Length(w) == Header + Size[w]

Cell == {c \in [of : Writers, at : Nat] : c.at \in 1 .. Length(c.of)}

Records == Seq(Seq(Cell))

-----------------------------------------------------------------------------
(* A set of numbers that is not empty has a least element. *)
LEMMA Least ==
    ASSUME NEW T \in SUBSET Nat, T # {}
    PROVE  \E x \in T : \A y \in T : x <= y
<1>1. \E R : IsWellFoundedOn(R, Nat) /\ \A a, b \in Nat : a < b => <<a, b>> \in R
  <2> DEFINE R == OpToRel(<, Nat)
  <2>1. IsWellFoundedOn(R, Nat)
    BY NatLessThanWellFounded, Zenon
  <2>2. \A a, b \in Nat : a < b => <<a, b>> \in R
    BY DEF OpToRel
  <2> HIDE DEF R
  <2> QED BY <2>1, <2>2
<1>2. PICK R : IsWellFoundedOn(R, Nat) /\ \A a, b \in Nat : a < b => <<a, b>> \in R
  BY <1>1
<1>3. T \subseteq Nat
  OBVIOUS
<1>4. \E x \in T : \A y \in T : ~ (<<y, x>> \in R)
  <2>1. IsWellFoundedOn(R, Nat)
    BY <1>2
  <2>2. T # {}
    OBVIOUS
  <2> HIDE <1>2
  <2> QED BY ONLY <2>1, <2>2, <1>3, WFMin
<1>5. PICK x \in T : \A y \in T : ~ (<<y, x>> \in R)
  BY <1>4
<1>6. ASSUME NEW y \in T PROVE x <= y
  <2>1. ~(y < x)
    BY <1>2, <1>3, <1>5, Zenon
  <2> QED BY <2>1, <1>3
<1> QED BY <1>6

(* Induction downwards from n: what holds of a position when it holds of all *)
(* later ones holds of all.                                                  *)
LEMMA Downwards ==
    ASSUME NEW n \in Nat, NEW S,
           \A p \in 1 .. n : (\A q \in (p + 1) .. n : q \in S) => p \in S
    PROVE  \A p \in 1 .. n : p \in S
<1> DEFINE T == {k \in 0 .. n : n - k \in 1 .. n /\ n - k \notin S}
<1> SUFFICES ASSUME NEW p \in 1 .. n, p \notin S PROVE FALSE
  OBVIOUS
<1>2. n - p \in T /\ T \in SUBSET Nat
  OBVIOUS
<1>3. PICK k \in T : \A j \in T : k <= j
  BY <1>2, Least
<1>4. \A q \in (n - k + 1) .. n : q \in S
  <2> SUFFICES ASSUME NEW q \in (n - k + 1) .. n, q \notin S PROVE FALSE
    OBVIOUS
  <2>1. n - q \in T /\ n - q < k
    BY <1>3
  <2> QED BY <1>3, <2>1
<1> QED BY <1>3, <1>4

(* Induction upwards from 1. *)
LEMMA Upwards ==
    ASSUME NEW n \in Nat, NEW S,
           \A p \in 1 .. n : (\A q \in 1 .. (p - 1) : q \in S) => p \in S
    PROVE  \A p \in 1 .. n : p \in S
<1> DEFINE T == {k \in 1 .. n : k \notin S}
<1>1. SUFFICES ASSUME T # {} PROVE FALSE
  OBVIOUS
<1>2. T \in SUBSET Nat
  OBVIOUS
<1>3. PICK k \in T : \A j \in T : k <= j
  BY <1>1, <1>2, Least
<1>4. \A q \in 1 .. (k - 1) : q \in S
  BY <1>3
<1> QED BY <1>3, <1>4

-----------------------------------------------------------------------------
(* k elements of a sequence, from m on. *)
LEMMA Piece ==
    ASSUME NEW S, NEW s, NEW m \in Nat, NEW k \in Nat,
           \A i \in m .. (m + k - 1) : s[i] \in S
    PROVE  /\ SubSeq(s, m, m + k - 1) \in Seq(S)
           /\ Len(SubSeq(s, m, m + k - 1)) = k
           /\ \A i \in 1 .. k : SubSeq(s, m, m + k - 1)[i] = s[m + i - 1]
<1> DEFINE n == m + k - 1
<1>1. m \in Int /\ n \in Int /\ n - m + 1 = k /\ (m <= n <=> k > 0)
  OBVIOUS
<1> HIDE DEF n
<1>2. \A i \in m .. n : s[i] \in S
  BY DEF n
<1>3. /\ SubSeq(s, m, n) \in Seq(S)
      /\ Len(SubSeq(s, m, n)) = IF m <= n THEN n - m + 1 ELSE 0
      /\ \A i \in 1 .. n - m + 1 : SubSeq(s, m, n)[i] = s[m + i - 1]
  BY <1>1, <1>2, SubSeqProperties
<1>4. Len(SubSeq(s, m, n)) = k
  BY <1>1, <1>3
<1>5. \A i \in 1 .. k : SubSeq(s, m, n)[i] = s[m + i - 1]
  BY <1>1, <1>3
<1> QED BY <1>3, <1>4, <1>5 DEF n

(* What a read gives from position p on, if g says what it gives later. *)
ParseAt(f, p, g) ==
    IF Stops(f, p) THEN << >>
    ELSE <<SubSeq(f, p + Header, NextHeader(f, p) - 1)>> \o g[NextHeader(f, p)]

Parses(f, p, g) ==
    /\ g \in [p .. (Len(f) + 1) -> Records]
    /\ \A q \in p .. (Len(f) + 1) : g[q] = ParseAt(f, q, g)

(* A read moves forward, and its records are made of the file's cells. *)
LEMMA ParseStep ==
    ASSUME NEW f \in Seq(Cell), NEW p \in 1 .. (Len(f) + 1), ~Stops(f, p)
    PROVE  /\ NextHeader(f, p) \in (p + 1) .. (Len(f) + 1)
           /\ SubSeq(f, p + Header, NextHeader(f, p) - 1) \in Seq(Cell)
<1>1. Decode(f, p) \in Nat
  <2>1. f[p] \in Cell
    BY LenProperties DEF Stops, Header
  <2> QED BY <2>1, FsAssumption DEF Decode, Cell
<1>2. NextHeader(f, p) \in (p + 1) .. (Len(f) + 1)
  BY <1>1, LenProperties DEF NextHeader, Stops, Header
<1>3. \A i \in (p + Header) .. (NextHeader(f, p) - 1) : f[i] \in Cell
  BY <1>2, LenProperties DEF Header
<1>4. SubSeq(f, p + Header, NextHeader(f, p) - 1) \in Seq(Cell)
  BY <1>2, <1>3, SubSeqProperties DEF Header
<1> QED BY <1>2, <1>4

LEMMA ParseTyped ==
    ASSUME NEW f \in Seq(Cell), NEW p \in 1 .. (Len(f) + 1), NEW g,
           \A q \in (p + 1) .. (Len(f) + 1) : g[q] \in Records
    PROVE  ParseAt(f, p, g) \in Records
<1>1. CASE Stops(f, p)
  BY <1>1, EmptySeq DEF ParseAt, Records
<1>2. CASE ~Stops(f, p)
  <2> DEFINE r == SubSeq(f, p + Header, NextHeader(f, p) - 1)
             rest == g[NextHeader(f, p)]
  <2>1. r \in Seq(Cell) /\ rest \in Seq(Seq(Cell))
    BY <1>2, ParseStep DEF Records
  <2> HIDE DEF r, rest
  <2>2. <<r>> \in Seq(Seq(Cell))
    BY <2>1
  <2>3. <<r>> \o rest \in Seq(Seq(Cell))
    BY <2>1, <2>2, ConcatProperties
  <2> QED BY <1>2, <2>3 DEF ParseAt, r, rest, Records
<1> QED BY <1>1, <1>2

(* There is a reading of every file from every position. *)
LEMMA ParseExists ==
    ASSUME NEW f \in Seq(Cell)
    PROVE  \E g : Parses(f, 1, g)
<1> DEFINE N == Len(f) + 1
           S == {p \in 1 .. N : \E g : Parses(f, p, g)}
<1>0. N \in Nat /\ N >= 1 /\ N = Len(f) + 1
  BY LenProperties
<1> HIDE DEF N
<1>1. ASSUME NEW p \in 1 .. N, \A q \in (p + 1) .. N : q \in S
      PROVE  p \in S
  <2>1. PICK h : \A q \in (p + 1) .. N : h[q] \in Records /\ h[q] = ParseAt(f, q, h)
    <3>1. CASE p = N
      BY <1>0, <3>1
    <3>2. CASE p < N
      <4>1. p + 1 \in S
        BY <1>0, <1>1, <3>2
      <4>2. PICK h : Parses(f, p + 1, h)
        BY <4>1
      <4> QED BY <1>0, <4>2 DEF Parses
    <3> QED BY <1>0, <3>1, <3>2
  <2> DEFINE g == [q \in p .. N |-> ParseAt(f, q, h)]
  <2>2. ASSUME NEW q \in p .. N PROVE ParseAt(f, q, h) \in Records
    BY <1>0, <2>1, ParseTyped
  <2>3. ASSUME NEW q \in p .. N PROVE g[q] = ParseAt(f, q, g)
    <3>1. CASE Stops(f, q)
      BY <3>1 DEF ParseAt
    <3>2. CASE ~Stops(f, q)
      <4>1. NextHeader(f, q) \in (p + 1) .. N
        BY <1>0, <3>2, ParseStep
      <4>2. g[NextHeader(f, q)] = h[NextHeader(f, q)]
        BY <1>0, <2>1, <4>1
      <4> QED BY <3>2, <4>2 DEF ParseAt
    <3> QED BY <3>1, <3>2
  <2>4. g \in [p .. N -> Records]
    BY <2>2
  <2> HIDE DEF g
  <2>5. Parses(f, p, g)
    BY <1>0, <2>3, <2>4 DEF Parses
  <2> QED BY <2>5
<1>2. \A p \in 1 .. N : p \in S
  <2> HIDE DEF S
  <2> QED BY <1>0, <1>1, Downwards
<1> QED BY <1>0, <1>2

(* read_records is that reading. *)
LEMMA ReadsParse ==
    ASSUME NEW f \in Seq(Cell)
    PROVE  \E g : Parses(f, 1, g) /\ ReadRecords(f) = g[1]
<1> DEFINE N == Len(f) + 1
           from[p \in 1 .. (Len(f) + 1)] ==
               IF Stops(f, p) THEN << >>
               ELSE <<SubSeq(f, p + Header, NextHeader(f, p) - 1)>> \o from[NextHeader(f, p)]
<1>0. N \in Nat /\ N >= 1 /\ N = Len(f) + 1
  BY LenProperties
<1>1. ReadRecords(f) = from[1]
  BY DEF ReadRecords
<1>2. PICK g : Parses(f, 1, g)
  BY ParseExists
<1>3. g = [p \in 1 .. (Len(f) + 1) |->
             IF Stops(f, p) THEN << >>
             ELSE <<SubSeq(f, p + Header, NextHeader(f, p) - 1)>> \o g[NextHeader(f, p)]]
  BY <1>2 DEF Parses, ParseAt
<1>4. from = [p \in 1 .. (Len(f) + 1) |->
                IF Stops(f, p) THEN << >>
                ELSE <<SubSeq(f, p + Header, NextHeader(f, p) - 1)>> \o from[NextHeader(f, p)]]
  BY <1>3, Zenon
<1> HIDE DEF from, N
<1>5. \A p \in 1 .. N : from[p] = ParseAt(f, p, from)
  BY <1>0, <1>4 DEF ParseAt
<1> DEFINE S == {p \in 1 .. N : from[p] = g[p]}
<1>6. ASSUME NEW p \in 1 .. N, \A q \in (p + 1) .. N : q \in S
      PROVE  p \in S
  <2>1. g[p] = ParseAt(f, p, g) /\ from[p] = ParseAt(f, p, from)
    BY <1>0, <1>2, <1>5 DEF Parses
  <2>2. CASE Stops(f, p)
    BY <2>1, <2>2 DEF ParseAt
  <2>3. CASE ~Stops(f, p)
    <3>1. NextHeader(f, p) \in (p + 1) .. N
      BY <1>0, <2>3, ParseStep
    <3> QED BY <1>6, <2>1, <2>3, <3>1 DEF ParseAt
  <2> QED BY <2>2, <2>3
<1>7. \A p \in 1 .. N : p \in S
  <2> HIDE DEF S
  <2> QED BY <1>0, <1>6, Downwards
<1>8. from[1] = g[1]
  BY <1>0, <1>7
<1> QED BY <1>1, <1>2, <1>8

-----------------------------------------------------------------------------
(* The record of w, whole, behind position s. *)
Holds(f, s, w) == \A k \in 1 .. Length(w) : f[s + k] = [of |-> w, at |-> k]

(* The first n cells are whole records. *)
Whole(f, n) ==
    \A i \in 1 .. n :
        /\ i - f[i].at >= 0 /\ i - f[i].at + Length(f[i].of) <= n
        /\ Holds(f, i - f[i].at, f[i].of)

(* n cells of a file are whole records, and one of these starts at p. *)
Prefix(f, n) == f \in Seq(Cell) /\ n \in Nat /\ n <= Len(f) /\ Whole(f, n)
AtStart(f, n, p) == p \in Nat /\ 1 <= p /\ p <= n /\ f[p].at = 1

LEMMA LengthType ==
    /\ \A w \in Writers : Size[w] \in 1 .. MaxUpdate /\ Length(w) \in Nat /\ Length(w) = Size[w] + 2
    /\ MaxUpdate \in Nat /\ Header = 2
BY FsAssumption DEF Length, Header

LEMMA CellsType ==
    ASSUME NEW w \in Writers
    PROVE  /\ Cells(w) \in Seq(Cell) /\ Len(Cells(w)) = Length(w)
           /\ \A k \in 1 .. Length(w) : Cells(w)[k] = [of |-> w, at |-> k]
           /\ Body(w) \in Seq(Cell) /\ Len(Body(w)) = Size[w]
           /\ \A k \in 1 .. Size[w] : Body(w)[k] = [of |-> w, at |-> k + Header]
<1>1. Cells(w) = [k \in 1 .. Length(w) |-> [of |-> w, at |-> k]]
  BY DEF Cells, Length
<1>2. Cells(w) \in [1 .. Length(w) -> Cell]
  BY <1>1 DEF Cell
<1>3. Cells(w) \in Seq(Cell) /\ Len(Cells(w)) = Length(w)
  BY <1>1, <1>2, LengthType
<1>4. \A k \in 1 .. Length(w) : Cells(w)[k] = [of |-> w, at |-> k]
  BY <1>1
<1>5. \A k \in (Header + 1) .. (Header + Size[w]) : Cells(w)[k] \in Cell
  BY <1>2, LengthType
<1> HIDE DEF Cells
<1>6. /\ Body(w) \in Seq(Cell)
      /\ Len(Body(w)) = Size[w]
      /\ \A k \in 1 .. Size[w] : Body(w)[k] = Cells(w)[Header + 1 + k - 1]
  <2>1. /\ Header + 1 \in Nat /\ Size[w] \in Nat
        /\ Header + Size[w] = Header + 1 + Size[w] - 1
    BY LengthType
  <2>2. Body(w) = SubSeq(Cells(w), Header + 1, Header + 1 + Size[w] - 1)
    BY <2>1 DEF Body
  <2>3. \A k \in (Header + 1) .. (Header + 1 + Size[w] - 1) : Cells(w)[k] \in Cell
    BY <1>5, <2>1
  <2> DEFINE m == Header + 1
             k == Size[w]
             s == Cells(w)
             S == Cell
  <2>4. Body(w) = SubSeq(s, m, m + k - 1)
    BY <2>2
  <2>t. m \in Nat /\ k \in Nat
    BY <2>1
  <2>e. \A i \in m .. (m + k - 1) : s[i] \in S
    BY <2>3
  <2> HIDE DEF m, k, s, S
  <2>5. /\ SubSeq(s, m, m + k - 1) \in Seq(S)
        /\ Len(SubSeq(s, m, m + k - 1)) = k
        /\ \A i \in 1 .. k : SubSeq(s, m, m + k - 1)[i] = s[m + i - 1]
    BY <2>t, <2>e, Piece
  <2>6. /\ Body(w) \in Seq(S) /\ Len(Body(w)) = k
        /\ \A i \in 1 .. k : Body(w)[i] = s[m + i - 1]
    <3>1. Body(w) = SubSeq(s, m, m + k - 1)
      BY <2>4
    <3> HIDE DEF Body
    <3> QED BY <2>5, <3>1, Zenon
  <2> QED BY <2>6 DEF m, k, s, S
<1>7. \A k \in 1 .. Size[w] : Body(w)[k] = [of |-> w, at |-> k + Header]
  <2> TAKE k \in 1 .. Size[w]
  <2>1. Header + 1 + k - 1 = k + Header /\ k + Header \in 1 .. Length(w)
    BY LengthType
  <2> QED BY <1>4, <1>6, <2>1
<1> QED BY <1>3, <1>4, <1>6, <1>7

(* At the start of a whole record the next read gives its body, and the   *)
(* next record starts behind it.                                          *)
LEMMA ReadOne ==
    ASSUME NEW f, NEW n, Prefix(f, n), NEW p, AtStart(f, n, p)
    PROVE  LET w == f[p].of
               next == p + Length(w)
           IN  /\ w \in Writers /\ ~Stops(f, p) /\ NextHeader(f, p) = next
               /\ Length(w) >= 3 /\ next <= n + 1
               /\ Holds(f, p - 1, w)
               /\ SubSeq(f, p + Header, next - 1) = Body(w)
               /\ SubSeq(f, p, next - 1) = Cells(w)
               /\ next <= n => f[next].at = 1
               /\ \A q \in (p + 1) .. (next - 1) : f[q].at # 1
<1> DEFINE w == f[p].of
           next == p + Length(w)
<1>0. /\ Len(f) \in Nat /\ DOMAIN f = 1 .. Len(f) /\ \A i \in 1 .. Len(f) : f[i] \in Cell
      /\ n <= Len(f)
  BY LenProperties DEF Prefix
<1>z. Len(f) \in Nat /\ n <= Len(f)
  BY <1>0
<1>w. Whole(f, n)
  BY DEF Prefix
<1>p. p \in Nat /\ n \in Nat /\ p >= 1 /\ p <= n
  BY DEF Prefix, AtStart
<1>1. w \in Writers /\ f[p].at = 1
  BY <1>0, <1>p DEF Cell, AtStart
<1> HIDE DEF w
<1>2. next <= n + 1 /\ Holds(f, p - 1, w)
  BY <1>1, <1>p, <1>w, LengthType DEF Whole, w
<1>3. \A k \in 1 .. Length(w) : f[p - 1 + k] = [of |-> w, at |-> k]
  BY <1>2 DEF Holds
<1>4. \A q \in p .. (next - 1) : f[q] = [of |-> w, at |-> q - p + 1]
  <2> TAKE q \in p .. (next - 1)
  <2>1. q - p + 1 \in 1 .. Length(w) /\ p - 1 + (q - p + 1) = q
    BY <1>1, <1>p, LengthType
  <2> QED BY <1>3, <2>1
<1>5. Size[w] \in 1 .. MaxUpdate /\ Length(w) = Size[w] + 2 /\ Length(w) \in Nat /\ Header = 2
      /\ MaxUpdate \in Nat
  BY <1>1, LengthType
<1>6. f[p] = [of |-> w, at |-> 1] /\ f[p + 1] = [of |-> w, at |-> 2]
  BY <1>4, <1>5, <1>p
<1>7. Decode(f, p) = Size[w]
  BY <1>6 DEF Decode
<1>8. NextHeader(f, p) = next /\ ~Stops(f, p)
  <2>1. NextHeader(f, p) = next
    BY <1>5, <1>7, <1>p DEF NextHeader
  <2>2. next <= Len(f) + 1 /\ p + Header <= Len(f) + 1 /\ Size[w] <= MaxUpdate
    BY <1>2, <1>5, <1>p, <1>z
  <2>3. next \in Nat /\ p + Header \in Nat /\ Size[w] \in Nat
    BY <1>5, <1>p
  <2> HIDE DEF next
  <2>4. ~(p + Header > Len(f) + 1) /\ ~(Size[w] > MaxUpdate) /\ ~(next > Len(f) + 1)
    BY <1>5, <1>z, <2>2, <2>3
  <2> QED BY <1>7, <2>1, <2>4 DEF Stops
<1>l. /\ Length(w) \in Nat /\ Length(w) >= 3 /\ Header = 2 /\ Size[w] \in Nat
      /\ next \in Nat /\ next = p + Length(w) /\ Length(w) = Size[w] + 2
  BY <1>p, <1>5
<1> HIDE DEF next
<1>9. SubSeq(f, p, next - 1) = Cells(w)
  <2>1. \A i \in p .. (next - 1) : f[i] \in Cell
    <3> TAKE i \in p .. (next - 1)
    <3>1. i \in 1 .. Len(f)
      BY <1>z, <1>2, <1>l, <1>p
    <3> QED BY <1>0, <3>1
  <2>2. /\ SubSeq(f, p, next - 1) \in Seq(Cell)
        /\ Len(SubSeq(f, p, next - 1)) = Length(w)
        /\ \A i \in 1 .. Length(w) : SubSeq(f, p, next - 1)[i] = f[p + i - 1]
    <3>1. next - 1 = p + Length(w) - 1
      BY <1>p, <1>l
    <3> QED BY <1>p, <1>l, <2>1, <3>1, Piece
  <2>3. \A i \in 1 .. Length(w) : SubSeq(f, p, next - 1)[i] = Cells(w)[i]
    <3> TAKE i \in 1 .. Length(w)
    <3>1. p + i - 1 = p - 1 + i
      BY <1>p, <1>l
    <3>2. f[p + i - 1] = [of |-> w, at |-> i]
      BY <1>3, <3>1
    <3>3. Cells(w)[i] = [of |-> w, at |-> i]
      BY <1>1, CellsType
    <3> QED BY <2>2, <3>2, <3>3
  <2>4. Cells(w) \in Seq(Cell) /\ Len(Cells(w)) = Length(w)
    BY <1>1, CellsType
  <2> QED BY ONLY <2>2, <2>3, <2>4, SeqEqual
<1>10. SubSeq(f, p + Header, next - 1) = Body(w)
  <2>1. \A i \in (p + Header) .. (next - 1) : f[i] \in Cell
    <3> TAKE i \in (p + Header) .. (next - 1)
    <3>1. i \in 1 .. Len(f)
      BY <1>z, <1>2, <1>l, <1>p
    <3> QED BY <1>0, <3>1
  <2>2. /\ SubSeq(f, p + Header, next - 1) \in Seq(Cell)
        /\ Len(SubSeq(f, p + Header, next - 1)) = Size[w]
        /\ \A i \in 1 .. Size[w] : SubSeq(f, p + Header, next - 1)[i] = f[p + Header + i - 1]
    <3>1. p + Header \in Nat /\ Size[w] \in Nat /\ next - 1 = p + Header + Size[w] - 1
      BY <1>p, <1>l
    <3> QED BY <2>1, <3>1, Piece
  <2>3. \A i \in 1 .. Size[w] : SubSeq(f, p + Header, next - 1)[i] = Body(w)[i]
    <3> TAKE i \in 1 .. Size[w]
    <3> DEFINE q == p + Header + i - 1
    <3>1. q \in p .. (next - 1) /\ q - p + 1 = i + Header
      BY <1>p, <1>l
    <3>2. SubSeq(f, p + Header, next - 1)[i] = f[q]
      BY <2>2
    <3>3. Body(w)[i] = [of |-> w, at |-> i + Header]
      BY <1>1, CellsType
    <3> HIDE DEF q
    <3>4. f[q] = [of |-> w, at |-> q - p + 1]
      BY <1>4, <3>1
    <3> QED BY <3>1, <3>2, <3>3, <3>4
  <2>4. Body(w) \in Seq(Cell) /\ Len(Body(w)) = Size[w]
    BY <1>1, CellsType
  <2> QED BY ONLY <2>2, <2>3, <2>4, SeqEqual
<1>11. ASSUME next <= n PROVE f[next].at = 1
  <2>1. next \in 1 .. n /\ f[next] \in Cell
    BY <1>0, <1>l, <1>p, <1>11
  <2>2. PICK v \in Writers, k \in Nat : k \in 1 .. Length(v) /\ f[next] = [of |-> v, at |-> k]
    BY ONLY <2>1 DEF Cell
  <2>3. next - k >= 0 /\ \A j \in 1 .. Length(v) : f[next - k + j] = [of |-> v, at |-> j]
    BY <1>w, <2>1, <2>2 DEF Whole, Holds
  <2>4. ASSUME k # 1 PROVE FALSE
    <3>1. Length(v) \in Nat
      BY LengthType
    <3>2. k - 1 \in 1 .. Length(v) /\ next - k + (k - 1) = next - 1 /\ next - 1 \in p .. (next - 1)
      BY <1>p, <1>l, <2>2, <2>4, <3>1
    <3>3. f[next - 1] = [of |-> v, at |-> k - 1]
      BY ONLY <2>3, <3>2
    <3>4. f[next - 1] = [of |-> w, at |-> next - 1 - p + 1]
      BY <1>4, <3>2
    <3>5. v = w /\ k - 1 = Length(w)
      BY <1>p, <1>l, <3>3, <3>4
    <3> QED BY <1>p, <1>l, <2>2, <3>5
  <2> QED BY ONLY <2>2, <2>4
<1>12. \A q \in (p + 1) .. (next - 1) : f[q].at # 1
  <2> TAKE q \in (p + 1) .. (next - 1)
  <2>1. q \in p .. (next - 1) /\ q - p + 1 # 1
    BY <1>p, <1>l
  <2>2. f[q] = [of |-> w, at |-> q - p + 1]
    BY <1>4, <2>1
  <2> QED BY <2>1, <2>2
<1> QED BY <1>1, <1>2, <1>l, <1>8, <1>9, <1>10, <1>11, <1>12 DEF w, next

(* A sequence with one more element in front. *)
LEMMA Prepend ==
    ASSUME NEW S, NEW b \in S, NEW r \in Seq(S)
    PROVE  /\ <<b>> \o r \in Seq(S) /\ Len(<<b>> \o r) = Len(r) + 1 /\ Len(r) \in Nat
           /\ (<<b>> \o r)[1] = b
           /\ \A i \in 1 .. Len(r) : (<<b>> \o r)[i + 1] = r[i]
<1>1. <<b>> \in Seq(S) /\ Len(<<b>>) = 1 /\ <<b>>[1] = b
  OBVIOUS
<1>2. Len(r) \in Nat
  BY LenProperties
<1> DEFINE t == <<b>>
<1>3. t \in Seq(S) /\ Len(t) = 1 /\ t[1] = b
  BY <1>1
<1> HIDE DEF t
<1>4. /\ t \o r \in Seq(S) /\ Len(t \o r) = Len(t) + Len(r)
      /\ \A i \in 1 .. Len(t) + Len(r) : (t \o r)[i] = IF i <= Len(t) THEN t[i] ELSE r[i - Len(t)]
  BY <1>3, ConcatProperties
<1>5. (t \o r)[1] = b /\ Len(t \o r) = Len(r) + 1
  BY <1>2, <1>3, <1>4
<1>6. \A i \in 1 .. Len(r) : (t \o r)[i + 1] = r[i]
  <2> TAKE i \in 1 .. Len(r)
  <2>1. i + 1 \in 1 .. Len(t) + Len(r) /\ ~(i + 1 <= Len(t)) /\ i + 1 - Len(t) = i
    BY <1>2, <1>3
  <2> QED BY <1>4, <2>1
<1> QED BY <1>2, <1>4, <1>5, <1>6 DEF t

(* What is read, t, is a record b and the records r behind it. *)
Prepended(t, b, r) ==
    /\ t \in Records /\ Len(t) = Len(r) + 1 /\ Len(r) \in Nat /\ t[1] = b
    /\ \A i \in 1 .. Len(r) : t[i + 1] = r[i]

LEMMA PrependRecord ==
    ASSUME NEW b \in Seq(Cell), NEW r \in Records
    PROVE  Prepended(<<b>> \o r, b, r)
<1>1. r \in Seq(Seq(Cell))
  BY DEF Records
<1> DEFINE S == Seq(Cell)
<1>2. b \in S /\ r \in Seq(S)
  BY <1>1
<1> HIDE DEF S
<1>3. /\ <<b>> \o r \in Seq(S) /\ Len(<<b>> \o r) = Len(r) + 1 /\ Len(r) \in Nat
      /\ (<<b>> \o r)[1] = b
      /\ \A i \in 1 .. Len(r) : (<<b>> \o r)[i + 1] = r[i]
  BY <1>2, Prepend
<1> QED BY <1>3 DEF S, Records, Prepended

(* A record starts at p, or p is behind the n cells. *)
Boundary(f, n, p) == p \in Nat /\ 1 <= p /\ p <= n + 1 /\ (p <= n => f[p].at = 1)

(* What a read gives at a start: the body, then what it gives behind it. *)
LEMMA ParseOne ==
    ASSUME NEW f, NEW n, Prefix(f, n), NEW p, AtStart(f, n, p), NEW g, Parses(f, 1, g)
    PROVE  LET w == f[p].of
               next == p + Length(w)
           IN  /\ Boundary(f, n, next) /\ p < next
               /\ \A q \in (p + 1) .. (next - 1) : f[q].at # 1
               /\ w \in Writers /\ SubSeq(f, p, next - 1) = Cells(w)
               /\ Body(w) \in Seq(Cell) /\ g[next] \in Records
               /\ g[p] = <<Body(w)>> \o g[next]
<1> DEFINE w == f[p].of
           next == p + Length(w)
<1>1. /\ w \in Writers /\ ~Stops(f, p) /\ NextHeader(f, p) = next
      /\ Length(w) >= 3 /\ next <= n + 1
      /\ SubSeq(f, p + Header, next - 1) = Body(w)
      /\ SubSeq(f, p, next - 1) = Cells(w)
      /\ next <= n => f[next].at = 1
      /\ \A q \in (p + 1) .. (next - 1) : f[q].at # 1
  BY ReadOne
<1> HIDE DEF w
<1>2. p \in Nat /\ 1 <= p /\ n \in Nat /\ Length(w) \in Nat
  BY <1>1, LengthType DEF AtStart, Prefix
<1>3. next \in Nat /\ p < next /\ 1 <= next
  BY <1>1, <1>2
<1> HIDE DEF next
<1>4. Boundary(f, n, next)
  BY <1>1, <1>3 DEF Boundary
<1>5. p \in 1 .. (Len(f) + 1) /\ next \in 1 .. (Len(f) + 1)
  <2>1. n <= Len(f) /\ Len(f) \in Nat /\ p <= n
    BY LenProperties DEF Prefix, AtStart
  <2> QED BY <1>1, <1>2, <1>3, <2>1
<1>6. g[next] \in Records /\ g[p] = ParseAt(f, p, g)
  BY <1>5 DEF Parses
<1>7. g[p] = <<Body(w)>> \o g[next]
  BY <1>1, <1>6 DEF ParseAt
<1>8. Body(w) \in Seq(Cell)
  BY <1>1, CellsType
<1> QED BY <1>1, <1>3, <1>4, <1>6, <1>7, <1>8 DEF w, next

-----------------------------------------------------------------------------
(* What is read from p on, of n cells: each record, only records, each once. *)
Gives(f, n, p, r) ==
    \A q \in p .. n : f[q].at = 1 => \E i \in 1 .. Len(r) : r[i] = Body(f[q].of)

GivesOnly(f, n, p, r) ==
    \A i \in 1 .. Len(r) : \E q \in p .. n : f[q].at = 1 /\ r[i] = Body(f[q].of)

GivesOnce(r) == \A i, j \in 1 .. Len(r) : r[i] = r[j] => i = j

LEMMA ReadsWhole ==
    ASSUME NEW f, NEW n, Prefix(f, n), NEW g, Parses(f, 1, g)
    PROVE  \A p : Boundary(f, n, p) => Gives(f, n, p, g[p])
<1> DEFINE S == {p \in 1 .. (n + 1) : Boundary(f, n, p) => Gives(f, n, p, g[p])}
<1>n. n \in Nat /\ n + 1 \in Nat
  BY DEF Prefix
<1>1. ASSUME NEW p \in 1 .. (n + 1), \A q \in (p + 1) .. (n + 1) : q \in S
      PROVE  p \in S
  <2> SUFFICES ASSUME Boundary(f, n, p) PROVE Gives(f, n, p, g[p])
    OBVIOUS
  <2>p. p \in Nat /\ 1 <= p
    BY <1>n
  <2>1. CASE p = n + 1
    BY <1>n, <2>1 DEF Gives
  <2>2. CASE p # n + 1
    <3> DEFINE w == f[p].of
               next == p + Length(w)
    <3>1. AtStart(f, n, p)
      BY <1>n, <2>2, <2>p DEF Boundary, AtStart
    <3>2. /\ Boundary(f, n, next) /\ p < next
          /\ \A q \in (p + 1) .. (next - 1) : f[q].at # 1
          /\ Body(w) \in Seq(Cell) /\ g[next] \in Records
          /\ g[p] = <<Body(w)>> \o g[next]
      BY <3>1, ParseOne
    <3> HIDE DEF w, next
    <3>3. /\ Len(g[p]) = Len(g[next]) + 1 /\ Len(g[next]) \in Nat
          /\ g[p][1] = Body(w)
          /\ \A i \in 1 .. Len(g[next]) : g[p][i + 1] = g[next][i]
      <4>1. Prepended(g[p], Body(w), g[next])
        BY <3>2, PrependRecord
      <4> QED BY <4>1 DEF Prepended
    <3>4. next \in (p + 1) .. (n + 1) /\ next \in Nat
      BY <1>n, <2>p, <3>2 DEF Boundary
    <3>5. Gives(f, n, next, g[next])
      BY <1>1, <3>2, <3>4
    <3>6. ASSUME NEW q \in p .. n, f[q].at = 1
          PROVE  \E i \in 1 .. Len(g[p]) : g[p][i] = Body(f[q].of)
      <4>1. CASE q = p
        <5>1. 1 \in 1 .. Len(g[p])
          BY <3>3
        <5> QED BY <3>3, <4>1, <5>1 DEF w
      <4>2. CASE q # p
        <5>1. q \in next .. n
          BY <1>n, <2>p, <3>2, <3>4, <3>6, <4>2
        <5>2. PICK i \in 1 .. Len(g[next]) : g[next][i] = Body(f[q].of)
          BY <3>5, <3>6, <5>1 DEF Gives
        <5>3. i + 1 \in 1 .. Len(g[p])
          BY <3>3
        <5> QED BY <3>3, <5>2, <5>3
      <4> QED BY <4>1, <4>2
    <3> QED BY <3>6 DEF Gives
  <2> QED BY <2>1, <2>2
<1>2. \A p \in 1 .. (n + 1) : p \in S
  <2> HIDE DEF S
  <2> QED BY <1>n, <1>1, Downwards
<1>3. \A p : Boundary(f, n, p) => p \in 1 .. (n + 1)
  BY <1>n DEF Boundary
<1> QED BY <1>2, <1>3

(* A file of whole records, none of them twice, is read as these records. *)
LEMMA ReadsExactly ==
    ASSUME NEW f, Prefix(f, Len(f)), NEW g, Parses(f, 1, g),
           \A q, s \in 1 .. Len(f) : f[q] = f[s] => q = s
    PROVE  \A p : Boundary(f, Len(f), p) => GivesOnly(f, Len(f), p, g[p]) /\ GivesOnce(g[p])
<1> DEFINE n == Len(f)
           S == {p \in 1 .. (n + 1) : Boundary(f, n, p) =>
                                          GivesOnly(f, n, p, g[p]) /\ GivesOnce(g[p])}
<1>n. n \in Nat /\ n + 1 \in Nat /\ Prefix(f, n)
  BY LenProperties DEF Prefix
<1>u. \A q, s \in 1 .. n : f[q] = f[s] => q = s
  OBVIOUS
<1>c. \A q \in 1 .. n : f[q] \in Cell
  BY LenProperties DEF Prefix
<1>e. g[n + 1] = << >>
  <2>1. g[n + 1] = ParseAt(f, n + 1, g)
    BY <1>n DEF Parses
  <2>2. Stops(f, n + 1)
    BY <1>n, LengthType DEF Stops
  <2> QED BY <2>1, <2>2 DEF ParseAt
<1> HIDE DEF n
<1>1. ASSUME NEW p \in 1 .. (n + 1), \A q \in (p + 1) .. (n + 1) : q \in S
      PROVE  p \in S
  <2> SUFFICES ASSUME Boundary(f, n, p) PROVE GivesOnly(f, n, p, g[p]) /\ GivesOnce(g[p])
    OBVIOUS
  <2>p. p \in Nat /\ 1 <= p
    BY <1>n
  <2>1. CASE p = n + 1
    <3>1. Len(g[p]) = 0
      BY <1>e, <2>1, EmptySeq
    <3> QED BY <3>1 DEF GivesOnly, GivesOnce
  <2>2. CASE p # n + 1
    <3> DEFINE w == f[p].of
               next == p + Length(w)
    <3>1. AtStart(f, n, p)
      BY <1>n, <2>2, <2>p DEF Boundary, AtStart
    <3>2. /\ Boundary(f, n, next) /\ p < next /\ w \in Writers
          /\ Body(w) \in Seq(Cell) /\ g[next] \in Records
          /\ g[p] = <<Body(w)>> \o g[next]
      BY <1>n, <3>1, ParseOne
    <3> HIDE DEF w, next
    <3>3. /\ Len(g[p]) = Len(g[next]) + 1 /\ Len(g[next]) \in Nat
          /\ g[p][1] = Body(w)
          /\ \A i \in 1 .. Len(g[next]) : g[p][i + 1] = g[next][i]
      <4>1. Prepended(g[p], Body(w), g[next])
        BY <3>2, PrependRecord
      <4> QED BY <4>1 DEF Prepended
    <3>4. next \in (p + 1) .. (n + 1) /\ next \in Nat /\ p \in 1 .. n
      BY <1>n, <2>p, <2>2, <3>2 DEF Boundary
    <3>5. GivesOnly(f, n, next, g[next]) /\ GivesOnce(g[next])
      BY <1>1, <3>2, <3>4
    <3>6. \A i \in 2 .. Len(g[p]) : i - 1 \in 1 .. Len(g[next]) /\ g[p][i] = g[next][i - 1]
      <4> TAKE i \in 2 .. Len(g[p])
      <4>1. i - 1 \in 1 .. Len(g[next]) /\ (i - 1) + 1 = i
        BY <3>3
      <4> QED BY <3>3, <4>1
    <3>7. f[p].at = 1
      BY <3>1 DEF AtStart
    <3>8. ASSUME NEW i \in 2 .. Len(g[p])
          PROVE  \E q \in (p + 1) .. n : f[q].at = 1 /\ g[p][i] = Body(f[q].of)
      <4>1. PICK q \in next .. n : f[q].at = 1 /\ g[next][i - 1] = Body(f[q].of)
        BY <3>5, <3>6 DEF GivesOnly
      <4>2. q \in (p + 1) .. n
        BY <1>n, <2>p, <3>4
      <4> QED BY <3>6, <4>1, <4>2
    <3>9. GivesOnly(f, n, p, g[p])
      <4> SUFFICES ASSUME NEW i \in 1 .. Len(g[p])
                   PROVE  \E q \in p .. n : f[q].at = 1 /\ g[p][i] = Body(f[q].of)
        BY DEF GivesOnly
      <4>1. CASE i = 1
        <5>1. p \in p .. n
          BY <3>4, <2>p
        <5> QED BY <3>3, <3>7, <4>1, <5>1 DEF w
      <4>2. CASE i # 1
        <5>1. i \in 2 .. Len(g[p])
          BY <3>3, <4>2
        <5>2. PICK q \in (p + 1) .. n : f[q].at = 1 /\ g[p][i] = Body(f[q].of)
          BY <3>8, <5>1
        <5>3. q \in p .. n
          BY <2>p, <1>n
        <5> QED BY <5>2, <5>3
      <4> QED BY <4>1, <4>2
    <3>10. \A i \in 2 .. Len(g[p]) : g[p][i] # Body(w)
      <4> SUFFICES ASSUME NEW i \in 2 .. Len(g[p]), g[p][i] = Body(w) PROVE FALSE
        OBVIOUS
      <4>1. PICK q \in (p + 1) .. n : f[q].at = 1 /\ g[p][i] = Body(f[q].of)
        BY <3>8
      <4>2. q \in 1 .. n /\ q # p
        BY <1>n, <2>p
      <4>3. f[q] \in Cell /\ f[q].of \in Writers /\ f[p] \in Cell
        BY <1>c, <3>4, <4>2 DEF Cell
      <4>4. Body(f[q].of)[1].of = f[q].of /\ Body(w)[1].of = w
        <5>1. 1 \in 1 .. Size[w] /\ 1 \in 1 .. Size[f[q].of]
          BY <3>2, <4>3, LengthType
        <5>2. Body(w)[1] = [of |-> w, at |-> 1 + Header]
          BY <3>2, <5>1, CellsType
        <5>3. Body(f[q].of)[1] = [of |-> f[q].of, at |-> 1 + Header]
          BY <4>3, <5>1, CellsType
        <5> QED BY <5>2, <5>3
      <4>5. f[q].of = f[p].of /\ f[q].at = f[p].at
        BY <3>7, <4>1, <4>4 DEF w
      <4>6. f[q] = f[p]
        BY <4>3, <4>5 DEF Cell
      <4> QED BY <1>u, <3>4, <4>2, <4>6
    <3>11. GivesOnce(g[p])
      <4> SUFFICES ASSUME NEW i \in 1 .. Len(g[p]), NEW j \in 1 .. Len(g[p]), g[p][i] = g[p][j]
                   PROVE  i = j
        BY DEF GivesOnce
      <4>1. CASE i = 1 \/ j = 1
        <5>1. (i # 1 => i \in 2 .. Len(g[p])) /\ (j # 1 => j \in 2 .. Len(g[p]))
          BY <3>3
        <5> QED BY <3>3, <3>10, <4>1, <5>1
      <4>2. CASE i # 1 /\ j # 1
        <5>1. i \in 2 .. Len(g[p]) /\ j \in 2 .. Len(g[p])
          BY <3>3, <4>2
        <5>2. i - 1 = j - 1
          BY <3>5, <3>6, <5>1 DEF GivesOnce
        <5> QED BY <5>1, <5>2, <3>3
      <4> QED BY <4>1, <4>2
    <3> QED BY <3>9, <3>11
  <2> QED BY <2>1, <2>2
<1>2. \A p \in 1 .. (n + 1) : p \in S
  <2> HIDE DEF S
  <2> QED BY <1>n, <1>1, Downwards
<1>3. \A p : Boundary(f, n, p) => p \in 1 .. (n + 1)
  BY <1>n DEF Boundary
<1> QED BY <1>2, <1>3 DEF n

-----------------------------------------------------------------------------
(* The partial concatenations of the sequences s[1], ..., s[n]. *)
Flattens(s, n, h) ==
    \A i \in 1 .. n : h[i] = IF i = 1 THEN s[i] ELSE h[i - 1] \o s[i]

LEMMA FlattenExists ==
    ASSUME NEW s, NEW n \in Nat
    PROVE  \A k \in 1 .. n : \E h : h = [i \in 1 .. k |-> h[i]] /\ Flattens(s, k, h)
<1> DEFINE S == {k \in 1 .. n : \E h : h = [i \in 1 .. k |-> h[i]] /\ Flattens(s, k, h)}
<1>1. ASSUME NEW k \in 1 .. n, \A j \in 1 .. (k - 1) : j \in S
      PROVE  k \in S
  <2>1. CASE k = 1
    <3> DEFINE h == [i \in 1 .. k |-> s[1]]
    <3>1. h = [i \in 1 .. k |-> h[i]] /\ Flattens(s, k, h)
      BY <2>1 DEF Flattens
    <3> HIDE DEF h
    <3> QED BY <3>1
  <2>2. CASE k # 1
    <3>1. k - 1 \in 1 .. (k - 1)
      BY <2>2
    <3>2. PICK e : Flattens(s, k - 1, e)
      BY <1>1, <3>1
    <3> DEFINE h == [i \in 1 .. k |-> IF i = k THEN e[k - 1] \o s[k] ELSE e[i]]
    <3>3. \A i \in 1 .. (k - 1) : h[i] = e[i]
      OBVIOUS
    <3>4. h = [i \in 1 .. k |-> IF i = k THEN e[k - 1] \o s[k] ELSE e[i]]
      OBVIOUS
    <3> HIDE DEF h
    <3>6. h = [i \in 1 .. k |-> h[i]]
      BY <3>4
    <3>7. h[k] = e[k - 1] \o s[k]
      <4>1. k \in 1 .. k
        OBVIOUS
      <4> QED BY <3>4, <4>1, Zenon
    <3>5. ASSUME NEW i \in 1 .. k
          PROVE  h[i] = IF i = 1 THEN s[i] ELSE h[i - 1] \o s[i]
      <4>1. CASE i = k
        BY <2>2, <3>1, <3>3, <3>7, <4>1
      <4>2. CASE i # k
        <5>1. i \in 1 .. (k - 1) /\ (i # 1 => i - 1 \in 1 .. (k - 1))
          BY <4>2
        <5>2. e[i] = IF i = 1 THEN s[i] ELSE e[i - 1] \o s[i]
          BY <3>2, <5>1 DEF Flattens
        <5> QED BY <3>3, <5>1, <5>2
      <4> QED BY <4>1, <4>2
    <3> QED BY <3>6, <3>5 DEF Flattens
  <2> QED BY <2>1, <2>2
<1>2. \A k \in 1 .. n : k \in S
  <2> HIDE DEF S
  <2> QED BY <1>1, Upwards
<1> QED BY <1>2

LEMMA FlattenIs ==
    ASSUME NEW S, NEW s \in Seq(S), Len(s) # 0
    PROVE  \E h : Flattens(s, Len(s), h) /\ FlattenSeq(s) = h[Len(s)]
<1> DEFINE flatten[i \in 1 .. Len(s)] ==
               IF i = 1 THEN s[i] ELSE flatten[i - 1] \o s[i]
<1>0. Len(s) \in Nat /\ Len(s) \in 1 .. Len(s)
  BY LenProperties
<1>1. PICK h : h = [i \in 1 .. Len(s) |-> h[i]] /\ Flattens(s, Len(s), h)
  BY <1>0, FlattenExists
<1>2. h = [i \in 1 .. Len(s) |-> IF i = 1 THEN s[i] ELSE h[i - 1] \o s[i]]
  BY <1>1 DEF Flattens
<1>3. flatten = [i \in 1 .. Len(s) |-> IF i = 1 THEN s[i] ELSE flatten[i - 1] \o s[i]]
  BY <1>2, Zenon
<1>4. FlattenSeq(s) = flatten[Len(s)]
  BY DEF FlattenSeq
<1> HIDE DEF flatten
<1>5. Flattens(s, Len(s), flatten)
  BY <1>3 DEF Flattens
<1> QED BY <1>4, <1>5

LEMMA Associates ==
    ASSUME NEW S, NEW x \in Seq(S), NEW y \in Seq(S), NEW z \in Seq(S)
    PROVE  (x \o y) \o z = x \o (y \o z)
BY ConcatAssociative

(* Flattening begins with the first sequence. *)
LEMMA FlattenPrepend ==
    ASSUME NEW S, NEW a \in Seq(S), NEW s \in Seq(Seq(S))
    PROVE  FlattenSeq(<<a>> \o s) = a \o FlattenSeq(s)
<1> DEFINE t == <<a>> \o s
           n == Len(s)
<1>1. /\ t \in Seq(Seq(S)) /\ Len(t) = n + 1 /\ n \in Nat /\ t[1] = a
      /\ \A i \in 1 .. n : t[i + 1] = s[i]
  BY Prepend
<1>2. \A i \in 1 .. n : s[i] \in Seq(S)
  BY LenProperties
<1> HIDE DEF t
<1>3. PICK k : Flattens(t, n + 1, k) /\ FlattenSeq(t) = k[n + 1]
  <2>1. Len(t) # 0
    BY <1>1
  <2>2. \E k : Flattens(t, Len(t), k) /\ FlattenSeq(t) = k[Len(t)]
    BY <1>1, <2>1, FlattenIs
  <2> QED BY <1>1, <2>2
<1>4. k[1] = a
  BY <1>1, <1>3 DEF Flattens
<1>5. CASE n = 0
  <2>1. s = << >> /\ FlattenSeq(s) = s
    BY <1>5, EmptySeq DEF FlattenSeq
  <2> QED BY <1>3, <1>4, <1>5, <2>1, ConcatEmptySeq DEF t
<1>6. CASE n # 0
  <2>1. PICK h : Flattens(s, n, h) /\ FlattenSeq(s) = h[n]
    BY <1>6, FlattenIs
  <2> HIDE DEF n
  <2> DEFINE T == {i \in 1 .. n : h[i] \in Seq(S) /\ k[i + 1] = a \o h[i]}
  <2>2. ASSUME NEW i \in 1 .. n, \A j \in 1 .. (i - 1) : j \in T
        PROVE  i \in T
    <3>1. k[i + 1] = k[i] \o s[i]
      <4>1. i + 1 \in 1 .. (n + 1) /\ i + 1 # 1 /\ (i + 1) - 1 = i
        BY <1>1
      <4>2. k[i + 1] = k[i] \o t[i + 1]
        BY <1>3, <4>1 DEF Flattens
      <4> QED BY <1>1, <4>2
    <3>2. h[i] = IF i = 1 THEN s[i] ELSE h[i - 1] \o s[i]
      BY <2>1 DEF Flattens
    <3>3. CASE i = 1
      BY <1>2, <1>4, <3>1, <3>2, <3>3
    <3>4. CASE i # 1
      <4>1. i - 1 \in 1 .. (i - 1) /\ (i - 1) + 1 = i
        BY <1>1, <3>4
      <4>2. h[i - 1] \in Seq(S) /\ k[i] = a \o h[i - 1]
        BY <2>2, <4>1
      <4>3. h[i] = h[i - 1] \o s[i] /\ s[i] \in Seq(S)
        BY <1>2, <3>2, <3>4
      <4>4. h[i] \in Seq(S)
        BY <4>2, <4>3, ConcatProperties
      <4>5. (a \o h[i - 1]) \o s[i] = a \o (h[i - 1] \o s[i])
        <5> DEFINE y == h[i - 1]
                   z == s[i]
        <5>1. y \in Seq(S) /\ z \in Seq(S)
          BY <4>2, <4>3
        <5> HIDE DEF y, z
        <5>2. (a \o y) \o z = a \o (y \o z)
          BY <5>1, Associates
        <5> QED BY <5>2 DEF y, z
      <4> QED BY <3>1, <4>2, <4>3, <4>4, <4>5
    <3> QED BY <3>3, <3>4
  <2>3. \A i \in 1 .. n : i \in T
    <3> HIDE DEF T
    <3> QED BY <1>1, <2>2, Upwards
  <2>4. n \in 1 .. n
    BY <1>1, <1>6
  <2> QED BY <1>3, <2>1, <2>3, <2>4 DEF t
<1> QED BY <1>5, <1>6

(* The records with their headers put back. *)
Framed(r) == [i \in DOMAIN r |-> Cells(r[i][1].of)]

(* A file of whole records is read as the bodies of all its records. *)
LEMMA ReadsAll ==
    ASSUME NEW f, Prefix(f, Len(f)), NEW g, Parses(f, 1, g)
    PROVE  \A p : Boundary(f, Len(f), p) =>
                    /\ Framed(g[p]) \in Seq(Seq(Cell))
                    /\ FlattenSeq(Framed(g[p])) = SubSeq(f, p, Len(f))
<1> DEFINE n == Len(f)
           Joined(p) == /\ Framed(g[p]) \in Seq(Seq(Cell))
                        /\ FlattenSeq(Framed(g[p])) = SubSeq(f, p, n)
           S == {p \in 1 .. (n + 1) : Boundary(f, n, p) => Joined(p)}
<1>n. n \in Nat /\ n + 1 \in Nat /\ Prefix(f, n)
  BY LenProperties DEF Prefix
<1>e. g[n + 1] = << >>
  <2>1. g[n + 1] = ParseAt(f, n + 1, g)
    BY <1>n DEF Parses
  <2>2. Stops(f, n + 1)
    BY <1>n, LengthType DEF Stops
  <2> QED BY <2>1, <2>2 DEF ParseAt
<1>f. f \in Seq(Cell)
  BY DEF Prefix
<1>1. ASSUME NEW p \in 1 .. (n + 1), \A q \in (p + 1) .. (n + 1) : q \in S
      PROVE  p \in S
  <2> SUFFICES ASSUME Boundary(f, n, p) PROVE Joined(p)
    OBVIOUS
  <2>p. p \in Nat /\ 1 <= p /\ p <= n + 1
    BY <1>n
  <2>1. CASE p = n + 1
    <3>1. Framed(g[p]) = << >>
      BY <1>e, <2>1, EmptySeq DEF Framed
    <3>2. FlattenSeq(<< >>) = << >>
      BY EmptySeq DEF FlattenSeq
    <3>3. SubSeq(f, p, n) = << >>
      BY <1>n, <2>1, SubSeqEmpty
    <3> QED BY <3>1, <3>2, <3>3, EmptySeq
  <2>2. CASE p # n + 1
    <3> DEFINE w == f[p].of
               next == p + Length(w)
    <3>1. AtStart(f, n, p)
      BY <1>n, <2>2, <2>p DEF Boundary, AtStart
    <3>2. /\ Boundary(f, n, next) /\ p < next /\ w \in Writers
          /\ SubSeq(f, p, next - 1) = Cells(w)
          /\ Body(w) \in Seq(Cell) /\ g[next] \in Records
          /\ g[p] = <<Body(w)>> \o g[next]
      BY <1>n, <3>1, ParseOne
    <3> HIDE DEF n, w, next
    <3>3. /\ g[p] \in Records
          /\ Len(g[p]) = Len(g[next]) + 1 /\ Len(g[next]) \in Nat
          /\ g[p][1] = Body(w)
          /\ \A i \in 1 .. Len(g[next]) : g[p][i + 1] = g[next][i]
      <4>1. Prepended(g[p], Body(w), g[next])
        BY <3>2, PrependRecord
      <4> QED BY <4>1 DEF Prepended
    <3>4. next \in (p + 1) .. (n + 1) /\ next \in Nat /\ p \in 1 .. n
      BY <1>n, <2>p, <2>2, <3>2 DEF Boundary
    <3>5. Joined(next)
      BY <1>1, <3>2, <3>4
    <3>6. Cells(w) \in Seq(Cell) /\ Body(w)[1].of = w
      <4>1. 1 \in 1 .. Size[w]
        BY <3>2, LengthType
      <4>2. Body(w)[1] = [of |-> w, at |-> 1 + Header]
        BY <3>2, <4>1, CellsType
      <4>3. Cells(w) \in Seq(Cell)
        BY <3>2, CellsType
      <4> QED BY <4>2, <4>3
    <3>7. Framed(g[p]) = <<Cells(w)>> \o Framed(g[next])
      <4> DEFINE m == Len(g[next])
                 F == Framed(g[next])
                 R == <<Cells(w)>> \o F
      <4>1. DOMAIN g[next] = 1 .. m /\ DOMAIN g[p] = 1 .. (m + 1) /\ m \in Nat
        BY <3>2, <3>3, LenProperties DEF Records
      <4>2. Framed(g[p]) = [i \in 1 .. (m + 1) |-> Cells(g[p][i][1].of)]
        BY <4>1 DEF Framed
      <4>3. F \in Seq(Seq(Cell)) /\ Len(F) = m /\ \A i \in 1 .. m : F[i] = Cells(g[next][i][1].of)
        <5>1. F = [i \in 1 .. m |-> Cells(g[next][i][1].of)]
          BY <4>1 DEF Framed
        <5> HIDE DEF F
        <5> QED BY <3>5, <4>1, <5>1, LenProperties DEF F
      <4> HIDE DEF F
      <4>4. /\ R \in Seq(Seq(Cell)) /\ Len(R) = m + 1 /\ R[1] = Cells(w)
            /\ \A i \in 1 .. m : R[i + 1] = F[i]
        BY <3>6, <4>3, Prepend
      <4> HIDE DEF R, m
      <4>5. ASSUME NEW i \in 1 .. (m + 1) PROVE R[i] = Cells(g[p][i][1].of)
        <5>1. CASE i = 1
          BY <3>3, <3>6, <4>4, <5>1
        <5>2. CASE i # 1
          <6>1. i - 1 \in 1 .. m /\ (i - 1) + 1 = i
            BY <4>1, <5>2
          <6>2. g[p][i] = g[next][i - 1] /\ R[i] = F[i - 1]
            BY <3>3, <4>4, <6>1 DEF m
          <6> QED BY <4>3, <6>1, <6>2
        <5> QED BY <5>1, <5>2
      <4>6. R = [i \in 1 .. (m + 1) |-> R[i]]
        BY <4>4, LenProperties
      <4> QED BY <4>2, <4>5, <4>6 DEF R, F
    <3>8. Framed(g[p]) \in Seq(Seq(Cell))
      BY <3>5, <3>6, <3>7, Prepend
    <3>9. FlattenSeq(Framed(g[p])) = Cells(w) \o SubSeq(f, next, n)
      BY <3>5, <3>6, <3>7, FlattenPrepend
    <3>10. SubSeq(f, p, next - 1) \o SubSeq(f, next, n) = SubSeq(f, p, n)
      <4>1. /\ p \in 1 .. (n + 1) /\ next - 1 \in (p - 1) .. n /\ n \in (next - 1) .. n
            /\ (next - 1) + 1 = next
        BY <1>n, <2>p, <3>4
      <4> QED BY <1>f, <4>1, ConcatAdjacentSubSeq DEF n
    <3> QED BY <3>2, <3>8, <3>9, <3>10
  <2> QED BY <2>1, <2>2
<1>2. \A p \in 1 .. (n + 1) : p \in S
  <2> HIDE DEF S, n
  <2> QED BY <1>n, <1>1, Downwards
<1>3. \A p : Boundary(f, n, p) => p \in 1 .. (n + 1)
  BY <1>n DEF Boundary
<1> QED BY <1>2, <1>3

-----------------------------------------------------------------------------
(* The record that a cell belongs to, whole, begins behind position s. *)
Run(f, i, w, s) ==
    /\ w \in Writers /\ Length(w) \in Nat /\ Length(w) >= 3
    /\ s \in Nat /\ s < i /\ i <= s + Length(w)
    /\ f[i] = [of |-> w, at |-> i - s]

RunWithin(f, n, i) ==
    \E w, s : /\ Run(f, i, w, s) /\ s + Length(w) <= n
              /\ \A j : j \in Nat /\ s < j /\ j <= s + Length(w) => Run(f, j, w, s)

LEMMA RunOf ==
    ASSUME NEW f, NEW n, Prefix(f, n), NEW i \in Nat, 1 <= i, i <= n
    PROVE  RunWithin(f, n, i)
<1> DEFINE w == f[i].of
           s == i - f[i].at
<1>1. f[i] \in Cell
  BY LenProperties DEF Prefix
<1>2. w \in Writers /\ f[i].at \in 1 .. Length(w) /\ f[i] = [of |-> w, at |-> f[i].at]
  BY <1>1 DEF Cell
<1>3. Length(w) \in Nat /\ Length(w) >= 3
  BY <1>2, LengthType
<1>4. s >= 0 /\ s + Length(w) <= n /\ Holds(f, s, w)
  BY DEF Prefix, Whole
<1>5. s \in Nat /\ s < i /\ i <= s + Length(w) /\ i - s = f[i].at
  <2>1. f[i].at \in Nat /\ f[i].at >= 1 /\ f[i].at <= Length(w)
    BY <1>2, <1>3
  <2> QED BY <1>3, <1>4, <2>1
<1> HIDE DEF w, s
<1>6. ASSUME NEW j \in Nat, s < j, j <= s + Length(w) PROVE Run(f, j, w, s)
  <2>1. j - s \in 1 .. Length(w) /\ s + (j - s) = j
    BY <1>3, <1>5, <1>6
  <2>2. f[j] = [of |-> w, at |-> j - s]
    BY <1>4, <2>1 DEF Holds
  <2> QED BY <1>2, <1>3, <1>5, <1>6, <2>2 DEF Run
<1>7. Run(f, i, w, s)
  BY <1>5, <1>6
<1> QED BY <1>4, <1>6, <1>7 DEF RunWithin

(* A cell is of one record. *)
LEMMA RunUnique ==
    ASSUME NEW f, NEW j, NEW w, NEW s, NEW v, NEW t, Run(f, j, w, s), Run(f, j, v, t), j \in Nat
    PROVE  w = v /\ s = t
<1>1. [of |-> w, at |-> j - s] = [of |-> v, at |-> j - t]
  BY DEF Run
<1>2. w = v /\ j - s = j - t
  <2>1. [of |-> w, at |-> j - s].of = [of |-> v, at |-> j - t].of
    BY <1>1
  <2>2. [of |-> w, at |-> j - s].at = [of |-> v, at |-> j - t].at
    BY <1>1
  <2> QED BY <2>1, <2>2
<1>3. s \in Nat /\ t \in Nat
  BY DEF Run
<1> QED BY <1>2, <1>3

(* What is known of each cell's record makes a prefix. *)
LEMMA RunsMake ==
    ASSUME NEW f \in Seq(Cell), NEW n \in Nat, n <= Len(f),
           \A i \in 1 .. n : RunWithin(f, n, i)
    PROVE  Prefix(f, n)
<1> SUFFICES ASSUME NEW i \in 1 .. n
             PROVE  /\ i - f[i].at >= 0 /\ i - f[i].at + Length(f[i].of) <= n
                    /\ Holds(f, i - f[i].at, f[i].of)
  BY DEF Prefix, Whole
<1>1. PICK w, s : /\ Run(f, i, w, s) /\ s + Length(w) <= n
                  /\ \A j : j \in Nat /\ s < j /\ j <= s + Length(w) => Run(f, j, w, s)
  <2>1. RunWithin(f, n, i)
    OBVIOUS
  <2> QED BY <2>1 DEF RunWithin
<1>2. f[i].of = w /\ f[i].at = i - s /\ s \in Nat /\ i \in Nat /\ Length(w) \in Nat
  BY <1>1 DEF Run
<1>3. i - f[i].at = s
  BY <1>2
<1>4. Holds(f, s, w)
  <2> SUFFICES ASSUME NEW k \in 1 .. Length(w) PROVE f[s + k] = [of |-> w, at |-> k]
    BY DEF Holds
  <2>1. s + k \in Nat /\ s < s + k /\ s + k <= s + Length(w) /\ (s + k) - s = k
    BY <1>2
  <2>2. Run(f, s + k, w, s)
    BY <1>1, <2>1
  <2> QED BY <2>1, <2>2 DEF Run
<1> QED BY <1>1, <1>2, <1>3, <1>4

(* Whole records stay whole as long as their cells stay. *)
LEMMA PrefixKept ==
    ASSUME NEW f, NEW n, Prefix(f, n), NEW h \in Seq(Cell), n <= Len(h),
           \A i \in 1 .. n : h[i] = f[i]
    PROVE  Prefix(h, n)
<1>n. n \in Nat
  BY DEF Prefix
<1>1. ASSUME NEW i \in 1 .. n PROVE RunWithin(h, n, i)
  <2>1. RunWithin(f, n, i)
    BY <1>n, RunOf
  <2>2. PICK w, s : /\ Run(f, i, w, s) /\ s + Length(w) <= n
                    /\ \A j : j \in Nat /\ s < j /\ j <= s + Length(w) => Run(f, j, w, s)
    BY <2>1 DEF RunWithin
  <2>3. ASSUME NEW j \in Nat, s < j, j <= s + Length(w) PROVE Run(h, j, w, s)
    <3>1. Run(f, j, w, s)
      BY <2>2, <2>3
    <3>2. j \in 1 .. n
      BY <1>n, <2>2, <2>3 DEF Run
    <3> QED BY <3>1, <3>2 DEF Run
  <2>4. Run(h, i, w, s)
    BY <2>2 DEF Run
  <2> QED BY <2>2, <2>3, <2>4 DEF RunWithin
<1> QED BY <1>n, <1>1, RunsMake

(* A record behind whole records is one more whole record. *)
LEMMA PrefixGrows ==
    ASSUME NEW f, Prefix(f, Len(f)), NEW w \in Writers
    PROVE  Prefix(f \o Cells(w), Len(f) + Length(w))
<1> DEFINE n == Len(f)
           L == Length(w)
           c == Cells(w)
           h == f \o c
<1>1. /\ c \in Seq(Cell) /\ Len(c) = L
      /\ \A k \in 1 .. L : c[k] = [of |-> w, at |-> k]
  BY CellsType
<1> HIDE DEF c
<1>2. f \in Seq(Cell) /\ n \in Nat
  BY LenProperties DEF Prefix
<1>3. /\ h \in Seq(Cell) /\ Len(h) = n + L
      /\ \A i \in 1 .. n + L : h[i] = IF i <= n THEN f[i] ELSE c[i - n]
  <2>1. f \in Seq(Cell) /\ c \in Seq(Cell)
    BY <1>1, <1>2
  <2>2. /\ f \o c \in Seq(Cell) /\ Len(f \o c) = Len(f) + Len(c)
        /\ \A i \in 1 .. Len(f) + Len(c) : (f \o c)[i] = IF i <= Len(f) THEN f[i] ELSE c[i - Len(f)]
    BY <2>1, ConcatProperties
  <2> HIDE DEF L
  <2> QED BY <1>1, <2>2
<1>4. L \in Nat /\ L >= 3
  BY LengthType
<1> HIDE DEF h, L
<1>5. \A i \in 1 .. n : h[i] = f[i]
  BY <1>2, <1>3, <1>4
<1>6. Prefix(h, n)
  <2>1. Prefix(f, n) /\ n <= Len(h)
    BY <1>2, <1>3, <1>4
  <2> HIDE DEF n
  <2> QED BY <1>3, <1>5, <2>1, PrefixKept
<1> HIDE DEF n
<1>7. ASSUME NEW j \in Nat, n < j, j <= n + L PROVE Run(h, j, w, n)
  <2>1. j \in 1 .. n + L /\ ~(j <= n) /\ j - n \in 1 .. L
    BY <1>2, <1>4, <1>7
  <2>2. h[j] = c[j - n]
    BY <1>3, <2>1
  <2>3. h[j] = [of |-> w, at |-> j - n]
    BY <1>1, <2>1, <2>2
  <2> QED BY <1>2, <1>4, <1>7, <2>3 DEF Run, L
<1>8. ASSUME NEW i \in 1 .. n + L PROVE RunWithin(h, n + L, i)
  <2>1. CASE i <= n
    <3>1. RunWithin(h, n, i)
      BY <1>2, <1>4, <1>6, <2>1, RunOf
    <3>2. PICK v, s : /\ Run(h, i, v, s) /\ s + Length(v) <= n
                      /\ \A j : j \in Nat /\ s < j /\ j <= s + Length(v) => Run(h, j, v, s)
      BY <3>1 DEF RunWithin
    <3>3. s + Length(v) <= n + L
      BY <1>2, <1>4, <3>2 DEF Run
    <3> QED BY <3>2, <3>3 DEF RunWithin
  <2>2. CASE ~(i <= n)
    <3>1. i \in Nat /\ n < i /\ i <= n + L
      BY <1>2, <1>4, <2>2
    <3>2. Run(h, i, w, n)
      BY <1>7, <3>1
    <3>3. n + Length(w) <= n + L
      BY <1>2, <1>4 DEF L
    <3> QED BY <1>7, <3>2, <3>3 DEF RunWithin, L
  <2> QED BY <2>1, <2>2
<1>9. n + L \in Nat /\ n + L <= Len(h)
  BY <1>2, <1>3, <1>4
<1> QED BY <1>3, <1>8, <1>9, RunsMake DEF n, h, c, L

(* Of whole records cut off at m, whole records are left: what lay entirely *)
(* before the cut.                                                          *)
LEMMA PrefixCut ==
    ASSUME NEW f, NEW n, Prefix(f, n), NEW m \in Nat, m <= n
    PROVE  \E k \in Nat :
              /\ k <= m /\ Prefix(f, k)
              /\ (m = 0 \/ f[m].at = Length(f[m].of)) => k = m
              /\ \A q \in Nat, v \in Writers :
                    1 <= q /\ f[q] = [of |-> v, at |-> 1] /\ q + Length(v) <= m + 1
                        => q + Length(v) <= k + 1
<1>0. n \in Nat /\ n <= Len(f) /\ f \in Seq(Cell) /\ Len(f) \in Nat
  BY LenProperties DEF Prefix
<1>1. CASE m = 0
  <2>1. Prefix(f, 0)
    BY <1>0 DEF Prefix, Whole
  <2> QED BY <1>1, <2>1
<1>2. CASE m # 0
  <2>1. RunWithin(f, n, m)
    BY <1>2, RunOf
  <2>2. PICK w, s : /\ Run(f, m, w, s) /\ s + Length(w) <= n
                    /\ \A j : j \in Nat /\ s < j /\ j <= s + Length(w) => Run(f, j, w, s)
    BY <2>1 DEF RunWithin
  <2>3. /\ s \in Nat /\ s < m /\ m <= s + Length(w) /\ Length(w) \in Nat /\ w \in Writers
        /\ f[m].of = w /\ f[m].at = m - s
    BY <2>2 DEF Run
  <2> DEFINE k == IF m = s + Length(w) THEN m ELSE s
  <2>4. k \in Nat /\ k <= m /\ (f[m].at = Length(f[m].of) => k = m)
    BY <2>3
  <2>e. (k = m /\ m = s + Length(w)) \/ k = s
    OBVIOUS
  <2> HIDE DEF k
  <2>5. ASSUME NEW i \in Nat, 1 <= i, i <= k, NEW v, NEW t,
               Run(f, i, v, t), t + Length(v) <= n,
               \A j : j \in Nat /\ t < j /\ j <= t + Length(v) => Run(f, j, v, t)
        PROVE  t + Length(v) <= k
    <3> SUFFICES ASSUME t + Length(v) > k PROVE FALSE
      BY <2>4, <2>5 DEF Run
    <3>1. t \in Nat /\ t < i /\ Length(v) \in Nat
      BY <2>5 DEF Run
    <3>2. CASE k = m /\ m = s + Length(w)
      <4>1. Run(f, m, v, t)
        BY <2>4, <2>5, <3>1, <3>2
      <4>2. w = v /\ s = t
        BY <2>2, <4>1, RunUnique
      <4> QED BY <2>3, <3>1, <3>2, <4>2
    <3>3. CASE k = s
      <4>1. s + 1 \in Nat /\ t < s + 1 /\ s + 1 <= t + Length(v) /\ s < s + 1 /\ s + 1 <= s + Length(w)
        BY <2>3, <2>5, <3>1, <3>3
      <4>2. Run(f, s + 1, v, t) /\ Run(f, s + 1, w, s)
        BY <2>2, <2>5, <4>1
      <4>3. s = t
        BY <4>1, <4>2, RunUnique
      <4> QED BY <2>5, <3>1, <3>3, <4>3
    <3> QED BY <2>e, <3>2, <3>3
  <2>6. ASSUME NEW i \in 1 .. k PROVE RunWithin(f, k, i)
    <3>1. i \in Nat /\ 1 <= i /\ i <= n /\ i <= k
      BY <1>0, <2>4
    <3>2. RunWithin(f, n, i)
      BY <3>1, RunOf
    <3>3. PICK v, t : /\ Run(f, i, v, t) /\ t + Length(v) <= n
                      /\ \A j : j \in Nat /\ t < j /\ j <= t + Length(v) => Run(f, j, v, t)
      BY <3>2 DEF RunWithin
    <3>4. t + Length(v) <= k
      BY <2>5, <3>1, <3>3
    <3> QED BY <3>3, <3>4 DEF RunWithin
  <2>7. Prefix(f, k)
    <3>1. k <= Len(f)
      BY <1>0, <2>4
    <3> QED BY <1>0, <2>4, <2>6, <3>1, RunsMake
  <2>8. ASSUME NEW q \in Nat, NEW v \in Writers, 1 <= q, f[q] = [of |-> v, at |-> 1],
               q + Length(v) <= m + 1
        PROVE  q + Length(v) <= k + 1
    <3> SUFFICES ASSUME q + Length(v) > k + 1 PROVE FALSE
      BY <2>4, LengthType
    <3>l. Length(v) \in Nat /\ Length(v) >= 3
      BY LengthType
    <3>1. q <= n
      BY <1>0, <2>8, <3>l
    <3>2. RunWithin(f, n, q)
      BY <2>8, <3>1, RunOf
    <3>3. PICK x, t : /\ Run(f, q, x, t)
                      /\ \A j : j \in Nat /\ t < j /\ j <= t + Length(x) => Run(f, j, x, t)
      BY <3>2 DEF RunWithin
    <3>4. x = v /\ q - t = 1 /\ t \in Nat
      BY <2>8, <3>3 DEF Run
    <3>5. t = q - 1
      BY <3>4
    <3> DEFINE e == q + Length(v) - 1
    <3>6. e \in Nat /\ t < e /\ e <= t + Length(v) /\ e <= m /\ e - t = Length(v)
      BY <2>8, <3>l, <3>5
    <3>7. Run(f, e, v, t)
      BY <3>3, <3>4, <3>6
    <3> HIDE DEF e
    <3>8. CASE k = m /\ m = s + Length(w)
      BY <2>8, <3>l, <3>8
    <3>9. CASE k = s
      <4>1. s < e /\ e <= s + Length(w)
        BY <2>3, <3>l, <3>6, <3>9 DEF e
      <4>2. w = v /\ s = t
        BY <2>2, <3>6, <3>7, <4>1, RunUnique
      <4> QED BY <2>3, <2>4, <2>8, <3>l, <3>5, <3>6, <3>9, <4>2
    <3> QED BY <2>e, <3>8, <3>9
  <2> QED BY <1>2, <2>4, <2>7, <2>8
<1> QED BY <1>1, <1>2

-----------------------------------------------------------------------------
(* Two files have the same first m cells. *)
Agree(f, h, m) ==
    /\ f \in Seq(Cell) /\ h \in Seq(Cell) /\ m \in Nat /\ m <= Len(f) /\ m <= Len(h)
    /\ \A i \in 1 .. m : h[i] = f[i]

(* The cells of f are of appends in D, and none is there twice. *)
CellsOf(f, D) ==
    /\ f \in Seq(Cell)
    /\ \A i \in 1 .. Len(f) : f[i].of \in D
    /\ \A i, j \in 1 .. Len(f) : f[i] = f[j] => i = j

(* The first cells of the record of w. *)
StartOf(c, w) == c \in Seq(Cell) /\ \A k \in 1 .. Len(c) : c[k] = [of |-> w, at |-> k]

(* The record of w is among the first n cells of f. *)
RecordIn(f, w, n) ==
    \E q \in 1 .. Len(f) : f[q] = [of |-> w, at |-> 1] /\ q + Length(w) <= n + 1

LEMMA AgreePrefix ==
    ASSUME NEW f, NEW h, NEW m, Agree(f, h, m), NEW n, Prefix(f, n), n <= m
    PROVE  Prefix(h, n)
<1>1. n \in Nat /\ m \in Nat /\ m <= Len(h) /\ Len(h) \in Nat /\ h \in Seq(Cell)
  BY LenProperties DEF Agree, Prefix
<1>2. n <= Len(h)
  BY <1>1
<1>3. \A i \in 1 .. n : h[i] = f[i]
  <2> TAKE i \in 1 .. n
  <2>1. i \in 1 .. m
    BY <1>1
  <2> QED BY <2>1 DEF Agree
<1> QED BY <1>1, <1>2, <1>3, PrefixKept

LEMMA AgreeRecord ==
    ASSUME NEW f, NEW h, NEW m, Agree(f, h, m), NEW n \in Nat, n <= m, NEW k \in Nat, n <= k,
           NEW w \in Writers, RecordIn(f, w, n)
    PROVE  RecordIn(h, w, k)
<1>0. /\ Len(f) \in Nat /\ Len(h) \in Nat /\ m \in Nat /\ m <= Len(f) /\ m <= Len(h)
      /\ Length(w) \in Nat /\ Length(w) >= 3
  BY LenProperties, LengthType DEF Agree
<1>1. PICK q \in 1 .. Len(f) : f[q] = [of |-> w, at |-> 1] /\ q + Length(w) <= n + 1
  BY DEF RecordIn
<1>2. q \in 1 .. m /\ q \in 1 .. Len(h) /\ q + Length(w) <= k + 1
  BY <1>0, <1>1
<1>3. h[q] = f[q]
  BY <1>2 DEF Agree
<1> QED BY <1>1, <1>2, <1>3 DEF RecordIn

LEMMA RecordGrows ==
    ASSUME NEW f, f \in Seq(Cell), NEW n \in Nat, n <= Len(f), NEW k \in Nat, n <= k,
           NEW w \in Writers, RecordIn(f, w, n)
    PROVE  RecordIn(f, w, k)
<1>1. Agree(f, f, n)
  BY LenProperties DEF Agree
<1> QED BY <1>1, AgreeRecord

(* Only appends write cells: what is not one may be left out of D. *)
LEMMA CellsOfGrow ==
    ASSUME NEW f, NEW D, CellsOf(f, D), NEW E, D \cap Writers \subseteq E
    PROVE  CellsOf(f, E)
<1>1. \A i \in 1 .. Len(f) : f[i] \in Cell
  BY LenProperties DEF CellsOf
<1>2. \A i \in 1 .. Len(f) : f[i].of \in Writers
  BY <1>1 DEF Cell
<1> QED BY <1>2 DEF CellsOf

(* Cells of one new append behind a file. *)
LEMMA AppendCells ==
    ASSUME NEW f, NEW D, CellsOf(f, D), NEW w \in Writers, w \notin D, NEW c, StartOf(c, w)
    PROVE  /\ CellsOf(f \o c, D \cup {w}) /\ Len(f \o c) = Len(f) + Len(c)
           /\ Agree(f, f \o c, Len(f))
           /\ Len(c) # 0 => (f \o c)[Len(f) + 1] = [of |-> w, at |-> 1]
<1> DEFINE h == f \o c
           n == Len(f)
           m == Len(c)
<1>0. f \in Seq(Cell) /\ c \in Seq(Cell)
  BY DEF CellsOf, StartOf
<1>1. n \in Nat /\ m \in Nat
  BY <1>0, LenProperties
<1>2. /\ h \in Seq(Cell) /\ Len(h) = n + m
      /\ \A i \in 1 .. n + m : h[i] = IF i <= n THEN f[i] ELSE c[i - n]
  BY <1>0, ConcatProperties
<1>f. /\ \A i \in 1 .. n : f[i].of \in D
      /\ \A i, j \in 1 .. n : f[i] = f[j] => i = j
  BY DEF CellsOf
<1>c. \A k \in 1 .. m : c[k] = [of |-> w, at |-> k]
  BY DEF StartOf
<1> HIDE DEF h, n, m
<1>3. \A i \in 1 .. n : i \in 1 .. n + m /\ h[i] = f[i]
  BY <1>1, <1>2
<1>4. ASSUME NEW i \in 1 .. n + m, i \notin 1 .. n
      PROVE  i - n \in 1 .. m /\ h[i] = [of |-> w, at |-> i - n]
  <2>1. i - n \in 1 .. m /\ ~(i <= n)
    BY <1>1, <1>4
  <2>2. h[i] = c[i - n]
    BY <1>2, <2>1
  <2> QED BY <1>c, <2>1, <2>2
<1>o. ASSUME NEW i \in 1 .. n + m, i \notin 1 .. n
      PROVE  h[i].of = w /\ h[i].at = i - n
  <2>1. h[i] = [of |-> w, at |-> i - n]
    BY <1>4, <1>o
  <2> QED BY <2>1
<1>5. \A i \in 1 .. n + m : h[i].of \in D \cup {w}
  <2> TAKE i \in 1 .. n + m
  <2>1. CASE i \in 1 .. n
    BY <1>3, <1>f, <2>1
  <2>2. CASE i \notin 1 .. n
    BY <1>o, <2>2
  <2> QED BY <2>1, <2>2
<1>6. ASSUME NEW i \in 1 .. n + m, NEW j \in 1 .. n + m, h[i] = h[j] PROVE i = j
  <2>1. \A k \in 1 .. n : h[k].of # w
    BY <1>3, <1>f
  <2>3. CASE i \in 1 .. n /\ j \in 1 .. n
    BY <1>3, <1>6, <1>f, <2>3
  <2>4. CASE i \notin 1 .. n /\ j \notin 1 .. n
    <3>1. i - n = j - n
      BY <1>6, <1>o, <2>4
    <3> QED BY <1>1, <3>1
  <2>5. CASE i \in 1 .. n /\ j \notin 1 .. n
    BY <1>6, <1>o, <2>1, <2>5
  <2>6. CASE i \notin 1 .. n /\ j \in 1 .. n
    BY <1>6, <1>o, <2>1, <2>6
  <2> QED BY <2>3, <2>4, <2>5, <2>6
<1>7. ASSUME m # 0 PROVE h[n + 1] = [of |-> w, at |-> 1]
  <2>1. n + 1 \in 1 .. n + m /\ n + 1 \notin 1 .. n /\ (n + 1) - n = 1
    BY <1>1, <1>7
  <2> QED BY <1>4, <2>1
<1>8. CellsOf(h, D \cup {w})
  BY <1>2, <1>5, <1>6 DEF CellsOf
<1>9. Agree(f, h, n)
  <2>1. n <= Len(f) /\ n <= Len(h)
    BY <1>1, <1>2 DEF n
  <2> QED BY <1>0, <1>1, <1>2, <1>3, <2>1 DEF Agree
<1> QED BY <1>2, <1>7, <1>8, <1>9 DEF h, n, m

-----------------------------------------------------------------------------
(* The state of the log. *)
FsTypeOK ==
    /\ file \in Seq(Cell) /\ synced \in 0 .. Len(file)
    /\ writing \in Writers \cup {NoWriter} /\ writing \notin done
    /\ done \subseteq Writers /\ acked \subseteq done /\ stranded \subseteq Writers
    /\ torn \in BOOLEAN

(* Cells in the file are of appends that were made, and none is there twice. *)
CellsOnce == CellsOf(file, done \cup {writing})

(* The file begins with n cells of whole records: all of it until a record *)
(* is torn.  Acknowledged records that are not stranded are there, in the  *)
(* synced part; so is the record that waits for its sync.                  *)
BeginsWhole(n) ==
    /\ Prefix(file, n)
    /\ ~torn => n = Len(file)
    /\ \A w \in acked \ stranded : RecordIn(file, w, n) /\ RecordIn(file, w, synced)
    /\ writing # NoWriter /\ writing \notin stranded => RecordIn(file, writing, n)

FsInv == FsTypeOK /\ CellsOnce /\ \E n \in 0 .. Len(file) : BeginsWhole(n)

LEMMA FsInit == Init => FsInv
<1> SUFFICES ASSUME Init PROVE FsInv
  OBVIOUS
<1>1. file \in Seq(Cell) /\ Len(file) = 0
  BY EmptySeq DEF Init
<1>2. FsTypeOK
  <2>1. synced \in 0 .. Len(file)
    BY <1>1 DEF Init
  <2>2. NoWriter \notin Writers
    BY FsAssumption
  <2> QED BY <1>1, <2>1, <2>2 DEF Init, FsTypeOK
<1>3. CellsOnce
  BY <1>1 DEF CellsOnce, CellsOf
<1>4. Prefix(file, 0)
  BY <1>1 DEF Prefix, Whole
<1>5. BeginsWhole(0)
  BY <1>1, <1>4 DEF Init, BeginsWhole
<1> QED BY <1>1, <1>2, <1>3, <1>5 DEF FsInv

(* The numbers in a state, and the sets. *)
LEMMA FsFacts ==
    ASSUME FsInv
    PROVE  /\ file \in Seq(Cell) /\ Len(file) \in Nat /\ synced \in Nat /\ synced <= Len(file)
           /\ done \subseteq Writers /\ acked \subseteq Writers /\ acked \subseteq done
           /\ stranded \subseteq Writers /\ NoWriter \notin Writers
           /\ writing \in Writers \cup {NoWriter} /\ writing \notin done /\ torn \in BOOLEAN
           /\ CellsOf(file, done \cup {writing})
<1>1. FsTypeOK /\ CellsOnce
  BY DEF FsInv
<1>2. file \in Seq(Cell) /\ synced \in 0 .. Len(file)
  BY <1>1 DEF FsTypeOK
<1>3. Len(file) \in Nat
  BY <1>2, LenProperties
<1>4. synced \in Nat /\ synced <= Len(file)
  BY <1>2, <1>3
<1> QED BY <1>1, <1>2, <1>3, <1>4, FsAssumption DEF FsTypeOK, CellsOnce

(* The file of an append that writes the first cells c of its record: what   *)
(* was in it is still there.                                                 *)
LEMMA Appended ==
    ASSUME FsInv, writing = NoWriter, NEW w \in Writers, w \notin done, NEW c, StartOf(c, w)
    PROVE  /\ CellsOf(file \o c, done \cup {w}) /\ Len(file \o c) = Len(file) + Len(c)
           /\ Agree(file, file \o c, Len(file))
           /\ Len(c) # 0 => (file \o c)[Len(file) + 1] = [of |-> w, at |-> 1]
<1> DEFINE D == done \cup {NoWriter}
           E == done \cup {w}
           h == file \o c
<1>1. CellsOf(file, D) /\ w \notin D
  BY FsFacts
<1>2. (D \cup {w}) \cap Writers \subseteq E
  BY FsFacts
<1> HIDE DEF D
<1>3. /\ CellsOf(file \o c, D \cup {w}) /\ Len(file \o c) = Len(file) + Len(c)
      /\ Agree(file, file \o c, Len(file))
      /\ Len(c) # 0 => (file \o c)[Len(file) + 1] = [of |-> w, at |-> 1]
  BY <1>1, AppendCells
<1>4. CellsOf(h, D \cup {w})
  BY <1>3
<1> HIDE DEF E, h
<1>5. CellsOf(h, E)
  BY <1>2, <1>4, CellsOfGrow
<1> QED BY <1>3, <1>5 DEF E, h

(* The same for its whole prefix and the records in it. *)
LEMMA AppendedKeeps ==
    ASSUME FsInv, NEW h, Agree(file, h, Len(file)), NEW n \in 0 .. Len(file), BeginsWhole(n)
    PROVE  /\ Prefix(h, n)
           /\ \A v \in acked \ stranded : RecordIn(h, v, n) /\ RecordIn(h, v, synced)
<1>1. /\ Len(file) \in Nat /\ synced \in Nat /\ synced <= Len(file) /\ acked \subseteq Writers
      /\ n \in Nat /\ n <= Len(file)
  BY FsFacts
<1>2. Prefix(file, n)
  BY DEF BeginsWhole
<1> DEFINE m == Len(file)
<1>m. Agree(file, h, m) /\ n <= m /\ synced <= m
  BY <1>1
<1> HIDE DEF m
<1>3. Prefix(h, n)
  BY <1>2, <1>m, AgreePrefix
<1>4. ASSUME NEW v \in acked \ stranded
      PROVE  RecordIn(h, v, n) /\ RecordIn(h, v, synced)
  <2>1. RecordIn(file, v, n) /\ RecordIn(file, v, synced)
    BY DEF BeginsWhole
  <2>2. v \in Writers /\ n <= n /\ synced <= synced
    BY <1>1
  <2>3. RecordIn(h, v, n)
    BY <1>1, <1>m, <2>1, <2>2, AgreeRecord
  <2>4. RecordIn(h, v, synced)
    BY <1>1, <1>m, <2>1, <2>2, AgreeRecord
  <2> QED BY <2>3, <2>4
<1> QED BY <1>3, <1>4

LEMMA WriteStep ==
    ASSUME FsInv, NEW w \in Writers, Write(w)
    PROVE  FsInv'
<1>0. /\ writing = NoWriter /\ w \notin done
      /\ writing' = w /\ synced' = synced /\ done' = done /\ acked' = acked /\ torn' = torn
      /\ stranded' = IF torn THEN stranded \cup {w} ELSE stranded
  BY DEF Write, Idle, Strand
<1>1. StartOf(Cells(w), w) /\ Len(Cells(w)) = Length(w) /\ Length(w) \in Nat /\ Length(w) >= 3
  BY CellsType, LengthType DEF StartOf
<1> DEFINE c == Cells(w)
           h == file \o c
<1>2. /\ CellsOf(h, done \cup {w}) /\ Len(h) = Len(file) + Length(w)
      /\ Agree(file, h, Len(file))
      /\ h[Len(file) + 1] = [of |-> w, at |-> 1]
  <2>1. StartOf(c, w) /\ Len(c) = Length(w) /\ Len(c) # 0
    BY <1>1
  <2> HIDE DEF c
  <2>2. /\ CellsOf(file \o c, done \cup {w}) /\ Len(file \o c) = Len(file) + Len(c)
        /\ Agree(file, file \o c, Len(file))
        /\ Len(c) # 0 => (file \o c)[Len(file) + 1] = [of |-> w, at |-> 1]
    BY <1>0, <2>1, Appended
  <2> QED BY <2>1, <2>2
<1>3. file' = h
  BY DEF Write
<1>g. ~torn => (Prefix(file, Len(file)) => Prefix(h, Len(file) + Length(w)))
  BY PrefixGrows
<1> HIDE DEF h
<1>4. /\ Len(file) \in Nat /\ synced \in Nat /\ synced <= Len(file) /\ NoWriter \notin Writers
      /\ done \subseteq Writers /\ acked \subseteq Writers /\ acked \subseteq done
      /\ stranded \subseteq Writers /\ torn \in BOOLEAN
  BY FsFacts
<1>5. h \in Seq(Cell)
  BY <1>2 DEF CellsOf
<1>6. Len(h) \in Nat /\ Len(file) <= Len(h) /\ synced \in 0 .. Len(h)
  BY <1>1, <1>2, <1>4
<1>7. FsTypeOK'
  <2>1. file' \in Seq(Cell) /\ synced' \in 0 .. Len(file')
    BY <1>0, <1>3, <1>5, <1>6
  <2>2. stranded' \subseteq Writers
    BY <1>0, <1>4
  <2> QED BY <1>0, <1>4, <2>1, <2>2 DEF FsTypeOK
<1>8. CellsOnce'
  BY <1>0, <1>2, <1>3 DEF CellsOnce
<1>9. PICK n \in 0 .. Len(file) : BeginsWhole(n)
  BY DEF FsInv
<1>10. /\ Prefix(h, n)
       /\ \A v \in acked \ stranded : RecordIn(h, v, n) /\ RecordIn(h, v, synced)
  BY <1>2, <1>9, AppendedKeeps
<1>11. n \in Nat /\ n <= Len(file) /\ n \in 0 .. Len(h)
  BY <1>4, <1>6
<1>12. CASE torn
  <2>1. /\ torn' /\ w \in stranded' /\ acked' \ stranded' \subseteq acked \ stranded
    BY <1>0, <1>12
  <2>2. BeginsWhole(n)'
    BY <1>0, <1>3, <1>10, <2>1 DEF BeginsWhole
  <2> QED BY <1>3, <1>7, <1>8, <1>11, <2>2 DEF FsInv
<1>13. CASE ~torn
  <2>1. n = Len(file) /\ Prefix(file, Len(file))
    BY <1>9, <1>13 DEF BeginsWhole
  <2>2. Prefix(h, Len(h))
    BY <1>2, <1>13, <1>g, <2>1
  <2>3. RecordIn(h, w, Len(h))
    <3>1. Len(file) + 1 \in 1 .. Len(h) /\ Len(file) + 1 + Length(w) <= Len(h) + 1
      BY <1>1, <1>2, <1>4
    <3> QED BY <1>2, <3>1 DEF RecordIn
  <2>4. ASSUME NEW v \in acked \ stranded PROVE RecordIn(h, v, Len(h)) /\ RecordIn(h, v, synced)
    <3>1. RecordIn(h, v, n) /\ RecordIn(h, v, synced) /\ v \in Writers
      BY <1>4, <1>10
    <3>2. n <= Len(h)
      BY <1>6, <1>11
    <3> QED BY <1>5, <1>6, <1>11, <3>1, <3>2, RecordGrows
  <2>5. PICK m : m = Len(h)
    OBVIOUS
  <2>6. BeginsWhole(m)'
    <3>1. stranded' = stranded /\ acked' = acked /\ writing' = w /\ synced' = synced /\ ~torn'
      BY <1>0, <1>13
    <3> QED BY <1>3, <2>2, <2>3, <2>4, <2>5, <3>1 DEF BeginsWhole
  <2>7. m \in 0 .. Len(file')
    BY <1>3, <1>6, <2>5
  <2> QED BY <1>7, <1>8, <2>6, <2>7 DEF FsInv
<1> QED BY <1>12, <1>13

LEMMA WriteShortStep ==
    ASSUME FsInv, NEW w \in Writers, NEW m \in 0 .. (Header + Size[w]), WriteShort(w, m)
    PROVE  FsInv'
<1> DEFINE c == SubSeq(Cells(w), 1, m)
           h == file \o c
<1>0. /\ writing = NoWriter /\ w \notin done /\ done' = done \cup {w}
      /\ torn' = (torn \/ m > 0)
      /\ synced' = synced /\ writing' = writing /\ acked' = acked /\ stranded' = stranded
  BY DEF WriteShort, Idle
<1>1. StartOf(c, w) /\ Len(c) = m /\ m \in Nat
  <2>1. m \in Nat /\ m <= Length(w) /\ 1 + m - 1 = m /\ Length(w) \in Nat
    BY LengthType DEF Length
  <2>2. \A k \in 1 .. Length(w) : Cells(w)[k] = [of |-> w, at |-> k] /\ Cells(w)[k] \in Cell
    BY CellsType, LenProperties
  <2>3. \A k \in 1 .. m : k \in 1 .. Length(w) /\ 1 + k - 1 = k
    BY <2>1
  <2>4. \A k \in 1 .. (1 + m - 1) : Cells(w)[k] \in Cell
    BY <2>1, <2>2, <2>3
  <2>5. /\ SubSeq(Cells(w), 1, 1 + m - 1) \in Seq(Cell) /\ Len(SubSeq(Cells(w), 1, 1 + m - 1)) = m
        /\ \A k \in 1 .. m : SubSeq(Cells(w), 1, 1 + m - 1)[k] = Cells(w)[1 + k - 1]
    BY <2>1, <2>4, Piece
  <2>6. c \in Seq(Cell) /\ Len(c) = m
    BY <2>1, <2>5
  <2>7. \A k \in 1 .. m : c[k] = [of |-> w, at |-> k]
    BY <2>1, <2>2, <2>3, <2>5
  <2> QED BY <2>1, <2>6, <2>7 DEF StartOf
<1>3. file' = h
  BY DEF WriteShort
<1> HIDE DEF c
<1>2. /\ CellsOf(h, done \cup {w}) /\ Len(h) = Len(file) + m
      /\ Agree(file, h, Len(file))
  BY <1>0, <1>1, Appended
<1> HIDE DEF h
<1>4. /\ Len(file) \in Nat /\ synced \in Nat /\ synced <= Len(file) /\ NoWriter \notin Writers
      /\ done \subseteq Writers /\ acked \subseteq done
      /\ stranded \subseteq Writers /\ torn \in BOOLEAN
  BY FsFacts
<1>5. h \in Seq(Cell)
  BY <1>2 DEF CellsOf
<1>6. Len(h) \in Nat /\ synced \in 0 .. Len(h)
  BY <1>1, <1>2, <1>4
<1>7. FsTypeOK'
  <2>1. file' \in Seq(Cell) /\ synced' \in 0 .. Len(file')
    BY <1>0, <1>3, <1>5, <1>6
  <2>2. torn' \in BOOLEAN
    BY <1>0
  <2>3. writing' \notin done' /\ done' \subseteq Writers /\ acked' \subseteq done'
    BY <1>0, <1>4
  <2> QED BY <1>0, <1>4, <2>1, <2>2, <2>3 DEF FsTypeOK
<1>8. CellsOnce'
  <2> DEFINE D == done \cup {w}
             E == done' \cup {writing'}
  <2>1. CellsOf(h, D) /\ D \cap Writers \subseteq E
    BY <1>0, <1>2
  <2> HIDE DEF D, E
  <2>2. CellsOf(h, E)
    BY <2>1, CellsOfGrow
  <2> QED BY <1>3, <2>2 DEF CellsOnce, E
<1>9. PICK n \in 0 .. Len(file) : BeginsWhole(n)
  BY DEF FsInv
<1>10. /\ Prefix(h, n)
       /\ \A v \in acked \ stranded : RecordIn(h, v, n) /\ RecordIn(h, v, synced)
  BY <1>2, <1>9, AppendedKeeps
<1>11. n \in 0 .. Len(h)
  BY <1>1, <1>2, <1>4
<1>12. ~torn' => n = Len(h)
  <2> SUFFICES ASSUME ~torn' PROVE n = Len(h)
    OBVIOUS
  <2>1. ~torn /\ ~(m > 0)
    BY <1>0
  <2>3. m = 0
    BY <1>1, <2>1
  <2>2. n = Len(file)
    BY <1>9, <2>1 DEF BeginsWhole
  <2> QED BY <1>2, <1>4, <2>2, <2>3
<1>13. BeginsWhole(n)'
  BY <1>0, <1>3, <1>10, <1>12 DEF BeginsWhole
<1> QED BY <1>3, <1>7, <1>8, <1>11, <1>13 DEF FsInv

(* More of the file synced, and the append that was under way at its end, if *)
(* there was one.                                                            *)
LEMMA SyncedMore ==
    ASSUME FsInv, file' = file, torn' = torn, stranded' = stranded,
           synced' = synced \/ synced' = Len(file),
           \/ writing' = writing /\ done' = done
           \/ writing \in Writers /\ writing' = NoWriter /\ done' = done \cup {writing},
           \/ acked' = acked
           \/ acked' = acked \cup {writing} /\ done' = done \cup {writing}
                /\ writing \in Writers /\ synced' = Len(file)
    PROVE  FsInv'
<1>1. /\ file \in Seq(Cell) /\ Len(file) \in Nat /\ synced \in Nat /\ synced <= Len(file)
      /\ done \subseteq Writers /\ acked \subseteq Writers /\ acked \subseteq done
      /\ stranded \subseteq Writers /\ NoWriter \notin Writers
      /\ writing \in Writers \cup {NoWriter} /\ writing \notin done /\ torn \in BOOLEAN
      /\ CellsOf(file, done \cup {writing})
  BY FsFacts
<1>2. synced' \in Nat /\ synced <= synced' /\ synced' <= Len(file) /\ synced' \in 0 .. Len(file)
  BY <1>1
<1>3. FsTypeOK'
  <2>1. /\ writing' \in Writers \cup {NoWriter} /\ writing' \notin done'
        /\ done' \subseteq Writers /\ acked' \subseteq done'
    BY <1>1
  <2> QED BY <1>1, <1>2, <2>1 DEF FsTypeOK
<1>4. CellsOnce'
  <2> DEFINE D == done \cup {writing}
             E == done' \cup {writing'}
  <2>1. CellsOf(file, D) /\ D \cap Writers \subseteq E
    BY <1>1
  <2> HIDE DEF D, E
  <2>2. CellsOf(file, E)
    BY <2>1, CellsOfGrow
  <2> QED BY <2>2 DEF CellsOnce, E
<1>5. PICK n \in 0 .. Len(file) : BeginsWhole(n)
  BY DEF FsInv
<1>6. n \in Nat /\ n <= Len(file)
  BY <1>1
<1>7. ASSUME NEW v \in acked' \ stranded
      PROVE  RecordIn(file, v, n) /\ RecordIn(file, v, synced')
  <2>1. v \in Writers
    BY <1>1
  <2>2. CASE v \in acked
    <3>1. RecordIn(file, v, n) /\ RecordIn(file, v, synced)
      BY <1>5, <1>7, <2>2 DEF BeginsWhole
    <3> QED BY <1>1, <1>2, <2>1, <3>1, RecordGrows
  <2>3. CASE v \notin acked
    <3>1. v = writing /\ writing # NoWriter /\ writing \notin stranded /\ synced' = Len(file)
      BY <1>1, <1>7, <2>3
    <3>2. RecordIn(file, v, n)
      BY <1>5, <3>1 DEF BeginsWhole
    <3>3. n <= synced'
      BY <1>6, <3>1
    <3> QED BY <1>1, <1>2, <1>6, <2>1, <3>2, <3>3, RecordGrows
  <2> QED BY <2>2, <2>3
<1>8. writing' # NoWriter => writing' = writing
  OBVIOUS
<1>9. BeginsWhole(n)'
  BY <1>5, <1>7, <1>8 DEF BeginsWhole
<1> QED BY <1>3, <1>4, <1>9 DEF FsInv

LEMMA SyncSteps ==
    ASSUME FsInv,
           Close \/ (\E w \in Writers : Sync(w) \/ SyncFails(w)) \/ UNCHANGED vars
    PROVE  FsInv'
<1>1. file' = file /\ torn' = torn /\ stranded' = stranded
  BY DEF Close, Sync, SyncFails, vars
<1>2. synced' = synced \/ synced' = Len(file)
  BY DEF Close, Sync, SyncFails, vars
<1>3. \/ writing' = writing /\ done' = done
      \/ writing \in Writers /\ writing' = NoWriter /\ done' = done \cup {writing}
  BY DEF Close, Sync, SyncFails, vars
<1>4. \/ acked' = acked
      \/ acked' = acked \cup {writing} /\ done' = done \cup {writing}
           /\ writing \in Writers /\ synced' = Len(file)
  BY DEF Close, Sync, SyncFails, vars
<1> QED BY <1>1, <1>2, <1>3, <1>4, SyncedMore

LEMMA CellsCut ==
    ASSUME NEW f, NEW h, NEW m, Agree(f, h, m), Len(h) = m, NEW D, CellsOf(f, D)
    PROVE  CellsOf(h, D)
<1>1. /\ h \in Seq(Cell) /\ m \in Nat /\ m <= Len(f) /\ Len(f) \in Nat
      /\ \A i \in 1 .. m : h[i] = f[i]
  BY LenProperties DEF Agree
<1>2. \A i \in 1 .. m : i \in 1 .. Len(f)
  BY <1>1
<1> QED BY <1>1, <1>2 DEF CellsOf

LEMMA CrashStep ==
    ASSUME FsInv, NEW m \in 0 .. Len(file), Crash(m)
    PROVE  FsInv'
<1> DEFINE h == SubSeq(file, 1, m)
<1>0. /\ synced' = m /\ writing' = NoWriter
      /\ done' = IF writing = NoWriter THEN done ELSE done \cup {writing}
      /\ torn' = (torn \/ (m > 0 /\ file[m].at # Length(file[m].of)))
      /\ acked' = acked /\ stranded' = stranded
  BY DEF Crash, Length
<1>1. /\ file \in Seq(Cell) /\ Len(file) \in Nat /\ synced \in Nat /\ synced <= Len(file)
      /\ done \subseteq Writers /\ acked \subseteq Writers /\ acked \subseteq done
      /\ stranded \subseteq Writers /\ NoWriter \notin Writers
      /\ writing \in Writers \cup {NoWriter} /\ writing \notin done /\ torn \in BOOLEAN
      /\ CellsOf(file, done \cup {writing})
  BY FsFacts
<1>2. m \in Nat /\ m <= Len(file) /\ synced <= m
  BY <1>1 DEF Crash
<1>3. h \in Seq(Cell) /\ Len(h) = m /\ \A i \in 1 .. m : h[i] = file[i]
  <2>1. 1 + m - 1 = m /\ (\A i \in 1 .. m : 1 + i - 1 = i) /\ \A i \in 1 .. m : i \in 1 .. Len(file)
    BY <1>1, <1>2
  <2>2. \A i \in 1 .. (1 + m - 1) : file[i] \in Cell
    BY <1>1, <2>1, LenProperties
  <2>3. /\ SubSeq(file, 1, 1 + m - 1) \in Seq(Cell) /\ Len(SubSeq(file, 1, 1 + m - 1)) = m
        /\ \A i \in 1 .. m : SubSeq(file, 1, 1 + m - 1)[i] = file[1 + i - 1]
    BY <1>2, <2>2, Piece
  <2>4. h \in Seq(Cell) /\ Len(h) = m
    BY <2>1, <2>3
  <2>5. \A i \in 1 .. m : h[i] = file[i]
    BY <2>1, <2>3
  <2> QED BY <2>4, <2>5
<1>4. file' = h
  BY DEF Crash
<1> HIDE DEF h
<1>5. Agree(file, h, m)
  BY <1>1, <1>2, <1>3 DEF Agree
<1>6. FsTypeOK'
  <2>1. file' \in Seq(Cell) /\ synced' \in 0 .. Len(file')
    BY <1>0, <1>2, <1>3, <1>4
  <2>2. torn' \in BOOLEAN
    BY <1>0
  <2>3. /\ writing' \in Writers \cup {NoWriter} /\ writing' \notin done'
        /\ done' \subseteq Writers /\ acked' \subseteq done' /\ stranded' \subseteq Writers
    BY <1>0, <1>1
  <2> QED BY <2>1, <2>2, <2>3 DEF FsTypeOK
<1>7. CellsOnce'
  <2> DEFINE D == done \cup {writing}
             E == done' \cup {writing'}
  <2>1. CellsOf(file, D) /\ D \cap Writers \subseteq E
    BY <1>0, <1>1
  <2> HIDE DEF D, E
  <2>2. CellsOf(h, D)
    BY <1>3, <1>5, <2>1, CellsCut
  <2>3. CellsOf(h, E)
    BY <2>1, <2>2, CellsOfGrow
  <2> QED BY <1>4, <2>3 DEF CellsOnce, E
<1>8. PICK n \in 0 .. Len(file) : BeginsWhole(n)
  BY DEF FsInv
<1>9. n \in Nat /\ n <= Len(file) /\ Prefix(file, n)
  BY <1>1, <1>8 DEF BeginsWhole
<1>10. ASSUME NEW v \in acked \ stranded
       PROVE  /\ RecordIn(h, v, m) /\ v \in Writers
              /\ RecordIn(file, v, n) /\ RecordIn(file, v, synced)
  <2>1. RecordIn(file, v, n) /\ RecordIn(file, v, synced) /\ v \in Writers
    BY <1>1, <1>8 DEF BeginsWhole
  <2>2. RecordIn(h, v, m)
    BY <1>1, <1>2, <1>5, <2>1, AgreeRecord
  <2> QED BY <2>1, <2>2
<1>11. SUFFICES \E k \in Nat : /\ k <= m /\ Prefix(h, k) /\ (~torn' => k = m)
                               /\ \A v \in acked \ stranded : RecordIn(h, v, k)
  <2>1. PICK k \in Nat : /\ k <= m /\ Prefix(h, k) /\ (~torn' => k = m)
                         /\ \A v \in acked \ stranded : RecordIn(h, v, k)
    BY <1>11
  <2>2. k \in 0 .. Len(file')
    BY <1>2, <1>3, <1>4, <2>1
  <2>3. BeginsWhole(k)'
    BY <1>0, <1>3, <1>4, <1>10, <2>1 DEF BeginsWhole
  <2> QED BY <1>6, <1>7, <2>2, <2>3 DEF FsInv
<1>12. CASE n <= m
  <2>1. Prefix(h, n)
    BY <1>5, <1>9, <1>12, AgreePrefix
  <2>2. ~torn' => n = m
    <3> SUFFICES ASSUME ~torn' PROVE n = m
      OBVIOUS
    <3>1. n = Len(file)
      BY <1>0, <1>8 DEF BeginsWhole
    <3> QED BY <1>1, <1>2, <1>12, <3>1
  <2>3. ASSUME NEW v \in acked \ stranded PROVE RecordIn(h, v, n)
    <3>1. RecordIn(file, v, n) /\ v \in Writers /\ n <= n
      BY <1>9, <1>10
    <3> QED BY <1>5, <1>9, <1>12, <3>1, AgreeRecord
  <2> QED BY <1>9, <1>12, <2>1, <2>2, <2>3
<1>13. CASE ~(n <= m)
  <2>0. m <= n
    BY <1>2, <1>9, <1>13
  <2>1. PICK k \in Nat :
              /\ k <= m /\ Prefix(file, k)
              /\ (m = 0 \/ file[m].at = Length(file[m].of)) => k = m
              /\ \A q \in Nat, v \in Writers :
                    1 <= q /\ file[q] = [of |-> v, at |-> 1] /\ q + Length(v) <= m + 1
                        => q + Length(v) <= k + 1
    BY <1>2, <1>9, <2>0, PrefixCut
  <2>2. Prefix(h, k)
    BY <1>5, <2>1, AgreePrefix
  <2>3. ~torn' => k = m
    <3>1. ~torn' => m = 0 \/ file[m].at = Length(file[m].of)
      <4>1. ~torn' => ~(m > 0 /\ file[m].at # Length(file[m].of))
        BY <1>0
      <4>2. m > 0 \/ m = 0
        BY <1>2
      <4> QED BY <4>1, <4>2, Zenon
    <3> QED BY <2>1, <3>1
  <2>4. ASSUME NEW v \in acked \ stranded PROVE RecordIn(h, v, k)
    <3>1. RecordIn(file, v, synced) /\ v \in Writers
      BY <1>10
    <3>2. PICK q \in 1 .. Len(file) : file[q] = [of |-> v, at |-> 1] /\ q + Length(v) <= synced + 1
      BY <3>1 DEF RecordIn
    <3>3. q \in Nat /\ 1 <= q /\ q + Length(v) <= m + 1
      BY <1>1, <1>2, <3>1, <3>2, LengthType
    <3>4. q + Length(v) <= k + 1
      BY <2>1, <3>1, <3>2, <3>3
    <3>5. RecordIn(file, v, k) /\ k <= k
      BY <2>1, <3>2, <3>4 DEF RecordIn
    <3> QED BY <1>5, <2>1, <3>1, <3>5, AgreeRecord
  <2> QED BY <2>1, <2>2, <2>3, <2>4
<1> QED BY <1>12, <1>13

(* FsInv is an invariant of the log. *)
THEOREM FsInvariant == Spec => []FsInv
<1>1. ASSUME FsInv, [Next]_vars PROVE FsInv'
  <2>1. CASE \E w \in Writers : Write(w)
    BY <1>1, <2>1, WriteStep
  <2>2. CASE \E w \in Writers : \E m \in 0 .. (Header + Size[w]) : WriteShort(w, m)
    BY <1>1, <2>2, WriteShortStep
  <2>3. CASE Close \/ (\E w \in Writers : Sync(w) \/ SyncFails(w)) \/ UNCHANGED vars
    BY <1>1, <2>3, SyncSteps
  <2>4. CASE \E m \in 0 .. Len(file) : Crash(m)
    BY <1>1, <2>4, CrashStep
  <2> QED BY <1>1, <2>1, <2>2, <2>3, <2>4 DEF Next
<1> QED BY <1>1, FsInit, PTL DEF Spec

-----------------------------------------------------------------------------
(* A read starts at the first record. *)
LEMMA FirstBoundary ==
    ASSUME NEW f, NEW n, Prefix(f, n)
    PROVE  Boundary(f, n, 1)
<1>1. n \in Nat
  BY DEF Prefix
<1>2. ASSUME 1 <= n PROVE f[1].at = 1
  <2>1. RunWithin(f, n, 1)
    BY <1>2, RunOf
  <2>2. PICK w, s : Run(f, 1, w, s)
    BY <2>1 DEF RunWithin
  <2>3. s = 0 /\ f[1] = [of |-> w, at |-> 1 - s]
    BY <2>2 DEF Run
  <2> QED BY <2>3
<1> QED BY <1>1, <1>2 DEF Boundary

(* What is read is a sequence of bodies. *)
LEMMA ReplayType ==
    ASSUME NEW f \in Seq(Cell), NEW g, Parses(f, 1, g)
    PROVE  g[1] \in Records /\ DOMAIN g[1] = 1 .. Len(g[1])
<1>1. 1 \in 1 .. (Len(f) + 1)
  BY LenProperties
<1>2. g[1] \in Records
  BY <1>1 DEF Parses
<1> QED BY <1>2, LenProperties DEF Records

LEMMA WholeRecordsRead ==
    ASSUME FsInv
    PROVE  AckedBeforeTearKept
<1> SUFFICES ASSUME NEW w \in acked \ stranded PROVE ReadBack(w)
  BY DEF AckedBeforeTearKept
<1>1. PICK n \in 0 .. Len(file) : BeginsWhole(n)
  BY DEF FsInv
<1>2. Prefix(file, n) /\ RecordIn(file, w, n)
  BY <1>1 DEF BeginsWhole
<1>3. file \in Seq(Cell) /\ w \in Writers /\ n \in Nat
  BY <1>2, FsFacts DEF Prefix
<1>4. PICK g : Parses(file, 1, g) /\ Replay = g[1]
  BY <1>3, ReadsParse DEF Replay
<1>5. Gives(file, n, 1, g[1])
  BY <1>2, <1>4, FirstBoundary, ReadsWhole
<1>6. PICK q \in 1 .. Len(file) : file[q] = [of |-> w, at |-> 1] /\ q + Length(w) <= n + 1
  BY <1>2 DEF RecordIn
<1>7. q \in 1 .. n
  BY <1>3, <1>6, LengthType, LenProperties
<1>8. file[q].at = 1 /\ file[q].of = w
  BY <1>6
<1>9. \E i \in 1 .. Len(g[1]) : g[1][i] = Body(w)
  BY <1>5, <1>7, <1>8 DEF Gives
<1> QED BY <1>3, <1>4, <1>9, ReplayType DEF ReadBack

LEMMA CleanFileRead ==
    ASSUME FsInv
    PROVE  CleanReplay
<1> SUFFICES ASSUME ~torn, writing = NoWriter
             PROVE  /\ \A i \in DOMAIN Replay : \E w \in done : Replay[i] = Body(w)
                    /\ \A i, j \in DOMAIN Replay : Replay[i] = Replay[j] => i = j
                    /\ FlattenSeq([i \in DOMAIN Replay |-> Cells(Replay[i][1].of)]) = file
  BY DEF CleanReplay
<1>1. PICK n \in 0 .. Len(file) : BeginsWhole(n)
  BY DEF FsInv
<1>2. Prefix(file, Len(file))
  BY <1>1 DEF BeginsWhole
<1>3. file \in Seq(Cell) /\ Len(file) \in Nat /\ CellsOf(file, done \cup {NoWriter}) /\ NoWriter \notin Writers
  BY FsFacts
<1>4. PICK g : Parses(file, 1, g) /\ Replay = g[1]
  BY <1>3, ReadsParse DEF Replay
<1>5. /\ \A q \in 1 .. Len(file) : file[q].of \in done \cup {NoWriter}
      /\ \A q, s \in 1 .. Len(file) : file[q] = file[s] => q = s
  BY <1>3 DEF CellsOf
<1>6. Boundary(file, Len(file), 1)
  BY <1>2, FirstBoundary
<1>7. GivesOnly(file, Len(file), 1, g[1]) /\ GivesOnce(g[1])
  BY <1>2, <1>4, <1>5, <1>6, ReadsExactly
<1>8. DOMAIN Replay = 1 .. Len(g[1])
  BY <1>3, <1>4, ReplayType
<1>9. ASSUME NEW i \in DOMAIN Replay PROVE \E w \in done : Replay[i] = Body(w)
  <2>1. PICK q \in 1 .. Len(file) : g[1][i] = Body(file[q].of)
    BY <1>7, <1>8 DEF GivesOnly
  <2>2. file[q] \in Cell
    BY <1>3, LenProperties
  <2>3. file[q].of \in Writers
    BY <2>2 DEF Cell
  <2>4. file[q].of \in done
    BY <1>3, <1>5, <2>3
  <2> QED BY <1>4, <2>1, <2>4
<1>10. \A i, j \in DOMAIN Replay : Replay[i] = Replay[j] => i = j
  BY <1>4, <1>7, <1>8 DEF GivesOnce
<1>11. FlattenSeq(Framed(g[1])) = SubSeq(file, 1, Len(file))
  BY <1>2, <1>4, <1>6, ReadsAll
<1>12. SubSeq(file, 1, Len(file)) = file
  BY <1>3, SubSeqFull
<1>13. FlattenSeq([i \in DOMAIN Replay |-> Cells(Replay[i][1].of)]) = file
  BY <1>4, <1>11, <1>12 DEF Framed
<1> QED BY <1>9, <1>10, <1>13

(* Every acknowledged record that was appended to an intact file is returned *)
(* by read_records, whatever happened to the file since: a crash that kept   *)
(* any part of what was not synced, a short write, a failed sync, a header   *)
(* that decodes to anything.                                                 *)
THEOREM AckedRecordsAreRead == Spec => []AckedBeforeTearKept
BY FsInvariant, WholeRecordsRead, PTL

(* As long as no record was torn, read_records returns the records of        *)
(* finished appends and nothing else, each once, and these are the whole     *)
(* file.                                                                     *)
THEOREM CleanFilesReadBack == Spec => []CleanReplay
BY FsInvariant, CleanFileRead, PTL

(* Both: a read of the log loses nothing that was acknowledged and invents   *)
(* nothing (read_records).                                                   *)
THEOREM ReadsAreExact == Spec => []ReadExact
<1>1. AckedBeforeTearKept /\ CleanReplay => ReadExact
  BY DEF ReadExact
<1> QED BY <1>1, AckedRecordsAreRead, CleanFilesReadBack, PTL

LEMMA FsStep ==
    ASSUME RecoveryNext \/ UNCHANGED recoveryVars
    PROVE  [Next]_vars
<1>1. CASE LogStep
  BY <1>1 DEF LogStep, Next
<1>2. CASE \E q \in Puts : Export(q) \/ Label(q) \/ ExistingSeqs(q) \/ WriteTemp(q) \/ Rename(q)
  BY <1>2 DEF Export, Label, ExistingSeqs, WriteTemp, Rename
<1>3. CASE Restart
  BY <1>3 DEF Restart, Next
<1>4. CASE UNCHANGED recoveryVars
  BY <1>4 DEF recoveryVars
<1> QED BY <1>1, <1>2, <1>3, <1>4 DEF RecoveryNext

(* Recovery takes the log's steps, and so has the log's properties. *)
THEOREM RecoveryLogs == RecoverySpec => Spec
<1>1. RecoveryInit => Init
  BY DEF RecoveryInit
<1>2. [RecoveryNext]_recoveryVars => [Next]_vars
  BY FsStep
<1> QED BY <1>1, <1>2, PTL DEF RecoverySpec, Spec

-----------------------------------------------------------------------------
(* An enumeration of a finite set without repetition meets every element. *)
LEMMA OrderCovers ==
    ASSUME NEW D, IsFiniteSet(D), NEW order \in SetToSeqs(D)
    PROVE  /\ Cardinality(D) \in Nat /\ order \in Seq(D) /\ Len(order) = Cardinality(D)
           /\ \A d \in D : \E i \in 1 .. Cardinality(D) : order[i] = d
<1> DEFINE n == Cardinality(D)
           R == {order[i] : i \in 1 .. n}
<1>1. n \in Nat
  BY FS_CardinalityType
<1>2. order \in [1 .. n -> D] /\ \A i, j \in 1 .. n : i # j => order[i] # order[j]
  BY DEF SetToSeqs
<1>3. order \in Seq(D) /\ Len(order) = n
  <2> HIDE DEF n
  <2> QED BY <1>1, <1>2, LenProperties
<1>4. R \in SUBSET D
  BY <1>2
<1>5. ExistsBijection(1 .. n, R)
  <2> HIDE DEF n
  <2>1. order \in [1 .. n -> R]
    BY <1>2
  <2>2. order \in Bijection(1 .. n, R)
    BY <1>2, <2>1 DEF Bijection, Injection, Surjection, IsInjective
  <2> QED BY <2>2 DEF ExistsBijection
<1> HIDE DEF R
<1>6. Cardinality(R) = n
  <2> HIDE DEF n
  <2> QED BY <1>1, <1>5, FS_CountingElements
<1>7. D = R
  BY <1>4, <1>6, FS_Subset
<1> HIDE DEF n
<1> QED BY <1>1, <1>3, <1>7 DEF n, R

(* The partial results of pick_latest_by_vv. *)
Picks(files, order, n, h) ==
    \A i \in 1 .. n : h[i] = IF i = 1 THEN files[order[1]] ELSE PickNewer(h[i - 1], files[order[i]])

LEMMA PicksExists ==
    ASSUME NEW files, NEW order, NEW n \in Nat
    PROVE  \A k \in 1 .. n : \E h : h = [i \in 1 .. k |-> h[i]] /\ Picks(files, order, k, h)
<1> DEFINE S == {k \in 1 .. n : \E h : h = [i \in 1 .. k |-> h[i]] /\ Picks(files, order, k, h)}
<1>1. ASSUME NEW k \in 1 .. n, \A j \in 1 .. (k - 1) : j \in S
      PROVE  k \in S
  <2>1. CASE k = 1
    <3> DEFINE h == [i \in 1 .. k |-> files[order[1]]]
    <3>1. h = [i \in 1 .. k |-> h[i]] /\ Picks(files, order, k, h)
      BY <2>1 DEF Picks
    <3> HIDE DEF h
    <3> QED BY <3>1
  <2>2. CASE k # 1
    <3>1. k - 1 \in 1 .. (k - 1)
      BY <2>2
    <3>2. PICK e : Picks(files, order, k - 1, e)
      BY <1>1, <3>1
    <3> DEFINE last == PickNewer(e[k - 1], files[order[k]])
               h == [i \in 1 .. k |-> IF i = k THEN last ELSE e[i]]
    <3>3. last = PickNewer(e[k - 1], files[order[k]])
      OBVIOUS
    <3> HIDE DEF last
    <3>4. h = [i \in 1 .. k |-> h[i]] /\ h[k] = last /\ \A i \in 1 .. (k - 1) : h[i] = e[i]
      OBVIOUS
    <3> HIDE DEF h
    <3>5. ASSUME NEW i \in 1 .. k
          PROVE  h[i] = IF i = 1 THEN files[order[1]] ELSE PickNewer(h[i - 1], files[order[i]])
      <4>1. CASE i = k
        BY <2>2, <3>1, <3>3, <3>4, <4>1
      <4>2. CASE i # k
        <5>1. i \in 1 .. (k - 1) /\ (i # 1 => i - 1 \in 1 .. (k - 1))
          BY <4>2
        <5>2. e[i] = IF i = 1 THEN files[order[1]] ELSE PickNewer(e[i - 1], files[order[i]])
          BY <3>2, <5>1 DEF Picks
        <5> QED BY <3>4, <5>1, <5>2
      <4> QED BY <4>1, <4>2
    <3> QED BY <3>4, <3>5 DEF Picks
  <2> QED BY <2>1, <2>2
<1>2. \A k \in 1 .. n : k \in S
  <2> HIDE DEF S
  <2> QED BY <1>1, Upwards
<1> QED BY <1>2

LEMMA PickLatestIs ==
    ASSUME NEW files, NEW order, Len(order) \in Nat, Len(order) # 0
    PROVE  \E h : Picks(files, order, Len(order), h) /\ PickLatest(files, order) = h[Len(order)]
<1> DEFINE best[i \in 1 .. Len(order)] ==
               IF i = 1 THEN files[order[1]] ELSE PickNewer(best[i - 1], files[order[i]])
<1>0. Len(order) \in 1 .. Len(order)
  OBVIOUS
<1>1. PICK h : h = [i \in 1 .. Len(order) |-> h[i]] /\ Picks(files, order, Len(order), h)
  BY <1>0, PicksExists
<1>2. h = [i \in 1 .. Len(order) |->
             IF i = 1 THEN files[order[1]] ELSE PickNewer(h[i - 1], files[order[i]])]
  BY <1>1 DEF Picks
<1>3. best = [i \in 1 .. Len(order) |->
                IF i = 1 THEN files[order[1]] ELSE PickNewer(best[i - 1], files[order[i]])]
  BY <1>2, Zenon
<1>4. PickLatest(files, order) = best[Len(order)]
  BY DEF PickLatest
<1> HIDE DEF best
<1>5. Picks(files, order, Len(order), best)
  BY <1>3 DEF Picks
<1> QED BY <1>4, <1>5

(* Of files whose versions are what they hold, and stages of one history,  *)
(* the one that latest picks holds what any of them holds.                 *)
LEMMA LatestHoldsAll ==
    ASSUME NEW files, IsFiniteSet(DOMAIN files),
           \A n \in DOMAIN files : files[n].vv = files[n].bytes,
           \A m, n \in DOMAIN files : files[m].bytes \subseteq files[n].bytes
                                        \/ files[n].bytes \subseteq files[m].bytes,
           NEW held \in Latest(files), NEW d \in DOMAIN files
    PROVE  files[d].bytes \subseteq held
<1> DEFINE D == DOMAIN files
           n == Cardinality(D)
<1>1. PICK order \in SetToSeqs(D) : held = PickLatest(files, order).bytes
  BY DEF Latest
<1>2. /\ n \in Nat /\ order \in Seq(D) /\ Len(order) = n
      /\ \A e \in D : \E i \in 1 .. n : order[i] = e
  BY OrderCovers
<1> HIDE DEF n
<1>3. n # 0
  BY <1>2
<1>4. PICK h : Picks(files, order, n, h) /\ PickLatest(files, order) = h[n]
  BY <1>2, <1>3, PickLatestIs
<1>5. \A i \in 1 .. n : order[i] \in D
  BY <1>2, LenProperties
<1>v. \A e, f \in D : files[e].vv \subseteq files[f].vv \/ files[f].vv \subseteq files[e].vv
  OBVIOUS
<1> DEFINE S == {i \in 1 .. n : /\ \E e \in D : h[i] = files[e]
                                /\ \A j \in 1 .. i : files[order[j]].vv \subseteq h[i].vv}
<1>6. ASSUME NEW i \in 1 .. n, \A j \in 1 .. (i - 1) : j \in S
      PROVE  i \in S
  <2>1. h[i] = IF i = 1 THEN files[order[1]] ELSE PickNewer(h[i - 1], files[order[i]])
    BY <1>4 DEF Picks
  <2>2. CASE i = 1
    <3>1. h[i] = files[order[1]] /\ order[1] \in D /\ \A j \in 1 .. i : j = 1
      BY <1>5, <2>1, <2>2
    <3> QED BY <3>1
  <2>3. CASE i # 1
    <3>1. i - 1 \in 1 .. (i - 1)
      BY <2>3
    <3>2. PICK e \in D : h[i - 1] = files[e]
      BY <1>6, <3>1
    <3>3. \A j \in 1 .. (i - 1) : files[order[j]].vv \subseteq h[i - 1].vv
      BY <1>6, <3>1
    <3> DEFINE a == h[i - 1]
               b == files[order[i]]
    <3>4. h[i] = PickNewer(a, b) /\ order[i] \in D
      BY <1>5, <2>1, <2>3
    <3>5. a.vv \subseteq b.vv \/ b.vv \subseteq a.vv
      BY <1>v, <3>2, <3>4
    <3> HIDE DEF a, b
    <3>6. (h[i] = a \/ h[i] = b) /\ a.vv \subseteq h[i].vv /\ b.vv \subseteq h[i].vv
      BY <3>4, <3>5 DEF PickNewer
    <3>7. \E f \in D : h[i] = files[f]
      BY <3>2, <3>4, <3>6 DEF a, b
    <3>8. \A j \in 1 .. i : files[order[j]].vv \subseteq h[i].vv
      <4> TAKE j \in 1 .. i
      <4>1. j = i \/ j \in 1 .. (i - 1)
        OBVIOUS
      <4> QED BY <3>3, <3>6, <4>1 DEF a, b
    <3> QED BY <3>7, <3>8
  <2> QED BY <2>2, <2>3
<1>7. \A i \in 1 .. n : i \in S
  <2> HIDE DEF S, D
  <2> QED BY <1>2, <1>6, Upwards
<1>8. n \in 1 .. n
  BY <1>2, <1>3
<1>9. PICK i \in 1 .. n : order[i] = d
  BY <1>2
<1>10. files[d].vv \subseteq h[n].vv /\ h[n].vv = h[n].bytes
  BY <1>7, <1>8, <1>9
<1> QED BY <1>1, <1>4, <1>10

-----------------------------------------------------------------------------
(* Puts that have exported, and those that have also read the version. *)
Exported == {q \in Puts : step[q] \in {"exported", "listing", "testing", "renaming"}}
Labelled == {q \in Puts : step[q] \in {"listing", "testing", "renaming"}}

(* The states of the authority that are in a file or on their way to one. *)
Versions ==
    {snaps[n].vv : n \in DOMAIN snaps} \cup {snaps[n].bytes : n \in DOMAIN snaps}
        \cup {bytes[q] : q \in Exported} \cup {vv[q] : q \in Labelled}

(* A file that no crash undoes has a version ahead of its bytes. *)
SettledAhead == \E n \in settled : snaps[n].vv # snaps[n].bytes

(* Otherwise these states are stages of one growing authority. *)
Lineage ==
    \/ SettledAhead
    \/ /\ \A a \in Versions : a \subseteq authority
       /\ \A a, b \in Versions : a \subseteq b \/ b \subseteq a

(* Files that are there for good are not replaced, and the file of a put   *)
(* that returned Ok is what it wrote until it is counted as gone.          *)
FilesKept ==
    /\ DOMAIN step = Puts /\ DOMAIN vv = Puts /\ DOMAIN bytes = Puts /\ DOMAIN seq = Puts
    /\ IsFiniteSet(DOMAIN snaps) /\ settled \subseteq DOMAIN snaps
    /\ \A q \in Puts : step[q] = "renaming" => seq[q] \notin settled
    /\ \A q \in Puts : step[q] = "ok" /\ q \notin gone =>
          seq[q] \in DOMAIN snaps /\ snaps[seq[q]] = [vv |-> vv[q], bytes |-> bytes[q]]

RecoveryInv == FilesKept /\ Lineage

LEMMA RecoveryFirst == RecoveryInit => RecoveryInv
<1> SUFFICES ASSUME RecoveryInit PROVE RecoveryInv
  OBVIOUS
<1>1. DOMAIN snaps = {}
  BY DEF RecoveryInit
<1>2. IsFiniteSet(DOMAIN snaps)
  BY <1>1, FS_EmptySet
<1>3. FilesKept
  BY <1>1, <1>2 DEF RecoveryInit, FilesKept
<1>4. Exported = {} /\ Labelled = {}
  BY DEF RecoveryInit, Exported, Labelled
<1>5. Versions = {}
  BY <1>1, <1>4 DEF Versions
<1>6. Lineage
  BY <1>5 DEF Lineage
<1> QED BY <1>3, <1>6 DEF RecoveryInv

(* The stages of the authority stay stages of it as it grows. *)
LEMMA LineageGrows ==
    ASSUME Lineage, settled' = settled, \A n \in settled : snaps'[n] = snaps[n],
           authority \subseteq authority', \A a \in Versions' : a \in Versions \/ a = authority
    PROVE  Lineage'
<1>1. CASE SettledAhead
  <2>1. SettledAhead'
    BY <1>1 DEF SettledAhead
  <2> QED BY <2>1 DEF Lineage
<1>2. CASE ~SettledAhead
  <2>1. /\ \A a \in Versions : a \subseteq authority
        /\ \A a, b \in Versions : a \subseteq b \/ b \subseteq a
    BY <1>2 DEF Lineage
  <2>2. \A a \in Versions' : a \subseteq authority /\ a \subseteq authority'
    BY <2>1
  <2>3. ASSUME NEW a \in Versions', NEW b \in Versions' PROVE a \subseteq b \/ b \subseteq a
    <3>1. CASE a = authority \/ b = authority
      BY <2>2, <3>1
    <3>2. CASE ~(a = authority \/ b = authority)
      BY <2>1, <3>2
    <3> QED BY <3>1, <3>2
  <2> QED BY <2>2, <2>3 DEF Lineage
<1> QED BY <1>1, <1>2

LEMMA LogSteps ==
    ASSUME RecoveryInv, LogStep \/ UNCHANGED recoveryVars
    PROVE  RecoveryInv'
<1>1. UNCHANGED snapVars /\ authority \subseteq authority'
  BY DEF LogStep, recoveryVars
<1>2. /\ snaps' = snaps /\ settled' = settled /\ step' = step
      /\ vv' = vv /\ bytes' = bytes /\ seq' = seq /\ gone' = gone
  BY <1>1 DEF snapVars
<1>3. Exported' = Exported /\ Labelled' = Labelled
  BY <1>2 DEF Exported, Labelled
<1>4. Versions' = Versions
  BY <1>2, <1>3 DEF Versions
<1>5. Lineage'
  BY <1>1, <1>2, <1>4, LineageGrows DEF RecoveryInv
<1>6. FilesKept'
  BY <1>2 DEF RecoveryInv, FilesKept
<1> QED BY <1>5, <1>6 DEF RecoveryInv

LEMMA ExportStep ==
    ASSUME RecoveryInv, NEW q \in Puts, Export(q)
    PROVE  RecoveryInv'
<1>0. /\ step[q] = "idle" /\ bytes' = [bytes EXCEPT ![q] = authority]
      /\ step' = [step EXCEPT ![q] = "exported"]
      /\ authority' = authority /\ snaps' = snaps /\ settled' = settled
      /\ vv' = vv /\ seq' = seq /\ gone' = gone
  BY DEF Export
<1>1. DOMAIN step = Puts /\ DOMAIN bytes = Puts /\ FilesKept /\ Lineage
  BY DEF RecoveryInv, FilesKept
<1>2. /\ step'[q] = "exported" /\ bytes'[q] = authority
      /\ \A p \in Puts : p # q => step'[p] = step[p] /\ bytes'[p] = bytes[p]
  BY <1>0, <1>1
<1>3. FilesKept'
  BY <1>0, <1>1, <1>2 DEF FilesKept
<1>4. Exported' \subseteq Exported \cup {q} /\ Labelled' \subseteq Labelled
  BY <1>2 DEF Exported, Labelled
<1>5. ASSUME NEW a \in Versions' PROVE a \in Versions \/ a = authority
  <2>1. CASE \E p \in Exported' : a = bytes'[p]
    BY <1>2, <1>4, <2>1 DEF Versions, Exported
  <2>2. CASE ~(\E p \in Exported' : a = bytes'[p])
    BY <1>0, <1>4, <2>2 DEF Versions
  <2> QED BY <2>1, <2>2
<1>6. Lineage'
  BY <1>0, <1>1, <1>5, LineageGrows
<1> QED BY <1>3, <1>6 DEF RecoveryInv

LEMMA LabelStep ==
    ASSUME RecoveryInv, NEW q \in Puts, Label(q)
    PROVE  RecoveryInv'
<1>0. /\ step[q] = "exported" /\ vv' = [vv EXCEPT ![q] = authority]
      /\ step' = [step EXCEPT ![q] = "listing"]
      /\ authority' = authority /\ snaps' = snaps /\ settled' = settled
      /\ bytes' = bytes /\ seq' = seq /\ gone' = gone
  BY DEF Label
<1>1. DOMAIN step = Puts /\ DOMAIN vv = Puts /\ FilesKept /\ Lineage
  BY DEF RecoveryInv, FilesKept
<1>2. /\ step'[q] = "listing" /\ vv'[q] = authority
      /\ \A p \in Puts : p # q => step'[p] = step[p] /\ vv'[p] = vv[p]
  BY <1>0, <1>1
<1>3. FilesKept'
  BY <1>0, <1>1, <1>2 DEF FilesKept
<1>4. Exported' \subseteq Exported /\ Labelled' \subseteq Labelled \cup {q}
  BY <1>0, <1>2 DEF Exported, Labelled
<1>5. ASSUME NEW a \in Versions' PROVE a \in Versions \/ a = authority
  <2>1. CASE \E p \in Labelled' : a = vv'[p]
    BY <1>2, <1>4, <2>1 DEF Versions, Labelled
  <2>2. CASE ~(\E p \in Labelled' : a = vv'[p])
    BY <1>0, <1>4, <2>2 DEF Versions
  <2> QED BY <2>1, <2>2
<1>6. Lineage'
  BY <1>0, <1>1, <1>5, LineageGrows
<1> QED BY <1>3, <1>6 DEF RecoveryInv

(* Looking for a number leaves the files alone; a number that is found is *)
(* not the number of a file.                                              *)
LEMMA NumberStep ==
    ASSUME RecoveryInv, NEW q \in Puts, ExistingSeqs(q) \/ WriteTemp(q)
    PROVE  RecoveryInv'
<1>1. DOMAIN step = Puts /\ DOMAIN seq = Puts /\ FilesKept /\ Lineage
  BY DEF RecoveryInv, FilesKept
<1>0. /\ authority' = authority /\ snaps' = snaps /\ settled' = settled
      /\ vv' = vv /\ bytes' = bytes /\ gone' = gone
      /\ step[q] \in {"listing", "testing"} /\ step'[q] \in {"listing", "testing", "renaming", "failed"}
      /\ step'[q] = "renaming" => seq'[q] \notin DOMAIN snaps
      /\ DOMAIN step' = Puts /\ DOMAIN seq' = Puts
      /\ \A p \in Puts : p # q => step'[p] = step[p] /\ seq'[p] = seq[p]
  <2>1. CASE ExistingSeqs(q)
    BY <1>1, <2>1 DEF ExistingSeqs
  <2>2. CASE WriteTemp(q)
    <3>1. step[q] = "testing" /\ UNCHANGED <<vars, authority, snaps, settled, vv, bytes, seq, gone>>
      BY <2>2 DEF WriteTemp
    <3>2. PICK s : /\ step' = [step EXCEPT ![q] = s]
                   /\ s \in IF seq[q] \in DOMAIN snaps THEN {"listing"} ELSE {"renaming", "failed"}
      BY <2>2 DEF WriteTemp
    <3>3. step'[q] = s /\ DOMAIN step' = Puts /\ \A p \in Puts : p # q => step'[p] = step[p]
      BY <1>1, <3>2
    <3>4. s \in {"listing", "renaming", "failed"} /\ (s = "renaming" => seq[q] \notin DOMAIN snaps)
      BY <3>2
    <3> QED BY <1>1, <3>1, <3>3, <3>4
  <2> QED BY <2>1, <2>2
<1>2. FilesKept'
  BY <1>0, <1>1 DEF FilesKept
<1>3. Exported' \subseteq Exported /\ Labelled' \subseteq Labelled
  BY <1>0 DEF Exported, Labelled
<1>4. \A a \in Versions' : a \in Versions
  BY <1>0, <1>3 DEF Versions
<1>5. Lineage'
  BY <1>0, <1>1, <1>4, LineageGrows
<1> QED BY <1>2, <1>5 DEF RecoveryInv

LEMMA RenameStep ==
    ASSUME RecoveryInv, NEW q \in Puts, Rename(q)
    PROVE  RecoveryInv'
<1> DEFINE new == [vv |-> vv[q], bytes |-> bytes[q]]
<1>0. /\ step[q] = "renaming"
      /\ snaps' = [n \in DOMAIN snaps \cup {seq[q]} |-> IF n = seq[q] THEN new ELSE snaps[n]]
      /\ gone' = gone \cup Holders(seq[q])
      /\ step' = [step EXCEPT ![q] = "ok"]
      /\ authority' = authority /\ settled' = settled /\ vv' = vv /\ bytes' = bytes /\ seq' = seq
  BY DEF Rename
<1>1. DOMAIN step = Puts /\ FilesKept /\ Lineage /\ settled \subseteq DOMAIN snaps /\ seq[q] \notin settled
  BY <1>0 DEF RecoveryInv, FilesKept
<1>n. new.vv = vv[q] /\ new.bytes = bytes[q]
  OBVIOUS
<1>2. /\ DOMAIN snaps' = DOMAIN snaps \cup {seq[q]} /\ snaps'[seq[q]] = new
      /\ \A n \in DOMAIN snaps : n # seq[q] => snaps'[n] = snaps[n]
  <2> HIDE DEF new
  <2> QED BY <1>0
<1>3. step'[q] = "ok" /\ DOMAIN step' = Puts /\ \A p \in Puts : p # q => step'[p] = step[p]
  BY <1>0, <1>1
<1>4. FilesKept'
  <2>1. IsFiniteSet(DOMAIN snaps')
    <3>1. IsFiniteSet(DOMAIN snaps)
      BY <1>1 DEF FilesKept
    <3> QED BY <1>2, <3>1, FS_AddElement
  <2>2. ASSUME NEW p \in Puts, step'[p] = "ok", p \notin gone'
        PROVE  seq'[p] \in DOMAIN snaps' /\ snaps'[seq'[p]] = [vv |-> vv'[p], bytes |-> bytes'[p]]
    <3>1. CASE p = q
      BY <1>0, <1>2, <3>1
    <3>2. CASE p # q
      <4>1. step[p] = "ok" /\ p \notin gone /\ p \notin Holders(seq[q])
        BY <1>0, <1>3, <2>2, <3>2
      <4>2. seq[p] # seq[q]
        BY <4>1 DEF Holders
      <4>3. seq[p] \in DOMAIN snaps /\ snaps[seq[p]] = [vv |-> vv[p], bytes |-> bytes[p]]
        BY <1>1, <4>1 DEF FilesKept
      <4> QED BY <1>0, <1>2, <4>2, <4>3
    <3> QED BY <3>1, <3>2
  <2>3. \A p \in Puts : step'[p] = "renaming" => seq'[p] \notin settled'
    BY <1>0, <1>1, <1>3 DEF FilesKept
  <2>4. DOMAIN vv' = Puts /\ DOMAIN bytes' = Puts /\ DOMAIN seq' = Puts /\ settled' \subseteq DOMAIN snaps'
    BY <1>0, <1>1, <1>2 DEF FilesKept
  <2> QED BY <1>3, <2>1, <2>2, <2>3, <2>4 DEF FilesKept
<1>5. /\ Exported' \subseteq Exported /\ Labelled' \subseteq Labelled
      /\ q \in Exported /\ q \in Labelled
  BY <1>0, <1>3 DEF Exported, Labelled
<1>6. \A n \in DOMAIN snaps' : snaps'[n].vv \in Versions /\ snaps'[n].bytes \in Versions
  <2> TAKE n \in DOMAIN snaps'
  <2> HIDE DEF new
  <2>1. CASE n = seq[q]
    BY <1>2, <1>5, <1>n, <2>1 DEF Versions
  <2>2. CASE n # seq[q]
    BY <1>2, <2>2 DEF Versions
  <2> QED BY <2>1, <2>2
<1>7. \A a \in Versions' : a \in Versions
  <2> SUFFICES ASSUME NEW a \in Versions' PROVE a \in Versions
    OBVIOUS
  <2>1. CASE \E n \in DOMAIN snaps' : a = snaps'[n].vv \/ a = snaps'[n].bytes
    BY <1>6, <2>1
  <2>2. CASE ~(\E n \in DOMAIN snaps' : a = snaps'[n].vv \/ a = snaps'[n].bytes)
    BY <1>0, <1>5, <2>2 DEF Versions
  <2> QED BY <2>1, <2>2
<1>8. \A n \in settled : snaps'[n] = snaps[n]
  BY <1>1, <1>2
<1>9. Lineage'
  BY <1>0, <1>1, <1>7, <1>8, LineageGrows
<1> QED BY <1>4, <1>9 DEF RecoveryInv

LEMMA RestartStep ==
    ASSUME RecoveryInv, Restart
    PROVE  RecoveryInv'
<1>0. PICK kept \in SUBSET DOMAIN snaps :
        /\ settled \subseteq kept
        /\ snaps' = Restrict(snaps, kept) /\ settled' = kept
        /\ gone' = gone \cup UNION {Holders(m) : m \in DOMAIN snaps \ kept}
        /\ step' = [q \in Puts |-> IF step[q] \in {"idle", "ok", "failed"} THEN step[q] ELSE "failed"]
        /\ authority' \in Recovered(file', snaps')
        /\ vv' = vv /\ bytes' = bytes /\ seq' = seq
  BY DEF Restart
<1>1. FilesKept /\ Lineage
  BY DEF RecoveryInv
<1>2. DOMAIN snaps' = kept /\ \A n \in kept : snaps'[n] = snaps[n]
  BY <1>0 DEF Restrict
<1>3. DOMAIN step' = Puts /\ \A q \in Puts : step'[q] \in {"idle", "ok", "failed"} /\ (step'[q] = "ok" => step[q] = "ok")
  <2>1. DOMAIN step' = Puts
    BY <1>0
  <2>2. ASSUME NEW q \in Puts
        PROVE  step'[q] \in {"idle", "ok", "failed"} /\ (step'[q] = "ok" => step[q] = "ok")
    BY <1>0
  <2> QED BY <2>1, <2>2
<1>f. IsFiniteSet(DOMAIN snaps')
  <2>1. IsFiniteSet(DOMAIN snaps)
    BY <1>1 DEF FilesKept
  <2> QED BY <1>2, <2>1, FS_Subset
<1>4. FilesKept'
  <2>1. ASSUME NEW p \in Puts, step'[p] = "ok", p \notin gone'
        PROVE  seq'[p] \in DOMAIN snaps' /\ snaps'[seq'[p]] = [vv |-> vv'[p], bytes |-> bytes'[p]]
    <3>1. step[p] = "ok" /\ p \notin gone
      BY <1>0, <1>3, <2>1
    <3>2. seq[p] \in DOMAIN snaps /\ snaps[seq[p]] = [vv |-> vv[p], bytes |-> bytes[p]]
      BY <1>1, <3>1 DEF FilesKept
    <3>3. p \in Holders(seq[p])
      BY <3>1 DEF Holders
    <3>4. seq[p] \in kept
      <4> SUFFICES ASSUME seq[p] \in DOMAIN snaps \ kept PROVE FALSE
        BY <3>2
      <4>1. p \in UNION {Holders(m) : m \in DOMAIN snaps \ kept}
        BY <3>3
      <4> QED BY <1>0, <2>1, <4>1
    <3> QED BY <1>0, <1>2, <3>2, <3>4
  <2>2. \A q \in Puts : step'[q] # "renaming"
    BY <1>3
  <2>3. DOMAIN vv' = Puts /\ DOMAIN bytes' = Puts /\ DOMAIN seq' = Puts /\ settled' \subseteq DOMAIN snaps'
    BY <1>0, <1>1, <1>2 DEF FilesKept
  <2> QED BY <1>3, <1>f, <2>1, <2>2, <2>3 DEF FilesKept
<1>5. Exported' = {} /\ Labelled' = {}
  BY <1>3 DEF Exported, Labelled
<1>6. \A a \in Versions' : \E n \in kept : a = snaps'[n].vv \/ a = snaps'[n].bytes
  BY <1>2, <1>5 DEF Versions
<1>7. CASE SettledAhead'
  BY <1>4, <1>7 DEF RecoveryInv, Lineage
<1>8. CASE ~SettledAhead'
  <2>1. \A n \in kept : snaps'[n].vv = snaps'[n].bytes
    BY <1>0, <1>8 DEF SettledAhead
  <2>2. ~SettledAhead
    BY <1>0, <1>2, <2>1 DEF SettledAhead
  <2>3. \A a, b \in Versions : a \subseteq b \/ b \subseteq a
    BY <1>1, <2>2 DEF Lineage
  <2>4. \A n \in kept : snaps'[n].bytes \in Versions
    BY <1>2 DEF Versions
  <2>5. PICK held \in Latest(snaps') : authority' = held \cup Logged(file')
    BY <1>0 DEF Recovered
  <2>6. PICK files : files = snaps'
    OBVIOUS
  <2>7. ASSUME NEW n \in kept PROVE snaps'[n].bytes \subseteq held
    <3>1. /\ IsFiniteSet(DOMAIN files) /\ n \in DOMAIN files /\ held \in Latest(files)
          /\ \A m \in DOMAIN files : files[m].vv = files[m].bytes
      BY <1>2, <1>f, <2>1, <2>5, <2>6
    <3>2. \A m, l \in DOMAIN files : files[m].bytes \subseteq files[l].bytes
                                       \/ files[l].bytes \subseteq files[m].bytes
      BY <1>2, <2>3, <2>4, <2>6
    <3>3. files[n].bytes \subseteq held
      BY <3>1, <3>2, LatestHoldsAll
    <3> QED BY <2>6, <3>3
  <2>8. \A a \in Versions' : \E n \in kept : a = snaps'[n].bytes
    BY <1>6, <2>1
  <2>9. \A a \in Versions' : a \subseteq authority' /\ a \in Versions
    BY <2>4, <2>5, <2>7, <2>8
  <2>10. Lineage'
    BY <2>3, <2>9 DEF Lineage
  <2> QED BY <1>4, <2>10 DEF RecoveryInv
<1> QED BY <1>7, <1>8

(* The files and the authority agree as RecoveryInv says. *)
THEOREM RecoveryInvariant == RecoverySpec => []RecoveryInv
<1>1. ASSUME RecoveryInv, [RecoveryNext]_recoveryVars PROVE RecoveryInv'
  <2>1. CASE LogStep \/ UNCHANGED recoveryVars
    BY <1>1, <2>1, LogSteps
  <2>2. CASE \E q \in Puts : Export(q) \/ Label(q) \/ ExistingSeqs(q) \/ WriteTemp(q) \/ Rename(q)
    BY <1>1, <2>2, ExportStep, LabelStep, NumberStep, RenameStep
  <2>3. CASE Restart
    BY <1>1, <2>3, RestartStep
  <2> QED BY <1>1, <2>1, <2>2, <2>3 DEF RecoveryNext
<1> QED BY <1>1, RecoveryFirst, PTL DEF RecoverySpec

LEMMA RecoversAcked ==
    ASSUME AckedBeforeTearKept, acked \subseteq Writers, RecoveryInv
    PROVE  RecoveryComplete
<1> SUFFICES ASSUME NEW room \in Recovered(file, snaps), NEW w \in acked \ room
             PROVE  /\ w \in stranded
                    /\ \/ \A q \in Puts : step[q] = "ok" /\ w \in bytes[q] => q \in gone
                       \/ \E n \in DOMAIN snaps : snaps[n].vv # snaps[n].bytes
  BY DEF RecoveryComplete
<1>1. PICK held \in Latest(snaps) : room = held \cup Logged(file)
  BY DEF Recovered
<1>2. w \notin Logged(file) /\ w \notin held /\ w \in Writers
  BY <1>1
<1>3. w \in stranded
  <2> SUFFICES ASSUME w \notin stranded PROVE FALSE
    OBVIOUS
  <2>1. ReadBack(w)
    BY DEF AckedBeforeTearKept
  <2> QED BY <1>2, <2>1 DEF ReadBack, Replay, Logged
<1>4. ASSUME NEW q \in Puts, step[q] = "ok", w \in bytes[q], q \notin gone,
             \A n \in DOMAIN snaps : snaps[n].vv = snaps[n].bytes
      PROVE  FALSE
  <2>1. seq[q] \in DOMAIN snaps /\ snaps[seq[q]] = [vv |-> vv[q], bytes |-> bytes[q]]
    BY <1>4 DEF RecoveryInv, FilesKept
  <2>2. snaps[seq[q]].bytes = bytes[q]
    BY <2>1
  <2>3. IsFiniteSet(DOMAIN snaps) /\ settled \subseteq DOMAIN snaps
    BY DEF RecoveryInv, FilesKept
  <2>4. ~SettledAhead
    BY <1>4, <2>3 DEF SettledAhead
  <2>5. \A a, b \in Versions : a \subseteq b \/ b \subseteq a
    BY <2>4 DEF RecoveryInv, Lineage
  <2>6. \A n \in DOMAIN snaps : snaps[n].bytes \in Versions
    BY DEF Versions
  <2>7. \A m, n \in DOMAIN snaps : snaps[m].bytes \subseteq snaps[n].bytes
                                     \/ snaps[n].bytes \subseteq snaps[m].bytes
    BY <2>5, <2>6
  <2>8. snaps[seq[q]].bytes \subseteq held
    BY <1>4, <2>1, <2>3, <2>7, LatestHoldsAll
  <2> QED BY <1>2, <1>4, <2>2, <2>8
<1> QED BY <1>3, <1>4

(* Every room that Room::open could build from the files has every           *)
(* acknowledged update, except one appended behind a torn record that is in  *)
(* no snapshot still there or is hidden by one whose version is ahead of its *)
(* bytes: for any number of updates and of concurrent calls of snapshot_now, *)
(* and any restarts between them.                                            *)
THEOREM RecoveriesAreComplete == RecoverySpec => []RecoveryComplete
<1>1. FsInv => AckedBeforeTearKept /\ acked \subseteq Writers
  BY WholeRecordsRead, FsFacts
<1>2. FsInv /\ RecoveryInv => RecoveryComplete
  BY <1>1, RecoversAcked
<1> QED BY <1>2, FsInvariant, RecoveryLogs, RecoveryInvariant, PTL
=============================================================================
