--------------------------- MODULE S3OpLogProofs ---------------------------
(***************************************************************************)
(* Proofs about S3OpLog, for any number of appends: the part numbers stay  *)
(* contiguous even if PUTs take effect after they were given up; if they   *)
(* do not, the objects implement OpLog and reads are complete.             *)
(***************************************************************************)
EXTENDS S3OpLog, TLAPS, SequenceTheorems, FiniteSetTheorems

(* The numbers in use are 0 .. n - 1. *)
Shape(n) == n \in Nat /\ DOMAIN parts = 0 .. (n - 1)

(* No number beyond the next free one is cached, given out or read. *)
NumbersOK(n) ==
    /\ Shape(n)
    /\ nextPart # NoNumber => nextPart <= n
    /\ \A w \in Writers : pc[w] \in {"putting", "lost"} => part[w] <= n
    /\ \A w \in Writers : pc[w] = "landed" => part[w] < n
    /\ reading # NoNumber => reading <= n

NumInv == TypeOK /\ \E n \in Nat : NumbersOK(n)

(* Both numbers computed from a listing of 0 .. n - 1 are n. *)
LEMMA ListingNumbers ==
    ASSUME NEW n \in Nat
    PROVE  ContiguousPrefixLen(0 .. (n - 1)) = n /\ NextNumber(0 .. (n - 1)) = n
<1> DEFINE S == 0 .. (n - 1)
<1>1. Cardinality(S) = n
  BY FS_Interval
<1>2. ContiguousPrefixLen(S) = n
  <2>1. \A k \in 0 .. n : (k \notin S /\ \A m \in 0 .. (k - 1) : m \in S) <=> k = n
    OBVIOUS
  <2>2. n \in 0 .. n
    OBVIOUS
  <2> QED BY <1>1, <2>1, <2>2 DEF ContiguousPrefixLen
<1>3. NextNumber(S) = n
  <2>1. CASE n = 0
    BY <2>1 DEF NextNumber
  <2>2. CASE n # 0
    <3>1. S # {} /\ n - 1 \in S /\ n - 1 \in Nat
      BY <2>2
    <3>2. \A k \in S : (\A m \in S : m <= k) <=> k = n - 1
      BY <3>1
    <3>3. (CHOOSE k \in S : \A m \in S : m <= k) = n - 1
      BY <3>1, <3>2
    <3> QED BY <3>1, <3>3 DEF NextNumber
  <2> QED BY <2>1, <2>2
<1> QED BY <1>2, <1>3

(* A PUT to a number in use or to the next one keeps the numbers contiguous. *)
LEMMA StoredShape ==
    ASSUME NEW n \in Nat, Shape(n), NEW k \in Nat, k <= n, NEW w,
           parts' = Stored(k, w)
    PROVE  /\ k < n => Shape(n)'
           /\ k = n => Shape(n + 1)'
           /\ parts'[k] = w
           /\ \A m \in DOMAIN parts : m # k => parts'[m] = parts[m]
           /\ DOMAIN parts' = DOMAIN parts \cup {k}
BY DEF Shape, Stored

(* Before the first append there are no numbers. *)
LEMMA NumInit == Init => NumInv
<1> SUFFICES ASSUME Init PROVE NumInv
  OBVIOUS
<1>1. TypeOK
  BY EmptySeq DEF Init, TypeOK
<1>2. NumbersOK(0)
  BY <1>1 DEF Init, NumbersOK, Shape, TypeOK
<1> QED BY <1>1, <1>2 DEF NumInv

(* Every step keeps the types. *)
LEMMA TypeStep == NumInv /\ [LateNext]_vars => TypeOK'
<1> SUFFICES ASSUME NumInv, [LateNext]_vars PROVE TypeOK'
  OBVIOUS
<1> USE SentinelAssumption
<1>0. TypeOK /\ \E n \in Nat : NumbersOK(n)
  BY DEF NumInv
<1>n. PICK n \in Nat : NumbersOK(n)
  BY <1>0
<1>l. ContiguousPrefixLen(DOMAIN parts) = n /\ NextNumber(DOMAIN parts) = n
  BY <1>n, ListingNumbers DEF NumbersOK, Shape
<1>1. ASSUME NEW w \in Writers, Allocate(w) PROVE TypeOK'
  BY <1>0, <1>1 DEF Allocate, TypeOK, readerVars, Holding
<1>2. ASSUME NEW w \in Writers, List(w) PROVE TypeOK'
  BY <1>0, <1>2, <1>l DEF List, TypeOK, readerVars, Holding
<1>3. ASSUME NEW w \in Writers, Land(w) \/ LandLate(w) PROVE TypeOK'
  <2>1. parts' = Stored(part[w], w) /\ part[w] \in Nat
    BY <1>0, <1>3 DEF Land, LandLate, TypeOK
  <2>2. DOMAIN parts' \subseteq Nat /\ \A m \in DOMAIN parts' : parts'[m] \in Writers
    BY <1>0, <2>1 DEF Stored, TypeOK
  <2> QED BY <1>0, <1>3, <2>2 DEF Land, LandLate, TypeOK, readerVars, Holding
<1>4. ASSUME NEW w \in Writers, PutOk(w) PROVE TypeOK'
  BY <1>0, <1>4 DEF PutOk, Release, TypeOK, readerVars, Holding
<1>5. ASSUME NEW w \in Writers, RequestFails(w) PROVE TypeOK'
  BY <1>0, <1>5 DEF RequestFails, GiveUp, Release, TypeOK, readerVars, Holding
<1>6. CASE Close
  BY <1>0, <1>6 DEF Close, TypeOK, writerVars, readerVars
<1>7. CASE Crash
  <2>1. pc' \in [Writers -> {"idle", "lost", "done"} \cup Holding]
    BY <1>0, <1>7 DEF Crash, GiveUp, TypeOK, Holding
  <2> QED BY <1>0, <1>7, <2>1, EmptySeq DEF Crash, TypeOK
<1>8. CASE ReadBegin
  BY <1>0, <1>8, <1>l DEF ReadBegin, TypeOK, storeVars, writerVars
<1>9. CASE ReadPart
  <2>1. Len(out) \in Nat /\ Len(out) < reading /\ out \in Seq(Writers)
    BY <1>0, <1>9, LenProperties DEF ReadPart, TypeOK
  <2>2. reading \in Nat /\ reading <= n /\ DOMAIN parts = 0 .. (n - 1)
    BY <1>0, <1>9, <1>n DEF ReadPart, NumbersOK, Shape, TypeOK
  <2>3. parts[Len(out)] \in Writers
    BY <1>0, <2>1, <2>2 DEF TypeOK
  <2>4. out' \in Seq(Writers)
    BY <1>9, <2>1, <2>3, AppendProperties DEF ReadPart
  <2> QED BY <1>0, <1>9, <2>4 DEF ReadPart, TypeOK, storeVars, writerVars
<1>10. CASE ReadEnd
  BY <1>0, <1>10, EmptySeq DEF ReadEnd, TypeOK, storeVars, writerVars
<1>11. CASE UNCHANGED vars
  BY <1>0, <1>11 DEF vars, storeVars, writerVars, readerVars, TypeOK
<1> QED
  BY <1>1, <1>2, <1>3, <1>4, <1>5, <1>6, <1>7, <1>8, <1>9, <1>10, <1>11
     DEF LateNext, Next, WriterStep

(* Every step keeps the numbers contiguous, late PUTs included. *)
LEMMA NumbersStep == NumInv /\ [LateNext]_vars => \E n \in Nat : NumbersOK(n)'
<1> SUFFICES ASSUME NumInv, [LateNext]_vars PROVE \E n \in Nat : NumbersOK(n)'
  OBVIOUS
<1> USE SentinelAssumption
<1>n. PICK n \in Nat : NumbersOK(n)
  BY DEF NumInv
<1>0. TypeOK
  BY DEF NumInv
<1>l. ContiguousPrefixLen(DOMAIN parts) = n /\ NextNumber(DOMAIN parts) = n
  BY <1>n, ListingNumbers DEF NumbersOK, Shape
<1>1. ASSUME NEW w \in Writers, Allocate(w) PROVE NumbersOK(n)'
  BY <1>0, <1>n, <1>1 DEF Allocate, NumbersOK, Shape, TypeOK, readerVars
<1>2. ASSUME NEW w \in Writers, List(w) PROVE NumbersOK(n)'
  BY <1>0, <1>n, <1>l, <1>2 DEF List, NumbersOK, Shape, TypeOK, readerVars
<1>3. ASSUME NEW w \in Writers, Land(w) \/ LandLate(w)
      PROVE  \E k \in Nat : NumbersOK(k)'
  <2>1. /\ parts' = Stored(part[w], w) /\ part[w] \in Nat /\ part[w] <= n
        /\ Shape(n)
        /\ \E l \in {"landed", "done"} : pc' = [pc EXCEPT ![w] = l]
        /\ UNCHANGED <<nextPart, part, reading>>
    BY <1>0, <1>n, <1>3 DEF Land, LandLate, TypeOK, NumbersOK, readerVars
  <2>2. CASE part[w] < n
    <3>1. Shape(n)'
      BY <2>1, <2>2, StoredShape
    <3> QED BY <1>0, <1>n, <2>1, <2>2, <3>1 DEF NumbersOK, TypeOK
  <2>3. CASE part[w] = n
    <3>1. Shape(n + 1)'
      BY <2>1, <2>3, StoredShape
    <3>2. NumbersOK(n + 1)'
      BY <1>0, <1>n, <2>1, <2>3, <3>1 DEF NumbersOK, TypeOK
    <3> QED BY <3>2
  <2> QED BY <2>1, <2>2, <2>3
<1>4. ASSUME NEW w \in Writers, PutOk(w) PROVE NumbersOK(n)'
  BY <1>0, <1>n, <1>4 DEF PutOk, NumbersOK, Shape, TypeOK, readerVars
<1>5. ASSUME NEW w \in Writers, RequestFails(w) PROVE NumbersOK(n)'
  BY <1>0, <1>n, <1>5
     DEF RequestFails, GiveUp, NumbersOK, Shape, TypeOK, readerVars
<1>6. CASE Close
  BY <1>0, <1>n, <1>6 DEF Close, NumbersOK, Shape, writerVars, readerVars
<1>7. CASE Crash
  BY <1>0, <1>n, <1>7 DEF Crash, GiveUp, NumbersOK, Shape, TypeOK
<1>8. CASE ReadBegin
  BY <1>0, <1>n, <1>l, <1>8 DEF ReadBegin, NumbersOK, Shape, storeVars, writerVars
<1>9. CASE ReadPart \/ ReadEnd
  BY <1>0, <1>n, <1>9
     DEF ReadPart, ReadEnd, NumbersOK, Shape, storeVars, writerVars
<1>10. CASE UNCHANGED vars
  BY <1>n, <1>10 DEF vars, storeVars, writerVars, readerVars, NumbersOK, Shape
<1> QED
  BY <1>1, <1>2, <1>3, <1>4, <1>5, <1>6, <1>7, <1>8, <1>9, <1>10
     DEF LateNext, Next, WriterStep

(* The part numbers of a document stay contiguous over failures, evictions,  *)
(* crashes and PUTs that take effect after they were given up, and every     *)
(* variable keeps its type (S3OpLogStore::append and close).                 *)
THEOREM NumbersContiguous == LateSpec => [](TypeOK /\ NoGap)
<1>1. Init => NumInv
  BY NumInit
<1>2. NumInv /\ [LateNext]_vars => NumInv'
  BY TypeStep, NumbersStep DEF NumInv
<1>3. NumInv => TypeOK /\ NoGap
  BY DEF NumInv, NumbersOK, Shape, NoGap
<1> QED BY <1>1, <1>2, <1>3, PTL DEF LateSpec

-----------------------------------------------------------------------------
(* The number an append may be given: the next one, or the last one if its   *)
(* append was reported failed.                                               *)
Slot(n, k) == k = n \/ (n > 0 /\ k = n - 1 /\ parts[k] \in failed)

(* If a PUT that was given up has no effect: only the holder of the lock is  *)
(* between its number and its answer, and the cached number is its own;      *)
(* acknowledged records are in their places.                                 *)
OrderOK(n) ==
    /\ \A w \in Writers : pc[w] \in Holding => holder = w
    /\ \A w \in Writers : pc[w] = "listing" => nextPart = NoNumber
    /\ \A w \in Writers : pc[w] \in {"putting", "landed"} =>
            nextPart = NoNumber \/ nextPart = part[w]
    /\ \A w \in Writers : pc[w] = "putting" => Slot(n, part[w])
    /\ \A w \in Writers : pc[w] = "landed" =>
            part[w] = n - 1 /\ parts[part[w]] = w
    /\ holder = NoWriter /\ nextPart # NoNumber => Slot(n, nextPart)
    /\ \A w \in acked : /\ part[w] \in DOMAIN parts /\ parts[part[w]] = w
                        /\ w \notin failed /\ pc[w] = "done"
    /\ \A w \in failed : pc[w] \in {"done", "lost"}
    /\ \A k \in DOMAIN parts : pc[parts[k]] \in {"landed", "done"}

OrderInv == TypeOK /\ \E n \in Nat : NumbersOK(n) /\ OrderOK(n)

(* Before the first append nothing is out of order. *)
LEMMA OrderInit == Init => OrderInv
<1> SUFFICES ASSUME Init PROVE OrderInv
  OBVIOUS
<1>1. TypeOK
  BY EmptySeq DEF Init, TypeOK
<1>2. NumbersOK(0)
  BY <1>1 DEF Init, NumbersOK, Shape, TypeOK
<1>3. OrderOK(0)
  BY SentinelAssumption DEF Init, OrderOK, Holding
<1> QED BY <1>1, <1>2, <1>3 DEF OrderInv

(* An initial segment determines its length. *)
LEMMA SegmentUnique ==
    ASSUME NEW m \in Nat, NEW n \in Nat, 0 .. (m - 1) = 0 .. (n - 1) PROVE m = n
<1>2. ~(m < n)
  <2> SUFFICES ASSUME m < n PROVE FALSE
    OBVIOUS
  <2>1. m \in 0 .. (n - 1) /\ m \notin 0 .. (m - 1)
    OBVIOUS
  <2> QED BY <2>1
<1>3. ~(n < m)
  <2> SUFFICES ASSUME n < m PROVE FALSE
    OBVIOUS
  <2>1. n \in 0 .. (m - 1) /\ n \notin 0 .. (n - 1)
    OBVIOUS
  <2> QED BY <2>1
<1> QED BY <1>2, <1>3

(* What a PUT of the lock holder does to the log. *)
LEMMA LandCases ==
    ASSUME NEW n \in Nat, TypeOK, NumbersOK(n), OrderOK(n),
           NEW w \in Writers, Land(w)
    PROVE  /\ w \notin acked \cup failed
           /\ \A k \in DOMAIN parts : parts[k] # w
           /\ parts'[part[w]] = w
           /\ \A m \in DOMAIN parts : m # part[w] => parts'[m] = parts[m]
           /\ \/ part[w] = n /\ Shape(n + 1)'
              \/ /\ n > 0 /\ part[w] = n - 1 /\ parts[n - 1] \in failed
                 /\ Shape(n)'
<1>1. pc[w] = "putting" /\ parts' = Stored(part[w], w) /\ part[w] \in Nat
      /\ part[w] <= n /\ Shape(n) /\ Slot(n, part[w])
  BY DEF Land, TypeOK, NumbersOK, OrderOK
<1>2. w \notin acked \cup failed /\ \A k \in DOMAIN parts : parts[k] # w
  BY <1>1 DEF OrderOK
<1>3. /\ part[w] < n => Shape(n)'
      /\ part[w] = n => Shape(n + 1)'
      /\ parts'[part[w]] = w
      /\ \A m \in DOMAIN parts : m # part[w] => parts'[m] = parts[m]
  BY <1>1 DEF Shape, Stored
<1>4. \/ part[w] = n /\ Shape(n + 1)'
      \/ n > 0 /\ part[w] = n - 1 /\ parts[n - 1] \in failed /\ Shape(n)'
  BY <1>1, <1>3 DEF Slot
<1> QED BY <1>2, <1>3, <1>4

(* The new order after a PUT, for the new number of parts. *)
LEMMA LandOrder ==
    ASSUME NEW n \in Nat, TypeOK, NumbersOK(n), OrderOK(n),
           NEW w \in Writers, Land(w), NEW k \in Nat, Shape(k)'
    PROVE  OrderOK(k)'
<1>1. /\ pc[w] = "putting" /\ pc' = [pc EXCEPT ![w] = "landed"]
      /\ UNCHANGED <<nextPart, holder, part, acked, failed>>
      /\ holder = w /\ part[w] \in Nat /\ Shape(n)
      /\ \A v \in Writers : v # w => pc[v] \notin Holding
      /\ nextPart = NoNumber \/ nextPart = part[w]
  BY DEF Land, OrderOK, TypeOK, NumbersOK, Holding
<1>2. /\ parts'[part[w]] = w
      /\ \A m \in DOMAIN parts : m # part[w] => parts'[m] = parts[m]
      /\ DOMAIN parts' = DOMAIN parts \cup {part[w]}
  BY LandCases DEF Land, Stored
<1>3. part[w] = k - 1
  <2>1. CASE part[w] = n /\ Shape(n + 1)'
    <3>1. 0 .. (k - 1) = 0 .. ((n + 1) - 1) /\ n + 1 \in Nat
      BY <2>1 DEF Shape
    <3>2. k = n + 1
      BY <3>1, SegmentUnique
    <3> QED BY <2>1, <3>2
  <2>2. CASE n > 0 /\ part[w] = n - 1 /\ parts[n - 1] \in failed /\ Shape(n)'
    <3>1. 0 .. (k - 1) = 0 .. (n - 1)
      BY <2>2 DEF Shape
    <3>2. k = n
      BY <3>1, SegmentUnique
    <3> QED BY <2>2, <3>2
  <2> QED BY <2>1, <2>2, LandCases
<1>4. \A v \in acked : part[v] # part[w]
  <2> SUFFICES ASSUME NEW v \in acked, part[v] = part[w] PROVE FALSE
    OBVIOUS
  <2>1. part[w] \in DOMAIN parts /\ parts[part[w]] = v /\ v \notin failed
    BY DEF OrderOK
  <2>2. part[w] # n
    BY <2>1, <1>1 DEF Shape
  <2> QED BY <2>1, <2>2, LandCases
<1>5. /\ \A v \in Writers : pc'[v] \in Holding => holder' = v
      /\ \A v \in Writers : pc'[v] = "listing" => nextPart' = NoNumber
      /\ \A v \in Writers : pc'[v] \in {"putting", "landed"} =>
            nextPart' = NoNumber \/ nextPart' = part'[v]
      /\ \A v \in Writers : pc'[v] # "putting"
      /\ \A v \in Writers : pc'[v] = "landed" =>
            part'[v] = k - 1 /\ parts'[part'[v]] = v
      /\ holder' # NoWriter
  BY <1>1, <1>2, <1>3, SentinelAssumption DEF OrderOK, TypeOK, Holding
<1>6. \A v \in acked' : /\ part'[v] \in DOMAIN parts' /\ parts'[part'[v]] = v
                       /\ v \notin failed' /\ pc'[v] = "done"
  BY <1>1, <1>2, <1>4 DEF OrderOK, TypeOK
<1>7. \A v \in failed' : pc'[v] \in {"done", "lost"}
  BY <1>1 DEF OrderOK, TypeOK
<1>8. \A m \in DOMAIN parts' : pc'[parts'[m]] \in {"landed", "done"}
  BY <1>1, <1>2 DEF OrderOK, TypeOK
<1> QED BY <1>5, <1>6, <1>7, <1>8 DEF OrderOK

(* Steps other than a PUT keep the number of parts and the order. *)
LEMMA OrderKept ==
    ASSUME NEW n \in Nat, TypeOK, NumbersOK(n), OrderOK(n), [Next]_vars,
           \A w \in Writers : ~Land(w)
    PROVE  OrderOK(n)' /\ parts' = parts
<1> USE SentinelAssumption
<1>l. NextNumber(DOMAIN parts) = n
  BY ListingNumbers DEF NumbersOK, Shape
<1>1. ASSUME NEW w \in Writers, Allocate(w) PROVE OrderOK(n)' /\ parts' = parts
  <2>1. /\ pc[w] = "idle" /\ holder = NoWriter /\ holder' = w
        /\ UNCHANGED <<parts, nextPart, acked, failed>>
        /\ \A v \in Writers : pc[v] \notin Holding
        /\ w \notin acked /\ w \notin failed
        /\ \A k \in DOMAIN parts : parts[k] # w
    BY <1>1 DEF Allocate, OrderOK
  <2>2. CASE nextPart = NoNumber
    <3>1. pc' = [pc EXCEPT ![w] = "listing"] /\ part' = part
      BY <1>1, <2>2 DEF Allocate
    <3>2. /\ pc'[w] = "listing" /\ \A v \in Writers : v # w => pc'[v] = pc[v] /\ pc'[v] \notin Holding
      BY <2>1, <3>1 DEF TypeOK
    <3>3. parts' = parts /\ nextPart' = NoNumber /\ acked' = acked /\ failed' = failed
      BY <2>1, <2>2
    <3>4. /\ \A v \in Writers : pc'[v] \in Holding => holder' = v
          /\ \A v \in Writers : pc'[v] \notin {"putting", "landed"}
      BY <2>1, <3>2 DEF Holding
    <3>5. /\ \A v \in acked : v \in Writers /\ v # w
          /\ \A v \in failed : v \in Writers /\ v # w
          /\ \A k \in DOMAIN parts : parts[k] \in Writers /\ parts[k] # w
      BY <2>1 DEF TypeOK
    <3> QED BY <2>1, <3>1, <3>2, <3>3, <3>4, <3>5 DEF OrderOK
  <2>3. CASE nextPart # NoNumber
    <3>1. Slot(n, nextPart)' /\ nextPart \in Nat
      BY <2>1, <2>3 DEF OrderOK, Slot, TypeOK
    <3>2. /\ pc' = [pc EXCEPT ![w] = "putting"]
          /\ part' = [part EXCEPT ![w] = nextPart]
      BY <1>1, <2>3 DEF Allocate
    <3> QED BY <2>1, <3>1, <3>2 DEF OrderOK, Slot, TypeOK, Holding
  <2> QED BY <2>2, <2>3
<1>2. ASSUME NEW w \in Writers, List(w) PROVE OrderOK(n)' /\ parts' = parts
  BY <1>2, <1>l DEF List, OrderOK, Slot, TypeOK, Holding
<1>4. ASSUME NEW w \in Writers, PutOk(w) PROVE OrderOK(n)' /\ parts' = parts
  <2>1. holder = w /\ part[w] = n - 1 /\ parts[part[w]] = w /\ w \notin failed
        /\ part[w] \in DOMAIN parts /\ part[w] \in Nat
    BY <1>4 DEF PutOk, OrderOK, NumbersOK, Shape, TypeOK, Holding
  <2> QED BY <1>4, <2>1 DEF PutOk, Release, OrderOK, Slot, TypeOK, Holding
<1>5. ASSUME NEW w \in Writers, RequestFails(w) PROVE OrderOK(n)' /\ parts' = parts
  <2>1. /\ holder = w /\ w \notin acked /\ pc' = [pc EXCEPT ![w] = GiveUp(@)]
        /\ holder' = NoWriter /\ failed' = failed \cup {w}
        /\ UNCHANGED <<parts, nextPart, part, acked>>
        /\ \A v \in Writers : v # w => pc[v] \notin Holding
    BY <1>5 DEF RequestFails, Release, GiveUp, OrderOK, TypeOK, Holding
  <2>2. nextPart # NoNumber => Slot(n, nextPart)'
    <3>1. CASE pc[w] = "listing"
      BY <3>1 DEF OrderOK
    <3>2. CASE pc[w] = "putting"
      BY <3>2, <2>1 DEF OrderOK, Slot
    <3>3. CASE pc[w] = "landed"
      BY <3>3, <2>1 DEF OrderOK, Slot, NumbersOK, TypeOK
    <3> QED BY <1>5, <3>1, <3>2, <3>3 DEF RequestFails, Holding
  <2> QED BY <2>1, <2>2 DEF GiveUp, OrderOK, Slot, TypeOK, Holding
<1>6. CASE Close
  BY <1>6 DEF Close, OrderOK, Slot, writerVars
<1>7. CASE Crash
  BY <1>7 DEF Crash, GiveUp, OrderOK, Slot, TypeOK, Holding
<1>8. CASE ReadBegin \/ ReadPart \/ ReadEnd
  BY <1>8 DEF ReadBegin, ReadPart, ReadEnd, OrderOK, Slot, storeVars, writerVars
<1>9. CASE UNCHANGED vars
  BY <1>9 DEF vars, OrderOK, Slot, storeVars, writerVars
<1> QED
  BY <1>1, <1>2, <1>4, <1>5, <1>6, <1>7, <1>8, <1>9 DEF Next, WriterStep

(* Every step keeps the order. *)
LEMMA OrderStep == OrderInv /\ [Next]_vars => OrderInv'
<1> SUFFICES ASSUME OrderInv, [Next]_vars PROVE OrderInv'
  OBVIOUS
<1>n. PICK n \in Nat : NumbersOK(n) /\ OrderOK(n)
  BY DEF OrderInv
<1>0. TypeOK /\ NumInv
  BY <1>n DEF OrderInv, NumInv
<1>k. PICK k \in Nat : NumbersOK(k)'
  BY <1>0, NumbersStep DEF LateNext
<1>1. TypeOK'
  BY <1>0, TypeStep DEF LateNext
<1>2. ASSUME NEW w \in Writers, Land(w) PROVE OrderOK(k)'
  <2>1. Shape(k)'
    BY <1>k DEF NumbersOK
  <2> QED BY <1>0, <1>n, <1>2, <2>1, LandOrder
<1>3. CASE \A w \in Writers : ~Land(w)
  <2>1. OrderOK(n)' /\ parts' = parts
    BY <1>0, <1>n, <1>3, OrderKept
  <2>2. k = n
    BY <1>n, <1>k, <2>1, SegmentUnique DEF NumbersOK, Shape
  <2> QED BY <1>1, <1>k, <2>1, <2>2 DEF OrderInv
<1> QED BY <1>1, <1>k, <1>2, <1>3 DEF OrderInv

(* The log as a reader would replay it. *)
LEMMA ReplayShape ==
    ASSUME NEW n \in Nat, NEW f, DOMAIN f = 0 .. (n - 1),
           \A m \in DOMAIN f : f[m] \in Writers
    PROVE  /\ Replay(f) \in Seq(Writers) /\ Len(Replay(f)) = n
           /\ Replay(f) = [i \in 1 .. n |-> f[i - 1]]
<1>1. ContiguousPrefixLen(DOMAIN f) = n
  BY ListingNumbers
<1>2. Replay(f) = [i \in 1 .. n |-> f[i - 1]]
  BY <1>1 DEF Replay
<1>3. \A i \in 1 .. n : i - 1 \in DOMAIN f
  OBVIOUS
<1>4. Replay(f) \in [1 .. n -> Writers]
  BY <1>2, <1>3
<1> QED BY <1>2, <1>4, LenProperties

(* Every step is a step of OpLog or changes nothing there. *)
LEMMA RefinementStep ==
    ASSUME OrderInv, OrderInv', [Next]_vars
    PROVE  [Abstract!Next]_(Abstract!vars)
<1> DEFINE log == Replay(parts)
<1>n. PICK n \in Nat : NumbersOK(n) /\ OrderOK(n)
  BY DEF OrderInv
<1>0. TypeOK /\ TypeOK'
  BY DEF OrderInv
<1>1. /\ log \in Seq(Writers) /\ Len(log) = n
      /\ log = [i \in 1 .. n |-> parts[i - 1]]
      /\ DOMAIN parts = 0 .. (n - 1)
  BY <1>0, <1>n, ReplayShape DEF NumbersOK, Shape, TypeOK
<1>2. Abstract!Logged = {parts[k] : k \in DOMAIN parts}
  <2>1. \A i \in 1 .. n : i - 1 \in DOMAIN parts /\ log[i] = parts[i - 1]
    BY <1>1
  <2>2. \A k \in DOMAIN parts : k + 1 \in 1 .. n /\ log[k + 1] = parts[k]
    BY <1>1
  <2>3. DOMAIN log = 1 .. n
    BY <1>1
  <2> QED BY <2>1, <2>2, <2>3 DEF Abstract!Logged
<1>3. ASSUME NEW w \in Writers, Land(w) PROVE Abstract!Extend(w) \/ Abstract!TakePlace(w)
  <2>1. /\ w \notin acked \cup failed
        /\ \A k \in DOMAIN parts : parts[k] # w
        /\ parts'[part[w]] = w
        /\ \A m \in DOMAIN parts : m # part[w] => parts'[m] = parts[m]
        /\ \/ part[w] = n /\ Shape(n + 1)'
           \/ /\ n > 0 /\ part[w] = n - 1 /\ parts[n - 1] \in failed
              /\ Shape(n)'
    BY <1>0, <1>n, <1>3, LandCases
  <2>2. Abstract!Fresh(w)
    BY <1>2, <2>1 DEF Abstract!Fresh
  <2>3. UNCHANGED <<acked, failed>>
    BY <1>3 DEF Land
  <2>4. CASE part[w] = n /\ Shape(n + 1)'
    <3>1. log' = [i \in 1 .. (n + 1) |-> parts'[i - 1]]
      BY <1>0, <2>4, ReplayShape DEF Shape, TypeOK
    <3>2. log' = Append(log, w)
      BY <1>1, <2>1, <2>4, <3>1
    <3> QED BY <2>2, <2>3, <3>2 DEF Abstract!Extend
  <2>5. CASE /\ n > 0 /\ part[w] = n - 1 /\ parts[n - 1] \in failed
             /\ Shape(n)'
    <3>1. log' = [i \in 1 .. n |-> parts'[i - 1]]
      BY <1>0, <2>5, ReplayShape DEF Shape, TypeOK
    <3>e. \A i \in 1 .. n : parts'[i - 1] = IF i = n THEN w ELSE parts[i - 1]
      BY <1>1, <2>1, <2>5
    <3>f. [log EXCEPT ![n] = w] = [i \in 1 .. n |-> IF i = n THEN w ELSE parts[i - 1]]
      <4> HIDE DEF log
      <4> QED BY <1>1, <2>5
    <3>2. log' = [log EXCEPT ![Len(log)] = w]
      <4>1. log' = [i \in 1 .. n |-> IF i = n THEN w ELSE parts[i - 1]]
        BY <3>1, <3>e
      <4>2. Len(log) = n
        BY <1>1
      <4> HIDE DEF log
      <4> QED BY <4>1, <4>2, <3>f
    <3>3. log # << >> /\ log[Len(log)] \in failed
      BY <1>1, <2>5
    <3> QED BY <2>2, <2>3, <3>2, <3>3 DEF Abstract!TakePlace
  <2> QED BY <2>1, <2>4, <2>5
<1>4. ASSUME NEW w \in Writers, PutOk(w) PROVE Abstract!Ack(w)
  <2>1. w \in {parts[k] : k \in DOMAIN parts} /\ w \notin acked \cup failed
    BY <1>0, <1>1, <1>n, <1>4 DEF PutOk, OrderOK, NumbersOK, TypeOK
  <2> QED BY <1>2, <1>4, <2>1 DEF PutOk, Abstract!Ack
<1>5. ASSUME NEW w \in Writers, RequestFails(w) PROVE Abstract!Fail(w)
  <2>1. w \notin acked \cup failed
    BY <1>n, <1>5 DEF RequestFails, OrderOK, Holding
  <2> QED BY <1>5, <2>1 DEF RequestFails, Abstract!Fail
<1>6. ASSUME NEW w \in Writers, Allocate(w) \/ List(w)
      PROVE  UNCHANGED <<parts, acked, failed>>
  BY <1>6 DEF Allocate, List
<1>8. CASE Close \/ Crash \/ ReadBegin \/ ReadPart \/ ReadEnd \/ UNCHANGED vars
  <2>1. UNCHANGED <<parts, acked, failed>>
    BY <1>8 DEF Close, Crash, ReadBegin, ReadPart, ReadEnd, vars, storeVars,
                writerVars
  <2> QED BY <2>1 DEF Abstract!vars
<1> QED
  BY <1>3, <1>4, <1>5, <1>6, <1>8
     DEF Next, WriterStep, Abstract!Next, Abstract!vars

(* If PUTs have no effect after they were given up, S3OpLogStore is an  *)
(* append-only log: acknowledged records keep their places, over failures,   *)
(* evictions and crashes.                                                    *)
THEOREM ObjectsAreALog == Spec => ImplementsOpLog
<1>1. Init => OrderInv
  BY OrderInit
<1>2. OrderInv /\ [Next]_vars => OrderInv'
  BY OrderStep
<1>3. Init => Abstract!Init
  <2> SUFFICES ASSUME Init PROVE Abstract!Init
    OBVIOUS
  <2>1. DOMAIN parts = 0 .. (0 - 1) /\ \A m \in DOMAIN parts : parts[m] \in Writers
    BY DEF Init
  <2>2. Len(Replay(parts)) = 0 /\ Replay(parts) \in Seq(Writers)
    BY <2>1, ReplayShape
  <2> QED BY <2>2, EmptySeq DEF Init, Abstract!Init
<1>4. OrderInv /\ OrderInv' /\ [Next]_vars => [Abstract!Next]_(Abstract!vars)
  BY RefinementStep
<1> QED BY <1>1, <1>2, <1>3, <1>4, PTL DEF Spec, ImplementsOpLog, Abstract!Spec

(* Abstractly, initially nothing is acknowledged or failed; no append is     *)
(* ever both.                                                                *)
AbstractInv == Abstract!TypeOK /\ acked \cap failed = {}

LEMMA AbstractStep ==
    /\ Abstract!Init => AbstractInv
    /\ AbstractInv /\ [Abstract!Next]_(Abstract!vars) => AbstractInv'
<1> DEFINE log == Replay(parts)
<1> USE DEF AbstractInv, Abstract!TypeOK
<1>1. Abstract!Init => AbstractInv
  BY EmptySeq DEF Abstract!Init
<1>2. ASSUME AbstractInv, [Abstract!Next]_(Abstract!vars) PROVE AbstractInv'
  <2>1. ASSUME NEW r \in Writers, Abstract!Extend(r) PROVE AbstractInv'
    <3>1. Append(log, r) \in Seq(Writers)
      BY <1>2, AppendProperties
    <3> QED BY <1>2, <2>1, <3>1 DEF Abstract!Extend
  <2>2. ASSUME NEW r \in Writers, Abstract!TakePlace(r) PROVE AbstractInv'
    <3>0. log \in Seq(Writers) /\ Len(log) \in 1 .. Len(log)
      BY <1>2, <2>2, EmptySeq, LenProperties DEF Abstract!TakePlace
    <3>1. [log EXCEPT ![Len(log)] = r] \in Seq(Writers)
      BY <3>0, ExceptSeq
    <3> QED BY <1>2, <2>2, <3>1 DEF Abstract!TakePlace
  <2>3. ASSUME NEW r \in Writers, Abstract!Ack(r) \/ Abstract!Fail(r) PROVE AbstractInv'
    BY <1>2, <2>3 DEF Abstract!Ack, Abstract!Fail
  <2>4. CASE UNCHANGED Abstract!vars
    BY <1>2, <2>4 DEF Abstract!vars
  <2> QED BY <1>2, <2>1, <2>2, <2>3, <2>4 DEF Abstract!Next
<1> QED BY <1>1, <1>2

(* Once the append of a record has returned Ok, no step of this or another   *)
(* append, no eviction and no crash moves the record or takes its place in   *)
(* what a reader would replay.                                               *)
THEOREM AckedNeverMoves == Spec => Abstract!AckedKept
<1> DEFINE log == Replay(parts)
           Kept == \A i \in DOMAIN log : log[i] \in acked =>
                       i \in DOMAIN log' /\ log'[i] = log[i]
<1>1. Abstract!Init => AbstractInv
  BY AbstractStep
<1>2. AbstractInv /\ [Abstract!Next]_(Abstract!vars) => AbstractInv'
  BY AbstractStep
<1>3. ASSUME AbstractInv, [Abstract!Next]_(Abstract!vars) PROVE [Kept]_(Abstract!vars)
  <2>0. log \in Seq(Writers) /\ acked \cap failed = {}
    BY <1>3 DEF AbstractInv, Abstract!TypeOK
  <2>1. ASSUME NEW r \in Writers, Abstract!Extend(r) PROVE Kept
    <3>1. \A i \in DOMAIN log : i \in DOMAIN Append(log, r) /\ Append(log, r)[i] = log[i]
      BY <2>0, AppendProperties, LenProperties
    <3> QED BY <2>1, <3>1 DEF Abstract!Extend
  <2>2. ASSUME NEW r \in Writers, Abstract!TakePlace(r) PROVE Kept
    <3>1. log[Len(log)] \notin acked
      BY <2>0, <2>2 DEF Abstract!TakePlace
    <3> QED BY <2>0, <2>2, <3>1 DEF Abstract!TakePlace
  <2>3. ASSUME NEW r \in Writers, Abstract!Ack(r) \/ Abstract!Fail(r) PROVE Kept
    BY <2>3 DEF Abstract!Ack, Abstract!Fail
  <2> QED BY <1>3, <2>1, <2>2, <2>3 DEF Abstract!Next
<1> HIDE DEF Kept, log
<1>4. Abstract!Spec => [][Kept]_(Abstract!vars)
  BY <1>1, <1>2, <1>3, PTL DEF Abstract!Spec
<1>5. Spec => Abstract!Spec
  BY ObjectsAreALog DEF ImplementsOpLog
<1> QED BY <1>4, <1>5 DEF Abstract!AckedKept, Kept, log

-----------------------------------------------------------------------------
(* What a read in progress has fetched and still owes. *)
ReadOK ==
    /\ owed \subseteq acked
    /\ reading = NoNumber => owed = {} /\ out = << >>
    /\ \A w \in owed : part[w] < reading
    /\ \A w \in owed : part[w] < Len(out) => out[part[w] + 1] = w

(* A read that goes on under appends keeps what it owes. *)
LEMMA ReadStep ==
    OrderInv /\ ReadOK /\ [Next]_vars => ReadOK'
<1> SUFFICES ASSUME OrderInv, ReadOK, [Next]_vars PROVE ReadOK'
  OBVIOUS
<1> USE SentinelAssumption
<1>n. PICK n \in Nat : NumbersOK(n) /\ OrderOK(n)
  BY DEF OrderInv
<1>0. TypeOK /\ Len(out) \in Nat
  BY LenProperties DEF OrderInv, TypeOK
<1>1. ASSUME NEW w \in Writers, WriterStep(w) PROVE ReadOK'
  <2>1. UNCHANGED readerVars /\ acked \subseteq acked'
    BY <1>1 DEF WriterStep, Allocate, List, Land, PutOk, RequestFails
  <2>2. \A v \in acked : part'[v] = part[v]
    BY <1>1, <1>n, <1>0
       DEF WriterStep, Allocate, List, Land, PutOk, RequestFails,
           OrderOK, TypeOK
  <2> QED BY <2>1, <2>2 DEF ReadOK, readerVars
<1>2. CASE Close \/ UNCHANGED vars
  BY <1>2 DEF Close, vars, ReadOK, writerVars, readerVars
<1>3. CASE Crash \/ ReadEnd
  BY <1>3 DEF Crash, ReadEnd, ReadOK
<1>4. CASE ReadBegin
  <2>1. reading' = n /\ owed' = acked /\ UNCHANGED <<out, part, acked>>
    BY <1>4, <1>n, ListingNumbers
       DEF ReadBegin, writerVars, NumbersOK, Shape
  <2>2. out = << >> /\ Len(out) = 0
    BY <1>4, EmptySeq DEF ReadBegin, ReadOK
  <2>3. \A w \in acked : part[w] \in Nat /\ part[w] < n
    BY <1>n, <1>0 DEF OrderOK, NumbersOK, Shape, TypeOK
  <2> QED BY <2>1, <2>2, <2>3 DEF ReadOK
<1>5. CASE ReadPart
  <2>1. /\ out' = Append(out, parts[Len(out)])
        /\ UNCHANGED <<reading, owed, part, acked>>
    BY <1>5 DEF ReadPart, writerVars
  <2>2. Len(out') = Len(out) + 1 /\ out'[Len(out) + 1] = parts[Len(out)]
        /\ \A i \in 1 .. Len(out) : out'[i] = out[i]
    BY <1>0, <2>1, AppendProperties DEF TypeOK
  <2>3. \A w \in owed : part[w] \in Nat /\ parts[part[w]] = w
    BY <1>n, <1>0 DEF ReadOK, OrderOK, TypeOK
  <2>4. \A w \in owed : part[w] < Len(out') => out'[part[w] + 1] = w
    <3> SUFFICES ASSUME NEW w \in owed, part[w] < Len(out) + 1
                 PROVE  out'[part[w] + 1] = w
      BY <2>2
    <3>1. CASE part[w] = Len(out)
      BY <2>2, <2>3, <3>1
    <3>2. CASE part[w] < Len(out)
      BY <1>0, <2>2, <2>3, <3>2 DEF ReadOK
    <3> QED BY <1>0, <2>3, <3>1, <3>2
  <2> QED BY <1>5, <2>1, <2>4 DEF ReadOK, ReadPart
<1> QED BY <1>1, <1>2, <1>3, <1>4, <1>5 DEF Next

(* A read_all that began after an append was acknowledged returns its        *)
(* record, at its number, whatever other appends do meanwhile.               *)
THEOREM ReadsAreComplete == Spec => []ReadComplete
<1>1. Init => OrderInv /\ ReadOK
  BY OrderInit DEF Init, ReadOK
<1>2. OrderInv /\ ReadOK /\ [Next]_vars => OrderInv' /\ ReadOK'
  BY OrderStep, ReadStep
<1>3. OrderInv /\ ReadOK => ReadComplete
  <2> SUFFICES ASSUME OrderInv, ReadOK, reading # NoNumber, Len(out) = reading,
                      NEW w \in owed
               PROVE  part[w] + 1 \in DOMAIN out /\ out[part[w] + 1] = w
    BY DEF ReadComplete
  <2>1. out \in Seq(Writers) /\ part[w] \in Nat
    BY DEF OrderInv, TypeOK, ReadOK
  <2>2. part[w] < Len(out) /\ DOMAIN out = 1 .. Len(out) /\ Len(out) \in Nat
    BY <2>1, LenProperties DEF ReadOK
  <2> QED BY <2>1, <2>2 DEF ReadOK
<1> QED BY <1>1, <1>2, <1>3, PTL DEF Spec
====
