---------------------------- MODULE RegionFileProofs ------------------------------
(***************************************************************************)
(* Machine-checked proofs about RegionFile for any number of slots, sector *)
(* size, block sizes, saves and faults: each sector belongs to one block,  *)
(* in the table of the open handle and in the one on disk, whatever call   *)
(* fails and whenever the process dies, unless the header was torn; the    *)
(* file opens again, unless a save was stopped while it moved sectors; and *)
(* a block that no stopped save has put in doubt reads back as saved.      *)
(***************************************************************************)
EXTENDS RegionFile, FiniteSetTheorems, SequenceTheorems, TLAPS

-----------------------------------------------------------------------------
(* The lookup table *)

\* What an entry takes, told sector by sector.
LEMMA Sectors ==
    ASSUME NEW l \in [Slots -> Info], NEW s \in Slots
    PROVE  /\ l[s].index \in Nat /\ l[s].count \in Nat /\ End(l, s) = l[s].index + l[s].count
           /\ \A k \in Int : k \in Interval(l, s) <=> l[s].index <= k /\ k < End(l, s)
           /\ Interval(l, s) \subseteq Nat /\ (Interval(l, s) # {} => Present(l, s))
<1>1. l[s].index \in Nat /\ l[s].count \in Nat
  BY DEF Info
<1> QED
  BY <1>1 DEF End, Interval, Present

\* A table that is tight, told sector by sector.
LEMMA TightTold ==
    ASSUME NEW l \in [Slots -> Info], NEW N \in Nat
    PROVE  Tight(l, N) <=>
             /\ \A s, t \in Slots : s # t /\ Present(l, s) /\ Present(l, t)
                                      => End(l, s) <= l[t].index \/ End(l, t) <= l[s].index
             /\ \A s \in Slots : Present(l, s) => End(l, s) <= N
             /\ \A k \in 0..(N - 1) : \E s \in Slots : k \in Interval(l, s)
<1>1. \A s \in Slots : l[s].index \in Nat /\ l[s].count \in Nat /\ End(l, s) \in Nat
                       /\ End(l, s) = l[s].index + l[s].count
  BY Sectors
<1>2. (\A s, t \in Slots : ~Overlap(l, s, t))
        <=> \A s, t \in Slots : s # t /\ Present(l, s) /\ Present(l, t)
                                  => End(l, s) <= l[t].index \/ End(l, t) <= l[s].index
  BY <1>1 DEF Overlap
<1>3. Occupied(l) \subseteq 0..(N - 1) <=> \A s \in Slots : Present(l, s) => End(l, s) <= N
  <2>1. ASSUME Occupied(l) \subseteq 0..(N - 1), NEW s \in Slots, Present(l, s)
        PROVE  End(l, s) <= N
    <3>1. End(l, s) - 1 \in Interval(l, s)
      BY <1>1, <2>1, Sectors DEF Present
    <3>2. End(l, s) - 1 \in Occupied(l)
      BY <3>1 DEF Occupied
    <3> QED
      BY <1>1, <2>1, <3>2
  <2>2. ASSUME \A s \in Slots : Present(l, s) => End(l, s) <= N, NEW s \in Slots, NEW k \in Interval(l, s)
        PROVE  k \in 0..(N - 1)
    BY <1>1, <2>2, Sectors
  <2> QED
    BY <2>1, <2>2 DEF Occupied
<1>4. 0..(N - 1) \subseteq Occupied(l) <=> \A k \in 0..(N - 1) : \E s \in Slots : k \in Interval(l, s)
  BY DEF Occupied
<1> QED
  BY <1>2, <1>3, <1>4 DEF Tight

\* The number of sectors a tight table takes.
LEMMA TightSize ==
    ASSUME NEW l \in [Slots -> Info], NEW N \in Nat, Tight(l, N)
    PROVE  Cardinality(Occupied(l)) = N
<1>1. Occupied(l) = 0..(N - 1)
  BY DEF Tight
<1>2. Cardinality(0..(N - 1)) = N
  BY FS_Interval
<1> QED
  BY <1>1, <1>2

\* The sectors of any table are finitely many.
LEMMA OccupiedFinite ==
    ASSUME NEW l \in [Slots -> Info]
    PROVE  IsFiniteSet(Occupied(l)) /\ Cardinality(Occupied(l)) \in Nat
<1>1. IsFiniteSet(Slots)
  BY FS_Interval, RegionAssumption DEF Slots
<1>2. \A s \in Slots : IsFiniteSet(Interval(l, s))
  <2>1. ASSUME NEW s \in Slots
        PROVE  IsFiniteSet(Interval(l, s))
    <3>1. l[s].index \in Int /\ End(l, s) - 1 \in Int
      BY Sectors
    <3> QED
      BY <3>1, FS_Interval DEF Interval
  <2> QED
    BY <2>1
<1>3. IsFiniteSet(Occupied(l))
  <2>1. IsFiniteSet({Interval(l, s) : s \in Slots})
    <3>1. PICK M : M = [s \in Slots |-> Interval(l, s)]
      OBVIOUS
    <3>2. M \in Surjection(1..SlotCount, {Interval(l, s) : s \in Slots})
      BY <3>1 DEF Surjection, Slots
    <3>3. SlotCount \in Nat
      BY RegionAssumption
    <3> QED
      BY <3>2, <3>3, FS_NatSurjection DEF ExistsSurjection
  <2> QED
    BY <1>2, <2>1, FS_UNION DEF Occupied
<1> QED
  BY <1>3, FS_CardinalityType

\* No block: nothing is taken.
LEMMA EmptyTight == Tight([s \in Slots |-> Empty], 0) /\ [s \in Slots |-> Empty] \in [Slots -> Info]
<1>1. PICK l : l = [s \in Slots |-> Empty]
  OBVIOUS
<1>2. l \in [Slots -> Info] /\ \A s \in Slots : ~Present(l, s)
  BY <1>1 DEF Empty, Info, Present
<1>3. Tight(l, 0)
  BY <1>2, TightTold
<1> QED
  BY <1>1, <1>2, <1>3

\* A shift that takes n sectors from a block moves the ones behind it down by
\* n: the table is tight again, for n sectors less.
LEMMA ShrinkTight ==
    ASSUME NEW l \in [Slots -> Info], NEW N \in Nat, Tight(l, N),
           NEW s \in Slots, NEW n \in Nat, 0 < n, n <= l[s].count
    PROVE  /\ Shrunk(l, s, n) \in [Slots -> Info]
           /\ End(l, s) <= N /\ N - n \in Nat /\ Tight(Shrunk(l, s, n), N - n)
<1>1. PICK m : m = Shrunk(l, s, n)
  OBVIOUS
<1>2. /\ l[s].index \in Nat /\ l[s].count \in Nat /\ End(l, s) = l[s].index + l[s].count
      /\ Present(l, s)
  BY Sectors DEF Present
<1>3. /\ \A t, u \in Slots : t # u /\ Present(l, t) /\ Present(l, u)
                               => End(l, t) <= l[u].index \/ End(l, u) <= l[t].index
      /\ \A t \in Slots : Present(l, t) => End(l, t) <= N
      /\ \A k \in 0..(N - 1) : \E t \in Slots : k \in Interval(l, t)
  BY TightTold
<1>4. End(l, s) <= N /\ N - n \in Nat
  BY <1>2, <1>3
<1>5. \A t \in Slots : l[t].index \in Nat /\ l[t].count \in Nat /\ End(l, t) = l[t].index + l[t].count
                       /\ (Present(l, t) <=> l[t].count > 0)
  BY Sectors DEF Present
<1>6. \A t \in Slots \ {s} : t \in Behind(l, s) => Present(l, t) /\ End(l, s) <= l[t].index
  BY <1>2, <1>3, <1>5 DEF Behind
<1>7. \A t \in Slots \ {s} : Present(l, t) /\ t \notin Behind(l, s) => End(l, t) <= l[s].index
  BY <1>2, <1>3, <1>5 DEF Behind
<1>8. /\ m[s] = IF l[s].count = n THEN Empty ELSE [l[s] EXCEPT !.count = @ - n]
      /\ \A t \in Slots \ {s} : m[t] = IF t \in Behind(l, s) THEN [l[t] EXCEPT !.index = @ - n] ELSE l[t]
  <2>1. s \notin Behind(l, s)
    BY <1>2 DEF Behind
  <2>2. \A t \in Slots \ {s} : m[t] = IF t \in Behind(l, s) THEN [l[t] EXCEPT !.index = @ - n] ELSE l[t]
    BY <1>1 DEF Shrunk
  <2>3. m[s] = IF l[s].count = n THEN Empty ELSE [l[s] EXCEPT !.count = @ - n]
    BY <1>1, <2>1 DEF Shrunk
  <2> QED
    BY <2>2, <2>3
<1>9. /\ m[s].count = l[s].count - n
      /\ l[s].count # n => m[s].index = l[s].index
      /\ m[s] \in Info
  BY <1>2, <1>8 DEF Empty, Info
<1>10. ASSUME NEW t \in Slots \ {s}
       PROVE  /\ m[t].count = l[t].count
              /\ t \in Behind(l, s) => m[t].index = l[t].index - n
              /\ t \notin Behind(l, s) => m[t].index = l[t].index
              /\ m[t] \in Info
  <2>1. l[t] \in Info
    OBVIOUS
  <2>2. CASE t \in Behind(l, s)
    <3>1. l[t].index - n \in Nat
      BY <1>2, <1>5, <1>6, <2>2
    <3> QED
      BY <1>8, <2>1, <2>2, <3>1 DEF Info
  <2>3. CASE t \notin Behind(l, s)
    BY <1>8, <2>1, <2>3
  <2> QED
    BY <2>2, <2>3
<1>11. m \in [Slots -> Info]
  <2>1. m = [t \in Slots |-> m[t]]
    BY <1>1 DEF Shrunk
  <2> QED
    BY <1>9, <1>10, <2>1
<1>12. \A t \in Slots : m[t].index \in Nat /\ m[t].count \in Nat /\ End(m, t) = m[t].index + m[t].count
                        /\ (Present(m, t) <=> m[t].count > 0)
  BY <1>11, Sectors DEF Present
<1>13. ASSUME NEW t \in Slots, NEW u \in Slots, t # u, Present(m, t), Present(m, u)
       PROVE  End(m, t) <= m[u].index \/ End(m, u) <= m[t].index
  <2>1. Present(l, t) /\ Present(l, u)
    BY <1>2, <1>5, <1>9, <1>10, <1>12, <1>13
  <2>2. CASE t = s
    BY <1>2, <1>5, <1>6, <1>7, <1>9, <1>10, <1>12, <1>13, <2>1, <2>2
  <2>3. CASE u = s
    BY <1>2, <1>5, <1>6, <1>7, <1>9, <1>10, <1>12, <1>13, <2>1, <2>3
  <2>4. CASE t # s /\ u # s
    <3>1. /\ End(l, t) <= l[u].index \/ End(l, u) <= l[t].index
          /\ t \in Behind(l, s) => End(l, s) <= l[t].index
          /\ u \in Behind(l, s) => End(l, s) <= l[u].index
          /\ t \notin Behind(l, s) => End(l, t) <= l[s].index
          /\ u \notin Behind(l, s) => End(l, u) <= l[s].index
      BY <1>3, <1>6, <1>7, <1>13, <2>1, <2>4
    <3>2. m[t].count = l[t].count /\ m[u].count = l[u].count
      BY <1>10, <2>4
    <3>3. /\ t \in Behind(l, s) => m[t].index = l[t].index - n
          /\ t \notin Behind(l, s) => m[t].index = l[t].index
          /\ u \in Behind(l, s) => m[u].index = l[u].index - n
          /\ u \notin Behind(l, s) => m[u].index = l[u].index
      BY <1>10, <2>4
    <3> QED
      BY <1>2, <1>5, <1>12, <3>1, <3>2, <3>3
  <2> QED
    BY <2>2, <2>3, <2>4
<1>14. ASSUME NEW t \in Slots, Present(m, t)
       PROVE  End(m, t) <= N - n
  <2>1. Present(l, t)
    BY <1>2, <1>5, <1>9, <1>10, <1>12, <1>14
  <2>2. CASE t = s
    BY <1>2, <1>4, <1>9, <1>12, <1>14, <2>2
  <2>3. CASE t # s /\ t \in Behind(l, s)
    BY <1>3, <1>5, <1>10, <1>12, <2>1, <2>3
  <2>4. CASE t # s /\ t \notin Behind(l, s)
    BY <1>2, <1>4, <1>5, <1>7, <1>10, <1>12, <2>1, <2>4
  <2> QED
    BY <2>2, <2>3, <2>4
<1>15. ASSUME NEW k \in 0..((N - n) - 1)
       PROVE  \E t \in Slots : k \in Interval(m, t)
  <2>1. \A t \in Slots : /\ k \in Interval(m, t) <=> m[t].index <= k /\ k < End(m, t)
                         /\ \A j \in Int : j \in Interval(l, t) <=> l[t].index <= j /\ j < End(l, t)
    BY <1>11, Sectors
  <2>2. CASE k < End(l, s) - n
    <3>1. PICK t \in Slots : l[t].index <= k /\ k < End(l, t)
      <4>1. k \in 0..(N - 1)
        BY <1>4, <1>15
      <4> QED
        BY <1>3, <2>1, <4>1
    <3>2. CASE t = s
      <4>1. l[s].count # n
        BY <1>2, <2>2, <3>1, <3>2
      <4> QED
        BY <1>2, <1>9, <1>12, <2>1, <2>2, <3>1, <3>2, <4>1
    <3>3. CASE t # s
      <4>1. Present(l, t)
        BY <1>5, <3>1
      <4>2. t \notin Behind(l, s)
        BY <1>2, <1>4, <1>5, <1>6, <1>15, <2>2, <3>1, <3>3
      <4> QED
        BY <1>5, <1>10, <1>12, <2>1, <3>1, <3>3, <4>2
    <3> QED
      BY <3>2, <3>3
  <2>3. CASE ~ (k < End(l, s) - n)
    <3>1. k + n \in 0..(N - 1) /\ k + n >= End(l, s)
      BY <1>2, <1>4, <1>15, <2>3
    <3>2. PICK t \in Slots : l[t].index <= k + n /\ k + n < End(l, t)
      BY <1>3, <2>1, <3>1
    <3>3. t # s /\ Present(l, t)
      BY <1>2, <1>5, <3>1, <3>2
    <3>4. t \in Behind(l, s)
      BY <1>2, <1>5, <1>7, <3>1, <3>2, <3>3
    <3> QED
      BY <1>5, <1>10, <1>12, <2>1, <3>2, <3>3, <3>4
  <2> QED
    BY <2>2, <2>3
<1>16. Tight(m, N - n)
  BY <1>4, <1>11, <1>13, <1>14, <1>15, TightTold
<1> QED
  BY <1>1, <1>4, <1>11, <1>16

\* A block is added behind the last sector.
LEMMA AppendTight ==
    ASSUME NEW l \in [Slots -> Info], NEW N \in Nat, Tight(l, N),
           NEW s \in Slots, l[s].count = 0, NEW n \in Nat
    PROVE  /\ [l EXCEPT ![s] = [index |-> N, count |-> n]] \in [Slots -> Info]
           /\ Tight([l EXCEPT ![s] = [index |-> N, count |-> n]], N + n)
<1>1. PICK m : m = [l EXCEPT ![s] = [index |-> N, count |-> n]]
  OBVIOUS
<1>2. m[s].index = N /\ m[s].count = n /\ \A t \in Slots \ {s} : m[t] = l[t]
  BY <1>1
<1>3. m \in [Slots -> Info]
  BY <1>1 DEF Info
<1>4. /\ \A t, u \in Slots : t # u /\ Present(l, t) /\ Present(l, u)
                               => End(l, t) <= l[u].index \/ End(l, u) <= l[t].index
      /\ \A t \in Slots : Present(l, t) => End(l, t) <= N
      /\ \A k \in 0..(N - 1) : \E t \in Slots : k \in Interval(l, t)
  BY TightTold
<1>5. \A t \in Slots \ {s} : /\ Present(m, t) <=> Present(l, t)
                             /\ End(m, t) = End(l, t) /\ m[t].index = l[t].index
                             /\ Interval(m, t) = Interval(l, t)
                             /\ End(l, t) \in Nat
  BY <1>2, Sectors DEF Present, End, Interval
<1>6. /\ End(m, s) = N + n /\ ~Present(l, s) /\ m[s].index = N
      /\ \A k \in Int : k \in Interval(m, s) <=> N <= k /\ k < N + n
  BY <1>2, <1>3, Sectors DEF Present
<1>7. ASSUME NEW t \in Slots, NEW u \in Slots, t # u, Present(m, t), Present(m, u)
      PROVE  End(m, t) <= m[u].index \/ End(m, u) <= m[t].index
  <2>1. CASE t = s
    BY <1>4, <1>5, <1>6, <1>7, <2>1
  <2>2. CASE u = s
    BY <1>4, <1>5, <1>6, <1>7, <2>2
  <2>3. CASE t # s /\ u # s
    BY <1>4, <1>5, <1>7, <2>3
  <2> QED
    BY <2>1, <2>2, <2>3
<1>8. \A t \in Slots : Present(m, t) => End(m, t) <= N + n
  BY <1>4, <1>5, <1>6
<1>9. ASSUME NEW k \in 0..((N + n) - 1)
      PROVE  \E t \in Slots : k \in Interval(m, t)
  <2>1. CASE k < N
    <3>1. PICK t \in Slots : k \in Interval(l, t)
      BY <1>4, <2>1
    <3>2. t # s
      BY <1>6, <3>1, Sectors
    <3> QED
      BY <1>5, <3>1, <3>2
  <2>2. CASE ~ (k < N)
    BY <1>6, <2>2
  <2> QED
    BY <2>1, <2>2
<1>10. Tight(m, N + n)
  BY <1>3, <1>7, <1>8, <1>9, TightTold
<1> QED
  BY <1>1, <1>3, <1>10

-----------------------------------------------------------------------------
(* The cells of the file *)

Cells == Seq(Save \X Nat)

\* A product of two counts is a count.
LEMMA Product == \A x, y \in Nat : x * y \in Nat
OBVIOUS

\* A function on 1..n is a sequence.
LEMMA FunctionIsSeq ==
    ASSUME NEW S, NEW n \in Nat, NEW f \in [1..n -> S]
    PROVE  f \in Seq(S)
BY SeqDef

\* A byte of padding belongs to no save.
LEMMA ZeroIsCell == Zero \in Save \X Nat
BY RegionAssumption DEF Zero, Save

\* What a write leaves in the file are cells.
LEMMA WrittenType ==
    ASSUME data \in Cells, NEW p \in Nat, NEW c \in Cells
    PROVE  Written(p, c) \in Cells
<1>1. Len(c) \in Nat /\ Len(data) \in Nat
  BY LenProperties DEF Cells
<1>2. PICK n : n = IF p + Len(c) > Len(data) THEN p + Len(c) ELSE Len(data)
  OBVIOUS
<1>3. n \in Nat
  BY <1>1, <1>2
<1>4. ASSUME NEW i \in 1..n
      PROVE  /\ p < i /\ i <= p + Len(c) => c[i - p] \in Save \X Nat
             /\ i <= Len(data) => data[i] \in Save \X Nat
  <2>1. p < i /\ i <= p + Len(c) => i - p \in 1..Len(c)
    BY <1>1, <1>4
  <2>2. i <= Len(data) => i \in 1..Len(data)
    BY <1>1, <1>4
  <2> QED
    BY <2>1, <2>2, ElementOfSeq DEF Cells
<1>5. [i \in 1..n |-> IF p < i /\ i <= p + Len(c) THEN c[i - p]
                    ELSE IF i <= Len(data) THEN data[i] ELSE Zero] \in [1..n -> Save \X Nat]
  BY <1>4, ZeroIsCell
<1>6. [i \in 1..n |-> IF p < i /\ i <= p + Len(c) THEN c[i - p]
                    ELSE IF i <= Len(data) THEN data[i] ELSE Zero] \in Cells
  BY <1>3, <1>5, FunctionIsSeq DEF Cells
<1> QED
  BY <1>2, <1>6 DEF Written

\* A part of some cells are cells.
LEMMA PartType ==
    ASSUME NEW c \in Cells, NEW k \in Nat, NEW n \in Int, n <= Len(c)
    PROVE  SubSeq(c, k + 1, n) \in Cells
<1>1. Len(c) \in Nat
  BY LenProperties DEF Cells
<1>2. \A i \in (k + 1)..n : c[i] \in Save \X Nat
  BY <1>1, ElementOfSeq DEF Cells
<1> QED
  BY <1>2, SubSeqProperties DEF Cells

\* What a write that stops early leaves are cells.
LEMMA PartsType ==
    ASSUME NEW c \in Cells, NEW part \in Parts(c)
    PROVE  part \in Cells
<1>1. PICK k \in 0..Len(c) : part = SubSeq(c, 1, k)
  BY DEF Parts
<1>2. Len(c) \in Nat
  BY LenProperties DEF Cells
<1>3. SubSeq(c, 0 + 1, k) \in Cells
  BY <1>2, PartType
<1> QED
  BY <1>1, <1>3

\* The payload of a save.
LEMMA PayloadType ==
    ASSUME TypeOK, NEW v \in 1..Len(sizes)
    PROVE  Payload(v) \in Cells /\ sizes[v] \in Nat /\ SectorsFor(sizes[v]) \in Nat
<1>1. sizes[v] \in Nat /\ sizes[v] > 0 /\ v \in Save
  <2>1. sizes[v] \in Sizes /\ Len(sizes) \in Save
    BY ElementOfSeq DEF TypeOK
  <2>2. sizes[v] \in Nat /\ sizes[v] > 0
    <3>1. Sizes \subseteq Nat \ {0}
      BY RegionAssumption
    <3>2. sizes[v] \in Nat \ {0}
      BY <2>1, <3>1
    <3> QED
      BY <3>2
  <2>3. MaxSaves \in Nat
    BY RegionAssumption
  <2>4. v \in Save
    BY <2>1, <2>3 DEF Save
  <2> QED
    BY <2>2, <2>4
<1>2. Payload(v) \in Cells
  <2>1. [i \in 1..sizes[v] |-> <<v, i>>] \in [1..sizes[v] -> Save \X Nat]
    BY <1>1
  <2> QED
    BY <1>1, <2>1, FunctionIsSeq DEF Payload, Cells
<1>3. SectorsFor(sizes[v]) \in Nat
  <2>1. SectorSize \in Nat /\ SectorSize > 0
    BY RegionAssumption
  <2> QED
    BY <1>1, <2>1 DEF SectorsFor
<1> QED
  BY <1>1, <1>2, <1>3

\* The padding behind a payload.
LEMMA PadCellsType ==
    ASSUME TypeOK, op.save \in 1..Len(sizes)
    PROVE  PadCells \in Cells
<1>1. /\ sizes[op.save] \in Nat /\ SectorSize \in Nat /\ SectorSize > 0
      /\ misalign \in Nat /\ sectors * SectorSize \in Nat
  <2>1. misalign \in Nat /\ SectorSize \in Nat /\ SectorSize > 0
    BY RegionAssumption DEF TypeOK
  <2> QED
    BY <2>1, PayloadType, Product DEF TypeOK
<1>2. PICK r : r = (misalign + sectors * SectorSize + sizes[op.save]) % SectorSize
  OBVIOUS
<1>3. r \in 0..(SectorSize - 1)
  <2>1. misalign + sectors * SectorSize + sizes[op.save] \in Nat
    BY <1>1
  <2> QED
    BY <1>1, <1>2, <2>1
<1>4. PICK n : n = IF r = 0 THEN 0 ELSE SectorSize - r
  OBVIOUS
<1>5. n \in Nat
  BY <1>1, <1>3, <1>4
<1>6. [i \in 1..n |-> Zero] \in [1..n -> Save \X Nat]
  BY ZeroIsCell
<1> QED
  BY <1>2, <1>4, <1>5, <1>6, FunctionIsSeq DEF PadCells, Cells

\* Where a save writes is an offset, and what it leaves there are cells.
LEMMA WriteTypes ==
    ASSUME TypeOK, op.freed <= op.before.count
    PROVE  /\ Rest \in Cells /\ ShiftTo \in Nat /\ RewriteOffset \in Nat /\ sectors * SectorSize \in Nat
           /\ Written(ShiftTo, Rest) \in Cells
           /\ op.save \in 1..Len(sizes) =>
                /\ Payload(op.save) \in Cells
                /\ Written(sectors * SectorSize, Payload(op.save)) \in Cells
                /\ Written(RewriteOffset, Payload(op.save)) \in Cells
<1>1. /\ op.before.index \in Nat /\ op.before.count \in Nat /\ op.freed \in Nat
      /\ sectors \in Nat /\ SectorSize \in Nat /\ data \in Cells
  BY RegionAssumption DEF TypeOK, Info, Cells
<1>2. PICK d \in Nat : op.before.count = op.freed + d
  <2>1. op.before.count - op.freed \in Nat /\ op.before.count = op.freed + (op.before.count - op.freed)
    BY <1>1
  <2> QED
    BY <2>1
<1>3. /\ op.before.index * SectorSize \in Nat /\ op.freed * SectorSize \in Nat
      /\ d * SectorSize \in Nat /\ sectors * SectorSize \in Nat
  BY <1>1, Product
<1>4. ShiftFrom = op.before.index * SectorSize + op.freed * SectorSize + d * SectorSize
  BY <1>1, <1>2 DEF ShiftFrom
<1>5. ShiftFrom \in Nat /\ ShiftTo \in Nat
  BY <1>3, <1>4 DEF ShiftTo
<1>6. Rest \in Cells
  <2>1. Len(data) \in Nat
    BY <1>1, LenProperties DEF Cells
  <2> QED
    BY <1>1, <1>5, <2>1, PartType DEF Rest
<1>7. ASSUME op.save \in 1..Len(sizes)
      PROVE  Payload(op.save) \in Cells
  BY <1>7, PayloadType
<1> QED
  BY <1>1, <1>3, <1>5, <1>6, <1>7, WrittenType DEF RewriteOffset
-----------------------------------------------------------------------------
(* The invariant *)

(* The save under way frees sectors of the entry it found, which stays as it *)
(* is until the file is cut; it adds a block only for a slot without one.    *)
OpOK ==
    /\ op.freed <= op.before.count
    /\ pc \in {"shift", "truncate"} => lut[op.slot] = op.before /\ op.freed > 0
    /\ pc \in {"append", "pad"} => lut[op.slot].count = 0
    /\ pc \in {"shift", "truncate", "append", "pad", "rewrite", "header"} => op.save \in 1..Len(sizes)

(* The tables, in memory and on disk. *)
MemoryOK == pc # "closed" /\ ~gapped => Tight(lut, sectors)
DiskOK   == ~torn => Tight(disk_lut, Cardinality(Occupied(disk_lut)))
CreateOK == pc = "create" => lut = [s \in Slots |-> Empty]

IInv == TypeOK /\ OpOK /\ MemoryOK /\ DiskOK /\ CreateOK

\* What RegionAssumption says of each constant.
LEMMA Constants ==
    /\ SlotCount \in Nat /\ SlotCount > 0 /\ SectorSize \in Nat /\ SectorSize > 0
    /\ MaxSaves \in Nat /\ MaxFaults \in Nat /\ Sizes \subseteq Nat \ {0} /\ 1 \in Slots
BY RegionAssumption DEF Slots

\* Between two saves there is none under way.
LEMMA NoOpType ==
    /\ NoOp \in [slot : Slots, save : Save, before : Info, freed : Nat, behind : SUBSET Slots]
    /\ NoOp.freed <= NoOp.before.count
BY Constants DEF NoOp, Save, Info

\* A table of memory that is written to disk is as tight there.
LEMMA TightOnDisk ==
    ASSUME NEW l \in [Slots -> Info], NEW N \in Nat, Tight(l, N)
    PROVE  Tight(l, Cardinality(Occupied(l)))
BY TightSize

\* What the guesses about damage may become.
LEMMA GhostType ==
    ASSUME TypeOK, NEW moving \in BOOLEAN
    PROVE  Doubt \subseteq Slots /\ StoppedAt(moving) \in 0..(MaxSaves + 1)
<1>1. Len(sizes) + 1 \in 0..(MaxSaves + 1)
  BY Constants DEF TypeOK, Save
<1> QED
  BY <1>1 DEF TypeOK, Doubt, StoppedAt

\* A failed call and a crash, with what they left on disk.
LEMMA InterruptedStep ==
    ASSUME IInv, Interrupted, pc # "closed", data' \in Cells,
           header' \in {"none", "cut", "whole"}, disk_lut' \in [Slots -> Info],
           torn' \in BOOLEAN, DiskOK'
    PROVE  IInv'
<1>1. TypeOK /\ OpOK /\ MemoryOK
  BY DEF IInv
<1>2. /\ op' = NoOp /\ suspect' = Doubt /\ faults' = faults + 1 /\ faults < MaxFaults
      /\ stopped' = StoppedAt(op.freed > 0 \/ pc = "create")
      /\ UNCHANGED <<misalign, sizes, acked>>
  BY DEF Interrupted
<1>3. \/ pc' = "closed" /\ UNCHANGED <<lut, sectors, gapped>>
      \/ pc' = "idle" /\ UNCHANGED <<lut, sectors, gapped>>
      \/ pc' = "closed" /\ gapped' = FALSE /\ lut' = [s \in Slots |-> Empty] /\ sectors' = 0
  BY DEF Interrupted, table
<1>4. suspect' \subseteq Slots /\ stopped' \in 0..(MaxSaves + 1)
  BY <1>1, <1>2, GhostType
<1>5. faults' \in 0..MaxFaults
  BY <1>1, <1>2, Constants DEF TypeOK
<1>6. lut' \in [Slots -> Info] /\ sectors' \in Nat /\ gapped' \in BOOLEAN
  <2>1. [s \in Slots |-> Empty] \in [Slots -> Info]
    BY EmptyTight
  <2>2. lut \in [Slots -> Info] /\ sectors \in Nat /\ gapped \in BOOLEAN
    BY <1>1 DEF TypeOK
  <2>3. CASE UNCHANGED <<lut, sectors, gapped>>
    BY <2>2, <2>3
  <2>4. CASE gapped' = FALSE /\ lut' = [s \in Slots |-> Empty] /\ sectors' = 0
    BY <2>1, <2>4
  <2> QED
    BY <1>3, <2>3, <2>4
<1>7. TypeOK'
  BY <1>1, <1>2, <1>3, <1>4, <1>5, <1>6, NoOpType DEF TypeOK, Cells
<1>8. OpOK'
  BY <1>2, <1>3, NoOpType DEF OpOK
<1>9. MemoryOK' /\ CreateOK'
  BY <1>1, <1>3 DEF MemoryOK, CreateOK
<1> QED
  BY <1>7, <1>8, <1>9 DEF IInv

\* A write that goes on or ends changes the cells, not the tables.
LEMMA DataStep ==
    ASSUME IInv, Shift \/ WritePayload \/ Rewrite
    PROVE  IInv'
<1>1. /\ TypeOK /\ OpOK /\ MemoryOK /\ DiskOK
      /\ UNCHANGED <<misalign, disk_lut, table, op, sizes, faults, ghost>>
  BY DEF IInv, Shift, WritePayload, Rewrite
<1>2. op.save \in 1..Len(sizes)
  BY <1>1 DEF OpOK, Shift, WritePayload, Rewrite
<1>3. Written(ShiftTo, Rest) \in Cells /\ Written(sectors * SectorSize, Payload(op.save)) \in Cells
      /\ Written(RewriteOffset, Payload(op.save)) \in Cells
  BY <1>1, <1>2, WriteTypes DEF OpOK
<1>4. data' \in Cells /\ header' \in {"none", "cut", "whole"}
  BY <1>1, <1>3 DEF Shift, WritePayload, Rewrite, TypeOK
<1>5. TypeOK'
  BY <1>1, <1>4 DEF TypeOK, table, ghost, Cells, Shift, WritePayload, Rewrite
<1>6. OpOK'
  BY <1>1 DEF OpOK, table, Shift, WritePayload, Rewrite
<1>7. MemoryOK' /\ DiskOK' /\ CreateOK'
  BY <1>1 DEF MemoryOK, DiskOK, CreateOK, table, ghost, Shift, WritePayload, Rewrite
<1> QED
  BY <1>5, <1>6, <1>7 DEF IInv

\* Opening and closing the file.
LEMMA OpenStep ==
    ASSUME IInv, Open \/ Create \/ FinishCreate \/ Close
    PROVE  IInv'
<1>1. TypeOK /\ OpOK /\ MemoryOK /\ DiskOK /\ CreateOK
  BY DEF IInv
<1>2. CASE Open
  <2>1. /\ lut' = disk_lut /\ sectors' = Cardinality(Occupied(disk_lut)) /\ gapped' = torn
        /\ pc' = "idle"
        /\ UNCHANGED <<misalign, header, disk_lut, data, op, sizes, faults, acked, suspect, torn, stopped>>
    BY <1>2 DEF Open, disk
  <2>2. sectors' \in Nat
    BY <1>1, <2>1, OccupiedFinite DEF TypeOK
  <2>3. TypeOK'
    BY <1>1, <2>1, <2>2 DEF TypeOK
  <2>4. OpOK' /\ CreateOK'
    BY <1>1, <2>1 DEF OpOK, CreateOK
  <2>5. MemoryOK' /\ DiskOK'
    BY <1>1, <2>1 DEF MemoryOK, DiskOK
  <2> QED
    BY <2>3, <2>4, <2>5 DEF IInv
<1>3. CASE Create
  <2>1. /\ header' = "cut" /\ pc' = "create" /\ lut' = [s \in Slots |-> Empty] /\ sectors' = 0
        /\ UNCHANGED <<misalign, disk_lut, data, op, sizes, faults, acked, suspect, torn, gapped, stopped>>
    BY <1>3 DEF Create, ghost
  <2>2. TypeOK'
    BY <1>1, <2>1, EmptyTight DEF TypeOK
  <2>3. OpOK' /\ CreateOK'
    BY <1>1, <2>1 DEF OpOK, CreateOK
  <2>4. MemoryOK' /\ DiskOK'
    BY <1>1, <2>1, EmptyTight DEF MemoryOK, DiskOK
  <2> QED
    BY <2>2, <2>3, <2>4 DEF IInv
<1>4. CASE FinishCreate
  <2>1. /\ pc = "create" /\ header' = "whole" /\ disk_lut' = lut /\ pc' = "idle"
        /\ UNCHANGED <<misalign, data, lut, sectors, op, sizes, faults, acked, suspect, torn, gapped, stopped>>
    BY <1>4 DEF FinishCreate, ghost, table
  <2>2. TypeOK'
    BY <1>1, <2>1 DEF TypeOK
  <2>3. OpOK' /\ CreateOK'
    BY <1>1, <2>1 DEF OpOK, CreateOK
  <2>4. DiskOK'
    <3>1. Tight(lut, 0) /\ lut \in [Slots -> Info]
      BY <1>1, <2>1, EmptyTight DEF CreateOK
    <3>2. Tight(lut, Cardinality(Occupied(lut)))
      BY <3>1, TightOnDisk
    <3> QED
      BY <2>1, <3>2 DEF DiskOK
  <2>5. MemoryOK'
    BY <1>1, <2>1 DEF MemoryOK
  <2> QED
    BY <2>2, <2>3, <2>4, <2>5 DEF IInv
<1>5. CASE Close
  <2>1. /\ pc' = "closed" /\ lut' = [s \in Slots |-> Empty] /\ sectors' = 0 /\ gapped' = FALSE
        /\ UNCHANGED <<misalign, header, disk_lut, data, op, sizes, faults, acked, suspect, torn, stopped>>
    BY <1>5 DEF Close, disk
  <2>2. TypeOK'
    BY <1>1, <2>1, EmptyTight DEF TypeOK
  <2>3. OpOK' /\ CreateOK' /\ MemoryOK' /\ DiskOK'
    BY <1>1, <2>1 DEF OpOK, CreateOK, MemoryOK, DiskOK
  <2> QED
    BY <2>2, <2>3 DEF IInv
<1> QED
  BY <1>2, <1>3, <1>4, <1>5

\* A save begins: the sectors it will free are some of its block's.
LEMMA BeginStep ==
    ASSUME IInv, NEW s \in Slots, NEW size \in Sizes, BeginSave(s, size)
    PROVE  IInv'
<1>1. TypeOK /\ OpOK /\ MemoryOK /\ DiskOK
  BY DEF IInv
<1>2. PICK new : new = SectorsFor(size)
  OBVIOUS
<1>3. PICK n : n = CASE new < lut[s].count -> lut[s].count - new
                     [] new > lut[s].count -> lut[s].count
                     [] OTHER -> 0
  OBVIOUS
<1>4. /\ pc = "idle" /\ Len(sizes) < MaxSaves /\ sizes' = Append(sizes, size)
      /\ op' = [slot |-> s, save |-> Len(sizes) + 1, before |-> lut[s], freed |-> n,
                behind |-> IF n = 0 THEN {} ELSE Behind(lut, s)]
      /\ pc' = CASE n > 0 -> "shift" [] new = lut[s].count -> "rewrite" [] OTHER -> "append"
      /\ UNCHANGED <<misalign, header, disk_lut, data, lut, sectors, faults,
                     acked, suspect, torn, gapped, stopped>>
  BY <1>2, <1>3 DEF BeginSave, disk, table, ghost
<1>5. lut[s] \in Info /\ lut[s].count \in Nat
  BY <1>1 DEF TypeOK, Info
<1>6. new \in Nat
  <2>1. size \in Nat /\ size > 0
    <3>1. size \in Nat \ {0}
      BY Constants
    <3> QED
      BY <3>1
  <2> QED
    BY <1>2, <2>1, Constants DEF SectorsFor
<1>7. /\ n \in Nat /\ n <= lut[s].count
      /\ n = 0 => new = lut[s].count \/ lut[s].count = 0
  <2>1. CASE new < lut[s].count
    BY <1>3, <1>5, <1>6, <2>1
  <2>2. CASE new > lut[s].count
    BY <1>3, <1>5, <1>6, <2>2
  <2>3. CASE new = lut[s].count
    BY <1>3, <1>5, <1>6, <2>3
  <2> QED
    BY <1>5, <1>6, <2>1, <2>2, <2>3
<1>8. /\ pc' \in {"shift", "rewrite", "append"}
      /\ pc' = "shift" => n > 0
      /\ pc' = "append" => lut[s].count = 0
  <2>1. CASE n > 0
    BY <1>4, <2>1
  <2>2. CASE n = 0 /\ new = lut[s].count
    BY <1>4, <2>2
  <2>3. CASE n = 0 /\ new # lut[s].count
    BY <1>4, <1>7, <2>3
  <2> QED
    BY <1>7, <2>1, <2>2, <2>3
<1>9. sizes \in Seq(Sizes) /\ Len(sizes) \in Nat
  BY <1>1, LenProperties DEF TypeOK
<1>10. sizes' \in Seq(Sizes) /\ Len(sizes') = Len(sizes) + 1 /\ Len(sizes') \in Save
  BY <1>4, <1>9, AppendProperties, Constants DEF Save
<1>11. op' \in [slot : Slots, save : Save, before : Info, freed : Nat, behind : SUBSET Slots]
  <2>1. Behind(lut, s) \subseteq Slots
    BY DEF Behind
  <2> QED
    BY <1>4, <1>5, <1>7, <1>10, <2>1
<1>12. TypeOK'
  BY <1>1, <1>4, <1>8, <1>10, <1>11 DEF TypeOK
<1>13. OpOK'
  <2>1. /\ op'.slot = s /\ op'.save = Len(sizes) + 1 /\ op'.before = lut[s] /\ op'.freed = n
    BY <1>4
  <2> QED
    BY <1>4, <1>7, <1>8, <1>9, <1>10, <2>1 DEF OpOK
<1>14. MemoryOK' /\ DiskOK' /\ CreateOK'
  BY <1>1, <1>4, <1>8 DEF MemoryOK, DiskOK, CreateOK
<1> QED
  BY <1>12, <1>13, <1>14 DEF IInv

\* What the table in memory becomes while sectors are freed.
LEMMA ShrunkType ==
    ASSUME NEW l \in [Slots -> Info], NEW s \in Slots, NEW n \in Nat, n <= l[s].count, NEW t \in Slots
    PROVE  /\ Shrunk(l, s, n)[t].index \in Int
           /\ Shrunk(l, s, n)[t].index >= 0 => Shrunk(l, s, n)[t] \in Info
           /\ Shrunk(l, s, n)[s] \in Info
<1>1. /\ l[s].index \in Nat /\ l[s].count \in Nat /\ l[t].index \in Nat /\ l[t].count \in Nat
      /\ l[s].count - n \in Nat /\ l[t].index - n \in Int
  BY DEF Info
<1>2. Shrunk(l, s, n)[s] \in Info
  <2>1. s \notin Behind(l, s)
    BY <1>1 DEF Behind
  <2>2. CASE l[s].count = n
    <3>1. Shrunk(l, s, n)[s] = Empty
      BY <2>1, <2>2 DEF Shrunk
    <3> QED
      BY <3>1 DEF Empty, Info
  <2>3. CASE l[s].count # n
    <3>1. Shrunk(l, s, n)[s] = [l[s] EXCEPT !.count = @ - n]
      BY <2>1, <2>3 DEF Shrunk
    <3>2. l[s] \in [index : Nat, count : Nat]
      BY DEF Info
    <3> QED
      BY <1>1, <3>1, <3>2 DEF Info
  <2> QED
    BY <2>2, <2>3
<1>3. CASE t = s
  BY <1>2, <1>3 DEF Info
<1>4. CASE t # s /\ t \in Behind(l, s)
  <2>1. Shrunk(l, s, n)[t] = [l[t] EXCEPT !.index = @ - n]
    BY <1>4 DEF Shrunk
  <2>2. l[t] \in [index : Nat, count : Nat]
    BY DEF Info
  <2> QED
    BY <1>1, <1>2, <2>1, <2>2 DEF Info
<1>5. CASE t # s /\ t \notin Behind(l, s)
  <2>1. Shrunk(l, s, n)[t] = l[t]
    BY <1>5 DEF Shrunk
  <2> QED
    BY <1>1, <1>2, <2>1
<1> QED
  BY <1>3, <1>4, <1>5

\* The file is cut and the table updated, whole or up to an index that would underflow.
LEMMA TruncateStep ==
    ASSUME IInv, Truncate
    PROVE  IInv'
<1>1. TypeOK /\ OpOK /\ MemoryOK /\ DiskOK /\ pc = "truncate"
  BY DEF IInv, Truncate
<1>2. PICK length : length = Len(data) - op.freed * SectorSize
  OBVIOUS
<1>3. PICK new : new = Shrunk(lut, op.slot, op.freed)
  OBVIOUS
<1>4. PICK end : end = op.before.index + op.before.count
  OBVIOUS
<1>5. /\ data' = SubSeq(data, 1, length)
      /\ header' = IF length < 0 THEN "cut" ELSE header
      /\ disk_lut' = [s \in Slots |-> IF s > SlotCount + length THEN Empty ELSE disk_lut[s]]
      /\ torn' = (torn \/ length < 0)
      /\ UNCHANGED <<misalign, sizes, faults, acked, gapped>>
  BY <1>2 DEF Truncate
<1>6. \/ /\ \A s \in Slots : new[s].index >= 0
         /\ end <= sectors
         /\ lut' = new /\ sectors' = Drained
         /\ pc' = IF new[op.slot].count = 0 THEN "append" ELSE "rewrite"
         /\ UNCHANGED <<op, suspect, stopped>>
      \/ /\ (\E s \in Slots : new[s].index < 0) \/ end > sectors
         /\ lut' = [s \in Slots |-> IF s = op.slot \/ \A t \in 1..s : new[t].index >= 0
                                    THEN new[s] ELSE lut[s]]
         /\ Abort /\ UNCHANGED sectors
  BY <1>3, <1>4 DEF Truncate
<1>7. /\ lut \in [Slots -> Info] /\ op.slot \in Slots /\ op.freed \in Nat /\ op.freed > 0
      /\ lut[op.slot] = op.before /\ op.freed <= lut[op.slot].count /\ sectors \in Nat
      /\ op.before.index \in Nat /\ op.before.count \in Nat /\ data \in Cells
  BY <1>1 DEF TypeOK, OpOK, Info, Cells
<1>8. length \in Int /\ length <= Len(data) /\ Len(data) \in Nat
  BY <1>2, <1>7, Product, Constants, LenProperties DEF Cells
<1>9. data' \in Cells
  <2>1. SubSeq(data, 0 + 1, length) \in Cells
    BY <1>7, <1>8, PartType
  <2> QED
    BY <1>5, <2>1
<1>10. disk_lut' \in [Slots -> Info] /\ header' \in {"none", "cut", "whole"} /\ torn' \in BOOLEAN
  BY <1>1, <1>5, EmptyTight DEF TypeOK, Empty, Info
<1>11. DiskOK'
  <2>1. ASSUME length >= 0
        PROVE  disk_lut' = disk_lut /\ torn' = torn
    <3>1. \A s \in Slots : ~ (s > SlotCount + length)
      BY <1>8, <2>1, Constants DEF Slots
    <3> QED
      BY <1>1, <1>5, <1>8, <2>1, <3>1 DEF TypeOK
  <2>2. CASE length >= 0
    BY <1>1, <2>1, <2>2 DEF DiskOK
  <2>3. CASE length < 0
    <3>1. torn'
      BY <1>5, <2>3
    <3> QED
      BY <3>1 DEF DiskOK
  <2> QED
    BY <1>8, <2>2, <2>3
<1>12. \A s \in Slots : /\ new[s].index \in Int
                        /\ new[s].index >= 0 => new[s] \in Info
                        /\ new[op.slot] \in Info
  BY <1>3, <1>7, ShrunkType
<1>13. ASSUME ~ gapped
       PROVE  /\ new \in [Slots -> Info] /\ end <= sectors
              /\ sectors - op.freed \in Nat /\ Tight(new, sectors - op.freed)
  <2>1. Tight(lut, sectors)
    BY <1>1, <1>13 DEF MemoryOK
  <2>2. /\ new \in [Slots -> Info] /\ End(lut, op.slot) <= sectors
        /\ sectors - op.freed \in Nat /\ Tight(new, sectors - op.freed)
    BY <1>3, <1>7, <2>1, ShrinkTight
  <2> QED
    BY <1>4, <1>7, <2>2 DEF End
<1>14. CASE /\ \A s \in Slots : new[s].index >= 0
            /\ end <= sectors
            /\ lut' = new /\ sectors' = Drained
            /\ pc' = IF new[op.slot].count = 0 THEN "append" ELSE "rewrite"
            /\ UNCHANGED <<op, suspect, stopped>>
  <2>1. sectors' \in Nat /\ sectors' = sectors - op.freed
    BY <1>4, <1>7, <1>14 DEF Drained
  <2>2. lut' \in [Slots -> Info]
    <3>1. new = [s \in Slots |-> new[s]]
      BY <1>3 DEF Shrunk
    <3>2. \A s \in Slots : new[s] \in Info
      BY <1>12, <1>14
    <3> QED
      BY <1>14, <3>1, <3>2
  <2>3. TypeOK'
    BY <1>1, <1>5, <1>9, <1>10, <1>14, <2>1, <2>2 DEF TypeOK, Cells
  <2>4. OpOK'
    <3>1. op.save \in 1..Len(sizes) /\ op.freed <= op.before.count
      BY <1>1 DEF OpOK
    <3> QED
      BY <1>5, <1>14, <3>1 DEF OpOK
  <2>5. MemoryOK' /\ CreateOK'
    BY <1>5, <1>13, <1>14, <2>1 DEF MemoryOK, CreateOK
  <2> QED
    BY <1>11, <2>3, <2>4, <2>5 DEF IInv
<1>15. CASE /\ (\E s \in Slots : new[s].index < 0) \/ end > sectors
            /\ lut' = [s \in Slots |-> IF s = op.slot \/ \A t \in 1..s : new[t].index >= 0
                                       THEN new[s] ELSE lut[s]]
            /\ Abort /\ UNCHANGED sectors
  <2>1. gapped
    <3>1. SUFFICES ASSUME ~ gapped PROVE FALSE
      OBVIOUS
    <3>2. end <= sectors /\ \A s \in Slots : new[s].index \in Nat
      BY <1>13, <3>1 DEF Info
    <3>3. end \in Int
      BY <1>4, <1>7
    <3> QED
      BY <1>7, <1>15, <3>2, <3>3
  <2>2. lut' \in [Slots -> Info]
    <3>1. ASSUME NEW s \in Slots
          PROVE  (IF s = op.slot \/ \A t \in 1..s : new[t].index >= 0 THEN new[s] ELSE lut[s]) \in Info
      <4>1. CASE s = op.slot
        BY <1>12, <4>1
      <4>2. CASE s # op.slot /\ \A t \in 1..s : new[t].index >= 0
        <5>1. s \in 1..s
          BY DEF Slots
        <5> QED
          BY <1>12, <4>2, <5>1
      <4>3. CASE s # op.slot /\ ~ \A t \in 1..s : new[t].index >= 0
        BY <1>7, <4>3
      <4> QED
        BY <4>1, <4>2, <4>3
    <3> QED
      BY <1>15, <3>1
  <2>3. /\ pc' = "idle" /\ op' = NoOp /\ suspect' \subseteq Slots /\ stopped' \in 0..(MaxSaves + 1)
    <3>1. /\ pc' = "idle" /\ op' = NoOp /\ suspect' = Doubt /\ stopped' = StoppedAt(op.freed > 0)
      BY <1>15 DEF Abort
    <3>2. (op.freed > 0) \in BOOLEAN
      OBVIOUS
    <3> QED
      BY <1>1, <3>1, <3>2, GhostType
  <2>4. TypeOK'
    BY <1>1, <1>5, <1>9, <1>10, <1>15, <2>2, <2>3, NoOpType DEF TypeOK, Cells
  <2>5. OpOK'
    BY <2>3, NoOpType DEF OpOK
  <2>6. MemoryOK' /\ CreateOK'
    BY <1>5, <2>1, <2>3 DEF MemoryOK, CreateOK
  <2> QED
    BY <1>11, <2>4, <2>5, <2>6 DEF IInv
<1> QED
  BY <1>6, <1>14, <1>15

\* The last sector is filled up and the block gets its entry, or the save is refused.
LEMMA PadStep ==
    ASSUME IInv, Pad
    PROVE  IInv'
<1>1. TypeOK /\ OpOK /\ MemoryOK /\ DiskOK /\ pc = "pad"
  BY DEF IInv, Pad
<1>2. PICK n : n = SectorsFor(sizes[op.save])
  OBVIOUS
<1>3. /\ data' = Written(sectors * SectorSize + sizes[op.save], PadCells)
      /\ \/ /\ lut' = [lut EXCEPT ![op.slot] = [index |-> sectors, count |-> n]]
            /\ sectors' = sectors + n
            /\ pc' = "header"
            /\ UNCHANGED <<op, suspect, stopped>>
         \/ Abort /\ UNCHANGED <<lut, sectors>>
      /\ UNCHANGED <<misalign, header, disk_lut, sizes, faults, acked, torn, gapped>>
  BY <1>2 DEF Pad, table
<1>4. /\ lut \in [Slots -> Info] /\ op.slot \in Slots /\ lut[op.slot].count = 0 /\ sectors \in Nat
      /\ op.save \in 1..Len(sizes) /\ op.freed <= op.before.count
  BY <1>1 DEF TypeOK, OpOK
<1>5. n \in Nat /\ sizes[op.save] \in Nat
  BY <1>1, <1>2, <1>4, PayloadType
<1>6. data' \in Cells
  <2>1. PadCells \in Cells
    BY <1>1, <1>4, PadCellsType
  <2>2. sectors * SectorSize + sizes[op.save] \in Nat
    BY <1>4, <1>5, Product, Constants
  <2>3. data \in Cells
    BY <1>1 DEF TypeOK, Cells
  <2> QED
    BY <1>3, <2>1, <2>2, <2>3, WrittenType
<1>7. DiskOK'
  BY <1>1, <1>3 DEF DiskOK
<1>8. CASE /\ lut' = [lut EXCEPT ![op.slot] = [index |-> sectors, count |-> n]]
           /\ sectors' = sectors + n
           /\ pc' = "header"
           /\ UNCHANGED <<op, suspect, stopped>>
  <2>1. lut' \in [Slots -> Info] /\ sectors' \in Nat
    BY <1>4, <1>5, <1>8 DEF Info
  <2>2. TypeOK'
    BY <1>1, <1>3, <1>6, <1>8, <2>1 DEF TypeOK, Cells
  <2>3. OpOK'
    BY <1>3, <1>4, <1>8 DEF OpOK
  <2>4. MemoryOK'
    <3>1. ASSUME ~ gapped
          PROVE  Tight(lut', sectors')
      <4>1. Tight(lut, sectors)
        BY <1>1, <3>1 DEF MemoryOK
      <4> QED
        BY <1>4, <1>5, <1>8, <4>1, AppendTight
    <3> QED
      BY <1>3, <3>1 DEF MemoryOK
  <2>5. CreateOK'
    BY <1>8 DEF CreateOK
  <2> QED
    BY <1>7, <2>2, <2>3, <2>4, <2>5 DEF IInv
<1>9. CASE Abort /\ UNCHANGED <<lut, sectors>>
  <2>1. /\ pc' = "idle" /\ op' = NoOp /\ suspect' \subseteq Slots /\ stopped' \in 0..(MaxSaves + 1)
    <3>1. /\ pc' = "idle" /\ op' = NoOp /\ suspect' = Doubt /\ stopped' = StoppedAt(op.freed > 0)
      BY <1>9 DEF Abort
    <3>2. (op.freed > 0) \in BOOLEAN
      OBVIOUS
    <3> QED
      BY <1>1, <3>1, <3>2, GhostType
  <2>2. TypeOK'
    BY <1>1, <1>3, <1>6, <1>9, <2>1, NoOpType DEF TypeOK, Cells
  <2>3. OpOK'
    BY <2>1, NoOpType DEF OpOK
  <2>4. MemoryOK' /\ CreateOK'
    BY <1>1, <1>3, <1>9, <2>1 DEF MemoryOK, CreateOK
  <2> QED
    BY <1>7, <2>2, <2>3, <2>4 DEF IInv
<1> QED
  BY <1>3, <1>8, <1>9

\* The header is written: what is on disk is what is in memory.
LEMMA HeaderStep ==
    ASSUME IInv, SaveHeader
    PROVE  IInv'
<1>1. TypeOK /\ OpOK /\ MemoryOK /\ DiskOK /\ pc = "header"
  BY DEF IInv, SaveHeader
<1>2. /\ disk_lut' = lut /\ header' = "whole" /\ torn' = gapped /\ pc' = "idle" /\ op' = NoOp
      /\ acked' = [acked EXCEPT ![op.slot] = op.save]
      /\ suspect' = IF gapped THEN suspect ELSE suspect \ {op.slot}
      /\ UNCHANGED <<misalign, data, lut, sectors, sizes, faults, gapped, stopped>>
  BY DEF SaveHeader, table
<1>3. TypeOK'
  BY <1>1, <1>2, NoOpType DEF TypeOK
<1>4. OpOK' /\ CreateOK'
  BY <1>2, NoOpType DEF OpOK, CreateOK
<1>5. MemoryOK'
  BY <1>1, <1>2 DEF MemoryOK
<1>6. DiskOK'
  <2>1. ASSUME ~ gapped
        PROVE  Tight(lut, Cardinality(Occupied(lut)))
    BY <1>1, <2>1, TightOnDisk DEF MemoryOK, TypeOK
  <2> QED
    BY <1>2, <2>1 DEF DiskOK
<1> QED
  BY <1>3, <1>4, <1>5, <1>6 DEF IInv

\* Calls that fail, and crashes in them.
LEMMA FaultStep ==
    ASSUME IInv, Fault
    PROVE  IInv'
<1>1. TypeOK /\ OpOK /\ MemoryOK /\ DiskOK
  BY DEF IInv
<1>2. data \in Cells /\ op.freed <= op.before.count
  BY <1>1 DEF TypeOK, OpOK, Cells
<1>3. ASSUME NEW step \in {"shift", "append", "pad", "rewrite"}, NEW p \in Nat, NEW c \in Cells,
             PartialWrite(step, p, c)
      PROVE  IInv'
  <2>1. PICK part \in Parts(c) : /\ data' = Written(p, part)
                                 /\ header' = IF part = <<>> THEN header ELSE "whole"
    BY <1>3 DEF PartialWrite
  <2>2. data' \in Cells
    BY <1>2, <2>1, PartsType, WrittenType
  <2>3. Interrupted /\ pc # "closed" /\ UNCHANGED <<disk_lut, torn>>
    BY <1>3 DEF PartialWrite
  <2>4. /\ header' \in {"none", "cut", "whole"} /\ disk_lut' \in [Slots -> Info] /\ torn' \in BOOLEAN
        /\ DiskOK'
    BY <1>1, <2>1, <2>3 DEF TypeOK, DiskOK
  <2> QED
    BY <2>2, <2>3, <2>4, InterruptedStep
<1>4. ASSUME pc \in {"append", "pad", "rewrite"}
      PROVE  op.save \in 1..Len(sizes)
  BY <1>1, <1>4 DEF OpOK
<1>5. CASE PartialWrite("shift", ShiftTo, Rest)
  BY <1>1, <1>2, <1>3, <1>5, WriteTypes
<1>6. CASE PartialWrite("append", sectors * SectorSize, Payload(op.save))
  <2>1. op.save \in 1..Len(sizes)
    BY <1>4, <1>6 DEF PartialWrite
  <2> QED
    BY <1>1, <1>2, <1>3, <1>6, <2>1, WriteTypes
<1>7. CASE PartialWrite("pad", sectors * SectorSize + sizes[op.save], PadCells)
  <2>1. op.save \in 1..Len(sizes)
    BY <1>4, <1>7 DEF PartialWrite
  <2>2. sectors * SectorSize + sizes[op.save] \in Nat /\ PadCells \in Cells
    BY <1>1, <1>2, <2>1, WriteTypes, PayloadType, PadCellsType
  <2> QED
    BY <1>3, <1>7, <2>2
<1>8. CASE PartialWrite("rewrite", RewriteOffset, Payload(op.save))
  <2>1. op.save \in 1..Len(sizes)
    BY <1>4, <1>8 DEF PartialWrite
  <2> QED
    BY <1>1, <1>2, <1>3, <1>8, <2>1, WriteTypes
<1>9. CASE NoWrite
  <2>1. Interrupted /\ pc # "closed" /\ UNCHANGED <<header, disk_lut, data, torn>>
    BY <1>9 DEF NoWrite, disk
  <2>2. /\ data' \in Cells /\ header' \in {"none", "cut", "whole"} /\ disk_lut' \in [Slots -> Info]
        /\ torn' \in BOOLEAN /\ DiskOK'
    BY <1>1, <1>2, <2>1 DEF TypeOK, DiskOK
  <2> QED
    BY <2>1, <2>2, InterruptedStep
<1>10. CASE PartialHeader
  <2>1. PICK n \in 1..(SlotCount + 1) :
          /\ disk_lut' = [s \in Slots |-> IF s < n THEN lut[s] ELSE disk_lut[s]]
          /\ torn' = CASE disk_lut' = lut -> gapped
                       [] disk_lut' # lut /\ disk_lut' = disk_lut -> torn
                       [] OTHER -> TRUE
    BY <1>10 DEF PartialHeader
  <2>2. Interrupted /\ pc = "header" /\ header' = header /\ data' = data
    BY <1>10 DEF PartialHeader
  <2>3. disk_lut' \in [Slots -> Info]
    BY <1>1, <2>1 DEF TypeOK
  <2>4. torn' \in BOOLEAN /\ DiskOK'
    <3>1. CASE disk_lut' = lut
      <4>1. torn' = gapped
        BY <2>1, <3>1
      <4>2. ASSUME ~ gapped
            PROVE  Tight(lut, Cardinality(Occupied(lut)))
        BY <1>1, <2>2, <4>2, TightOnDisk DEF MemoryOK, TypeOK
      <4> QED
        BY <1>1, <3>1, <4>1, <4>2 DEF DiskOK, TypeOK
    <3>2. CASE disk_lut' # lut /\ disk_lut' = disk_lut
      <4>1. torn' = torn
        BY <2>1, <3>2
      <4> QED
        BY <1>1, <3>2, <4>1 DEF DiskOK, TypeOK
    <3>3. CASE disk_lut' # lut /\ disk_lut' # disk_lut
      <4>1. torn' = TRUE
        BY <2>1, <3>3
      <4> QED
        BY <4>1 DEF DiskOK
    <3> QED
      BY <3>1, <3>2, <3>3
  <2>5. data' \in Cells /\ header' \in {"none", "cut", "whole"} /\ pc # "closed"
    BY <1>1, <1>2, <2>2 DEF TypeOK
  <2> QED
    BY <2>2, <2>3, <2>4, <2>5, InterruptedStep
<1> QED
  BY <1>5, <1>6, <1>7, <1>8, <1>9, <1>10 DEF Fault

\* The tables and the save under way fit in every reachable state.
THEOREM FileInvariant == Spec => []IInv
<1>1. Init => IInv
  <2> SUFFICES ASSUME Init PROVE IInv
    OBVIOUS
  <2>1. TypeOK
    <3>1. <<>> \in Seq(Save \X Nat) /\ <<>> \in Seq(Sizes) /\ Len(<<>>) = 0
      BY EmptySeq
    <3>2. 0 \in Save /\ 0 \in 0..MaxFaults /\ 0 \in 0..(MaxSaves + 1)
      BY Constants DEF Save
    <3> QED
      BY <3>1, <3>2, EmptyTight, NoOpType DEF Init, TypeOK
  <2>2. OpOK
    BY NoOpType DEF Init, OpOK
  <2>3. MemoryOK /\ CreateOK
    BY DEF Init, MemoryOK, CreateOK
  <2>4. DiskOK
    BY EmptyTight, TightOnDisk DEF Init, DiskOK
  <2> QED
    BY <2>1, <2>2, <2>3, <2>4 DEF IInv
<1>2. IInv /\ [Next]_vars => IInv'
  <2> SUFFICES ASSUME IInv, [Next]_vars PROVE IInv'
    OBVIOUS
  <2>1. CASE UNCHANGED vars
    BY <2>1 DEF IInv, TypeOK, OpOK, MemoryOK, DiskOK, CreateOK, vars, disk, table, ghost
  <2>2. CASE Refuse
    BY <2>1, <2>2 DEF Refuse
  <2>3. ASSUME NEW s \in Slots, NEW size \in Sizes, BeginSave(s, size)
        PROVE  IInv'
    BY <2>3, BeginStep
  <2> QED
    BY <2>1, <2>2, <2>3, OpenStep, DataStep, TruncateStep, PadStep, HeaderStep, FaultStep DEF Next
<1> QED
  BY <1>1, <1>2, PTL DEF Spec

\* The handle, the file and the save under way keep their types.
THEOREM FileTypes == Spec => []TypeOK
<1> QED
  BY FileInvariant, PTL DEF IInv

\* Each sector belongs to one block: the table in memory never gives a sector to
\* two blocks or to none, nor does the one on disk, whatever fails or dies,
\* unless a header write stopped between two entries.
THEOREM TablesAreTight == Spec => []TablesTight
<1>1. IInv => TablesTight
  BY DEF IInv, MemoryOK, DiskOK, TablesTight
<1> QED
  BY <1>1, FileInvariant, PTL

-----------------------------------------------------------------------------
(* The length of the file, and its opening again *)

\* Data of this length reach to the end of n sectors but for the slack, which
\* padding leaves since it counts from the start of the file.
Reaches(len, n, slack) == n = 0 \/ n * SectorSize - slack <= len

\* Nothing is under way in a file that is closed or between two saves.
IdleOK == pc \in {"closed", "create", "idle"} => op = NoOp

\* No moving save was stopped yet: a header is cut only in the steps of one
\* that creates the file or has just removed its last sectors.
HeaderOK ==
    stopped = 0 /\ header = "cut" =>
        pc = "create" \/ (pc \in {"append", "pad", "rewrite", "header"} /\ op.freed > 0)

\* ... and the file reaches to the end of the sectors of the tables.
LengthOK ==
    /\ stopped = 0 /\ pc # "closed" /\ ~gapped => Reaches(Len(data), sectors, misalign)
    /\ pc = "pad" => sectors * SectorSize + sizes[op.save] <= Len(data)
    /\ stopped = 0 /\ ~torn /\ op.freed = 0 => Reaches(Len(data), Cardinality(Occupied(disk_lut)), misalign)

OInv == IdleOK /\ HeaderOK /\ LengthOK

\* A longer file reaches as far.
LEMMA ReachesMore ==
    ASSUME NEW m \in Nat, NEW k \in Nat, m <= k, NEW n \in Nat, NEW slack \in Nat, Reaches(m, n, slack)
    PROVE  Reaches(k, n, slack)
<1>1. PICK w \in Nat : w = n * SectorSize
  BY Constants, Product
<1> QED
  BY <1>1 DEF Reaches

\* Of a file that reaches to the end of its sectors, what is left when some are
\* cut off does so too.
LEMMA ReachesLess ==
    ASSUME NEW m \in Nat, NEW n \in Nat, NEW d \in Nat, d <= n, NEW slack \in 0..(SectorSize - 1),
           Reaches(m, n, slack)
    PROVE  \/ n - d = 0
           \/ m - d * SectorSize \in Nat /\ Reaches(m - d * SectorSize, n - d, slack)
<1>1. SUFFICES ASSUME n - d # 0
               PROVE  m - d * SectorSize \in Nat /\ Reaches(m - d * SectorSize, n - d, slack)
  OBVIOUS
<1>2. PICK e \in Nat : e = (n - d) - 1
  BY <1>1
<1>3. SectorSize \in Nat /\ slack \in Nat /\ slack < SectorSize
  BY Constants
<1>4. PICK x, y \in Nat : x = e * SectorSize /\ y = d * SectorSize
  BY <1>2, <1>3, Product
<1>5. n * SectorSize = x + SectorSize + y
  <2>1. n = e + 1 + d
    BY <1>2
  <2>2. (e + 1 + d) * SectorSize = e * SectorSize + SectorSize + d * SectorSize
    BY <1>2, <1>3
  <2> QED
    BY <1>4, <2>1, <2>2
<1>6. (n - d) * SectorSize = x + SectorSize
  <2>1. n - d = e + 1
    BY <1>2
  <2>2. (e + 1) * SectorSize = e * SectorSize + SectorSize
    BY <1>2, <1>3
  <2> QED
    BY <1>4, <2>1, <2>2
<1>7. (x + SectorSize + y) - slack <= m
  <2>1. n # 0
    BY <1>1
  <2>2. n * SectorSize - slack <= m
    BY <2>1 DEF Reaches
  <2> QED
    BY <1>5, <2>2
<1>8. m - y \in Nat /\ (x + SectorSize) - slack <= m - y
  BY <1>3, <1>4, <1>7
<1>9. (n - d) * SectorSize - slack <= m - y
  BY <1>6, <1>8
<1> QED
  BY <1>4, <1>8, <1>9 DEF Reaches

\* The sectors for a payload are as many as it needs and no more.
LEMMA SectorsHold ==
    ASSUME NEW size \in Nat, size > 0
    PROVE  /\ SectorsFor(size) \in Nat /\ SectorsFor(size) > 0
           /\ SectorsFor(size) * SectorSize \in Nat
           /\ size <= SectorsFor(size) * SectorSize
           /\ SectorsFor(size) * SectorSize < size + SectorSize
<1>1. SectorSize \in Nat /\ SectorSize > 0
  BY Constants
<1>2. PICK a \in Nat : a = size + SectorSize - 1
  BY <1>1
<1>3. PICK q \in Nat : q = a \div SectorSize
  BY <1>1
<1>4. q = SectorsFor(size)
  BY <1>2, <1>3 DEF SectorsFor
<1>5. PICK w \in Nat : w = q * SectorSize
  BY <1>1, Product
<1>6. a = SectorSize * (a \div SectorSize) + (a % SectorSize) /\ a % SectorSize \in Nat /\ a % SectorSize < SectorSize
  BY <1>1
<1>7. SectorSize * (a \div SectorSize) = w
  BY <1>1, <1>3, <1>5
<1>8. w <= a /\ a < w + SectorSize
  BY <1>1, <1>5, <1>6, <1>7
<1>9. size <= w /\ w < size + SectorSize
  BY <1>1, <1>2, <1>5, <1>8
<1>10. q > 0
  <2>1. q = 0 => w = 0
    BY <1>1, <1>5
  <2> QED
    BY <1>9, <2>1
<1> QED
  BY <1>4, <1>5, <1>9, <1>10

\* Padding ends where a sector of the file ends.
LEMMA PadLength ==
    ASSUME TypeOK, op.save \in 1..Len(sizes)
    PROVE  \E n, k \in Nat : /\ Len(PadCells) = n
                            /\ misalign + sectors * SectorSize + sizes[op.save] + n = k * SectorSize
<1>1. /\ sizes[op.save] \in Nat /\ SectorSize \in Nat /\ SectorSize > 0
      /\ misalign \in Nat /\ sectors * SectorSize \in Nat
  <2>1. misalign \in Nat /\ SectorSize \in Nat /\ SectorSize > 0
    BY RegionAssumption DEF TypeOK
  <2> QED
    BY <2>1, PayloadType, Product DEF TypeOK
<1>2. PICK x \in Nat : x = misalign + sectors * SectorSize + sizes[op.save]
  BY <1>1
<1>3. PICK q \in Nat : q = x \div SectorSize
  BY <1>1
<1>4. PICK r \in Nat : r = x % SectorSize
  BY <1>1
<1>5. r < SectorSize /\ x = q * SectorSize + r
  <2>1. x = SectorSize * (x \div SectorSize) + (x % SectorSize) /\ x % SectorSize < SectorSize
    BY <1>1
  <2>2. SectorSize * (x \div SectorSize) = q * SectorSize
    BY <1>1, <1>3
  <2> QED
    BY <1>4, <2>1, <2>2
<1>6. PICK n \in Nat : n = IF r = 0 THEN 0 ELSE SectorSize - r
  <2>1. SectorSize - r \in Nat
    BY <1>1, <1>5
  <2> QED
    BY <2>1
<1>7. PadCells = [i \in 1..n |-> Zero]
  BY <1>2, <1>4, <1>6 DEF PadCells
<1>8. Len(PadCells) = n
  BY <1>7
<1>9. PICK k \in Nat : x + n = k * SectorSize
  <2>1. CASE r = 0
    <3>1. x + n = q * SectorSize
      BY <1>1, <1>5, <1>6, <2>1, Product
    <3> QED
      BY <3>1
  <2>2. CASE r # 0
    <3>1. (q + 1) * SectorSize = q * SectorSize + SectorSize /\ q * SectorSize \in Nat
      BY <1>1, Product
    <3>2. x + n = (q + 1) * SectorSize
      BY <1>1, <1>5, <1>6, <2>2, <3>1
    <3> QED
      BY <3>2
  <2> QED
    BY <2>1, <2>2
<1> QED
  BY <1>2, <1>8, <1>9

\* A block added behind the last sector and padded reaches to the end of its own.
LEMMA ReachesPadded ==
    ASSUME NEW n \in Nat, NEW size \in Nat, size > 0, NEW slack \in Nat, NEW p \in Nat, NEW k \in Nat,
           slack + n * SectorSize + size + p = k * SectorSize,
           NEW m \in Nat, n * SectorSize + size + p <= m
    PROVE  Reaches(m, n + SectorsFor(size), slack)
<1>1. SectorSize \in Nat /\ SectorSize > 0
  BY Constants
<1>2. PICK q \in Nat : q = SectorsFor(size)
  BY SectorsHold
<1>3. q > 0 /\ q * SectorSize \in Nat /\ q * SectorSize < size + SectorSize
  BY <1>2, SectorsHold
<1>4. PICK w \in Nat : w = n * SectorSize
  BY <1>1, Product
<1>5. (n + q) * SectorSize = w + q * SectorSize
  BY <1>1, <1>2, <1>4
<1>6. n + q <= k
  <2>1. SUFFICES ASSUME k < n + q PROVE FALSE
    OBVIOUS
  <2>2. PICK e \in Nat : n + q = k + 1 + e
    <3>1. (n + q) - (k + 1) \in Nat /\ n + q = k + 1 + ((n + q) - (k + 1))
      BY <2>1
    <3> QED
      BY <3>1
  <2>3. (n + q) * SectorSize = k * SectorSize + SectorSize + e * SectorSize
    <3>1. (k + 1 + e) * SectorSize = k * SectorSize + SectorSize + e * SectorSize
      BY <1>1
    <3> QED
      BY <2>2, <3>1
  <2>4. e * SectorSize \in Nat /\ k * SectorSize \in Nat
    BY <1>1, Product
  <2> QED
    BY <1>1, <1>3, <1>4, <1>5, <2>3, <2>4
<1>7. (n + q) * SectorSize <= k * SectorSize
  <2>1. PICK e \in Nat : k = n + q + e
    <3>1. k - (n + q) \in Nat /\ k = n + q + (k - (n + q))
      BY <1>6
    <3> QED
      BY <3>1
  <2>2. (n + q + e) * SectorSize = (n + q) * SectorSize + e * SectorSize
    BY <1>1
  <2>3. e * SectorSize \in Nat /\ (n + q) * SectorSize \in Nat
    BY <1>1, Product
  <2> QED
    BY <2>1, <2>2, <2>3
<1>8. (n + q) * SectorSize \in Nat /\ k * SectorSize \in Nat
  BY <1>1, Product
<1>9. (n + q) * SectorSize - slack <= m
  BY <1>4, <1>7, <1>8
<1> QED
  BY <1>2, <1>9 DEF Reaches

\* Such a file has the capacity that the opening asks for.
LEMMA ReachesCapacity ==
    ASSUME NEW n \in Nat, data \in Cells, NEW slack \in 0..(SectorSize - 1), Reaches(Len(data), n, slack)
    PROVE  SectorCapacity \in Nat /\ n <= SectorCapacity
<1>1. SectorSize \in Nat /\ SectorSize > 0 /\ slack \in Nat /\ slack < SectorSize
  BY Constants
<1>2. PICK len \in Nat : len = Len(data)
  BY LenProperties DEF Cells
<1>3. PICK a \in Nat : a = len + SectorSize - 1
  BY <1>1
<1>4. PICK q \in Nat : q = a \div SectorSize
  BY <1>1
<1>5. q = SectorCapacity
  BY <1>2, <1>3, <1>4 DEF SectorCapacity
<1>6. a < q * SectorSize + SectorSize
  <2>1. a = SectorSize * (a \div SectorSize) + (a % SectorSize) /\ a % SectorSize < SectorSize /\ a % SectorSize \in Nat
    BY <1>1
  <2>2. SectorSize * (a \div SectorSize) = q * SectorSize /\ q * SectorSize \in Nat
    BY <1>1, <1>4, Product
  <2> QED
    BY <1>1, <2>1, <2>2
<1>7. SUFFICES ASSUME q < n PROVE FALSE
  BY <1>5
<1>8. PICK e \in Nat : n = q + 1 + e
  <2>1. n - (q + 1) \in Nat /\ n = q + 1 + (n - (q + 1))
    BY <1>7
  <2> QED
    BY <2>1
<1>9. n * SectorSize = q * SectorSize + SectorSize + e * SectorSize
  <2>1. (q + 1 + e) * SectorSize = q * SectorSize + SectorSize + e * SectorSize
    BY <1>1
  <2> QED
    BY <1>8, <2>1
<1>10. q * SectorSize \in Nat /\ e * SectorSize \in Nat
  BY <1>1, Product
<1>11. n * SectorSize - slack <= len
  BY <1>2, <1>7 DEF Reaches
<1> QED
  BY <1>1, <1>3, <1>6, <1>9, <1>10, <1>11

\* The slack is less than a sector.
LEMMA Slack ==
    ASSUME TypeOK
    PROVE  misalign \in Nat /\ misalign \in 0..(SectorSize - 1)
BY RegionAssumption DEF TypeOK

\* A payload has a cell at least, its length prefix.
LEMMA PayloadPositive ==
    ASSUME TypeOK, NEW v \in 1..Len(sizes)
    PROVE  sizes[v] > 0
<1>1. sizes[v] \in Nat \ {0}
  BY ElementOfSeq, Constants DEF TypeOK
<1> QED
  BY <1>1

\* A write never shortens the file, and reaches as far as its cells.
LEMMA WrittenGrows ==
    ASSUME data \in Cells, NEW p \in Nat, NEW c \in Cells
    PROVE  /\ Len(data) \in Nat /\ Len(Written(p, c)) \in Nat /\ Len(data) <= Len(Written(p, c))
           /\ c # <<>> => p + Len(c) <= Len(Written(p, c))
<1>1. Len(data) \in Nat /\ Len(c) \in Nat
  BY LenProperties DEF Cells
<1>2. CASE c = <<>>
  BY <1>1, <1>2 DEF Written
<1>3. CASE c # <<>>
  <2>1. PICK n \in Nat : n = IF p + Len(c) > Len(data) THEN p + Len(c) ELSE Len(data)
    BY <1>1
  <2>2. DOMAIN Written(p, c) = 1..n
    BY <1>3, <2>1 DEF Written
  <2>3. Written(p, c) \in Cells
    BY WrittenType
  <2>4. Len(Written(p, c)) \in Nat /\ DOMAIN Written(p, c) = 1..Len(Written(p, c))
    BY <2>3, LenProperties DEF Cells
  <2>5. Len(Written(p, c)) = n
    BY <2>1, <2>2, <2>4
  <2> QED
    BY <1>1, <2>1, <2>5
<1> QED
  BY <1>2, <1>3

\* No save was stopped by a call that fails while it moves sectors, or none at all.
LEMMA NotStopped ==
    ASSUME TypeOK, NEW moving \in BOOLEAN, StoppedAt(moving) = 0
    PROVE  stopped = 0 /\ ~ moving
<1>1. Len(sizes) + 1 # 0
  BY Constants DEF TypeOK, Save
<1> QED
  BY <1>1 DEF StoppedAt

\* A failed call or a crash in a file that is no shorter for it, whose table on
\* disk is the one it had or the one in memory.
LEMMA InterruptedOpens ==
    ASSUME IInv, OInv, Interrupted, pc # "closed", Len(data') \in Nat,
           Len(data) \in Nat, Len(data) <= Len(data'), header' \in {header, "whole"},
           ~torn' => \/ disk_lut' = disk_lut /\ ~torn
                     \/ disk_lut' = lut /\ ~gapped
    PROVE  OInv'
<1>1. TypeOK /\ MemoryOK /\ IdleOK /\ HeaderOK /\ LengthOK
  BY DEF IInv, OInv
<1>2. /\ op' = NoOp /\ stopped' = StoppedAt(op.freed > 0 \/ pc = "create") /\ misalign' = misalign
      /\ pc' \in {"closed", "idle"} /\ (pc' # "closed" => UNCHANGED <<lut, sectors, gapped>>)
  BY DEF Interrupted, table
<1>3. IdleOK'
  BY <1>2 DEF IdleOK
<1>4. ASSUME stopped' = 0
      PROVE  stopped = 0 /\ op.freed = 0 /\ pc # "create" /\ header # "cut"
  <2>1. (op.freed > 0 \/ pc = "create") \in BOOLEAN
    OBVIOUS
  <2>2. stopped = 0 /\ ~ (op.freed > 0 \/ pc = "create")
    BY <1>1, <1>2, <1>4, <2>1, NotStopped
  <2>3. op.freed \in Nat
    BY <1>1 DEF TypeOK
  <2> QED
    BY <1>1, <2>2, <2>3 DEF HeaderOK
<1>5. HeaderOK'
  BY <1>4 DEF HeaderOK
<1>6. ASSUME stopped' = 0, pc' # "closed", ~gapped'
      PROVE  Reaches(Len(data'), sectors', misalign)
  <2>1. ~gapped /\ sectors' = sectors /\ sectors \in Nat
    BY <1>1, <1>2, <1>6 DEF TypeOK
  <2>2. Reaches(Len(data), sectors, misalign)
    BY <1>1, <1>4, <1>6, <2>1 DEF LengthOK
  <2> QED
    BY <1>1, <2>1, <2>2, ReachesMore, Slack
<1>7. ASSUME stopped' = 0, ~torn'
      PROVE  Reaches(Len(data'), Cardinality(Occupied(disk_lut')), misalign)
  <2>1. CASE disk_lut' = disk_lut /\ ~torn
    <3>1. Reaches(Len(data), Cardinality(Occupied(disk_lut)), misalign)
      BY <1>1, <1>4, <1>7, <2>1 DEF LengthOK
    <3>2. Cardinality(Occupied(disk_lut)) \in Nat
      BY <1>1, OccupiedFinite DEF TypeOK
    <3> QED
      BY <1>1, <2>1, <3>1, <3>2, ReachesMore, Slack
  <2>2. CASE disk_lut' = lut /\ ~gapped
    <3>1. Reaches(Len(data), sectors, misalign) /\ Tight(lut, sectors)
      BY <1>1, <1>4, <1>7, <2>2 DEF LengthOK, MemoryOK
    <3>2. Cardinality(Occupied(lut)) = sectors /\ sectors \in Nat
      BY <1>1, <3>1, TightSize DEF TypeOK
    <3> QED
      BY <1>1, <2>2, <3>1, <3>2, ReachesMore, Slack
  <2> QED
    BY <1>7, <2>1, <2>2
<1>8. LengthOK'
  BY <1>2, <1>6, <1>7 DEF LengthOK
<1> QED
  BY <1>3, <1>5, <1>8 DEF OInv

\* A call that fails or is cut off.
LEMMA FaultOpens ==
    ASSUME IInv, OInv, Fault
    PROVE  OInv'
<1>1. TypeOK /\ OpOK
  BY DEF IInv
<1>2. data \in Cells /\ op.freed <= op.before.count /\ Len(data) \in Nat
  <2>1. data \in Cells
    BY <1>1 DEF TypeOK, Cells
  <2> QED
    BY <1>1, <2>1, LenProperties DEF OpOK, Cells
<1>3. ASSUME NEW step \in {"shift", "append", "pad", "rewrite"}, NEW p \in Nat, NEW c \in Cells,
             PartialWrite(step, p, c)
      PROVE  OInv'
  <2>1. PICK part \in Parts(c) : /\ data' = Written(p, part)
                                 /\ header' = IF part = <<>> THEN header ELSE "whole"
    BY <1>3 DEF PartialWrite
  <2>2. Len(data') \in Nat /\ Len(data) <= Len(data')
    BY <1>2, <2>1, PartsType, WrittenGrows
  <2>3. Interrupted /\ pc # "closed" /\ UNCHANGED <<disk_lut, torn>>
    BY <1>3 DEF PartialWrite
  <2>4. header' \in {header, "whole"}
    BY <2>1
  <2> QED
    BY <1>2, <2>2, <2>3, <2>4, InterruptedOpens
<1>4. ASSUME pc \in {"append", "pad", "rewrite"}
      PROVE  op.save \in 1..Len(sizes)
  BY <1>1, <1>4 DEF OpOK
<1>5. CASE PartialWrite("shift", ShiftTo, Rest)
  BY <1>1, <1>2, <1>3, <1>5, WriteTypes
<1>6. CASE PartialWrite("append", sectors * SectorSize, Payload(op.save))
  <2>1. op.save \in 1..Len(sizes)
    BY <1>4, <1>6 DEF PartialWrite
  <2> QED
    BY <1>1, <1>2, <1>3, <1>6, <2>1, WriteTypes
<1>7. CASE PartialWrite("pad", sectors * SectorSize + sizes[op.save], PadCells)
  <2>1. op.save \in 1..Len(sizes)
    BY <1>4, <1>7 DEF PartialWrite
  <2>2. sectors * SectorSize + sizes[op.save] \in Nat /\ PadCells \in Cells
    BY <1>1, <1>2, <2>1, WriteTypes, PayloadType, PadCellsType
  <2> QED
    BY <1>3, <1>7, <2>2
<1>8. CASE PartialWrite("rewrite", RewriteOffset, Payload(op.save))
  <2>1. op.save \in 1..Len(sizes)
    BY <1>4, <1>8 DEF PartialWrite
  <2> QED
    BY <1>1, <1>2, <1>3, <1>8, <2>1, WriteTypes
<1>9. CASE NoWrite
  <2>1. Interrupted /\ pc # "closed" /\ UNCHANGED <<header, disk_lut, data, torn>>
    BY <1>9 DEF NoWrite, disk
  <2> QED
    BY <1>2, <2>1, InterruptedOpens
<1>10. CASE PartialHeader
  <2>1. torn' = CASE disk_lut' = lut -> gapped
                  [] disk_lut' # lut /\ disk_lut' = disk_lut -> torn
                  [] OTHER -> TRUE
    BY <1>10 DEF PartialHeader
  <2>2. Interrupted /\ pc = "header" /\ header' = header /\ data' = data
    BY <1>10 DEF PartialHeader
  <2>3. ASSUME ~torn'
        PROVE  \/ disk_lut' = disk_lut /\ ~torn
               \/ disk_lut' = lut /\ ~gapped
    <3>1. CASE disk_lut' = lut
      <4>1. torn' = gapped
        BY <2>1, <3>1
      <4> QED
        BY <2>3, <3>1, <4>1
    <3>2. CASE disk_lut' # lut /\ disk_lut' = disk_lut
      <4>1. torn' = torn
        BY <2>1, <3>2
      <4>2. ~torn
        BY <2>3, <4>1
      <4> QED
        BY <3>2, <4>2
    <3>3. CASE disk_lut' # lut /\ disk_lut' # disk_lut
      <4>1. torn' = TRUE
        BY <2>1, <3>3
      <4> QED
        BY <2>3, <4>1
    <3> QED
      BY <3>1, <3>2, <3>3
  <2> QED
    BY <1>2, <2>2, <2>3, InterruptedOpens
<1> QED
  BY <1>5, <1>6, <1>7, <1>8, <1>9, <1>10 DEF Fault

\* A write that completes leaves the file as long or longer.
LEMMA DataOpens ==
    ASSUME IInv, OInv, Shift \/ WritePayload \/ Rewrite
    PROVE  OInv'
<1>1. TypeOK /\ OpOK /\ IdleOK /\ HeaderOK /\ LengthOK
  BY DEF IInv, OInv
<1>2. UNCHANGED <<misalign, disk_lut, lut, sectors, op, sizes, stopped, torn, gapped>>
  BY DEF Shift, WritePayload, Rewrite, table, ghost
<1>3. /\ op.save \in 1..Len(sizes) /\ data \in Cells /\ sectors \in Nat
      /\ pc \in {"shift", "append", "rewrite"} /\ pc' \in {"truncate", "pad", "header"}
  BY <1>1 DEF OpOK, Shift, WritePayload, Rewrite, TypeOK, Cells
<1>4. /\ Rest \in Cells /\ ShiftTo \in Nat /\ RewriteOffset \in Nat /\ sectors * SectorSize \in Nat
      /\ Payload(op.save) \in Cells
  BY <1>1, <1>3, WriteTypes DEF OpOK
<1>5. PICK p \in Nat, c \in Cells : /\ data' = Written(p, c)
                                    /\ pc' = "pad" => p = sectors * SectorSize /\ c = Payload(op.save)
  <2>1. CASE Shift
    BY <1>4, <2>1 DEF Shift
  <2>2. CASE WritePayload
    BY <1>4, <2>2 DEF WritePayload
  <2>3. CASE Rewrite
    BY <1>4, <2>3 DEF Rewrite
  <2> QED
    BY <2>1, <2>2, <2>3
<1>6. Len(data) \in Nat /\ Len(data') \in Nat /\ Len(data) <= Len(data')
  BY <1>3, <1>5, WrittenGrows
<1>7. IdleOK'
  BY <1>3 DEF IdleOK
<1>8. HeaderOK'
  <2>1. CASE Shift
    <3>1. op.freed > 0 /\ header' = header /\ pc = "shift"
      BY <1>1, <2>1 DEF OpOK, Shift
    <3> QED
      BY <1>1, <1>2, <3>1 DEF HeaderOK
  <2>2. CASE WritePayload
    <3>1. header' = "whole"
      BY <2>2 DEF WritePayload
    <3> QED
      BY <3>1 DEF HeaderOK
  <2>3. CASE Rewrite
    <3>1. header' = header /\ pc = "rewrite" /\ pc' = "header"
      BY <2>3 DEF Rewrite
    <3> QED
      BY <1>1, <1>2, <3>1 DEF HeaderOK
  <2> QED
    BY <2>1, <2>2, <2>3
<1>9. ASSUME stopped' = 0, ~gapped'
      PROVE  Reaches(Len(data'), sectors', misalign)
  <2>1. Reaches(Len(data), sectors, misalign)
    BY <1>1, <1>2, <1>3, <1>9 DEF LengthOK
  <2> QED
    BY <1>1, <1>2, <1>3, <1>6, <2>1, ReachesMore, Slack
<1>10. ASSUME stopped' = 0, ~torn', op'.freed = 0
       PROVE  Reaches(Len(data'), Cardinality(Occupied(disk_lut')), misalign)
  <2>1. Reaches(Len(data), Cardinality(Occupied(disk_lut)), misalign)
    BY <1>1, <1>2, <1>10 DEF LengthOK
  <2>2. Cardinality(Occupied(disk_lut)) \in Nat
    BY <1>1, OccupiedFinite DEF TypeOK
  <2> QED
    BY <1>1, <1>2, <1>6, <2>1, <2>2, ReachesMore, Slack
<1>11. ASSUME pc' = "pad"
       PROVE  sectors' * SectorSize + sizes'[op'.save] <= Len(data')
  <2>1. sizes[op.save] \in Nat /\ sizes[op.save] > 0
    BY <1>1, <1>3, PayloadType, PayloadPositive
  <2>2. Payload(op.save) # <<>> /\ Len(Payload(op.save)) = sizes[op.save]
    BY <2>1 DEF Payload
  <2> QED
    BY <1>2, <1>3, <1>5, <1>11, <2>2, WrittenGrows
<1>12. LengthOK'
  BY <1>2, <1>9, <1>10, <1>11 DEF LengthOK
<1> QED
  BY <1>7, <1>8, <1>12 DEF OInv

\* Opening and closing the file.
LEMMA OpenOpens ==
    ASSUME IInv, OInv, Open \/ Create \/ FinishCreate \/ Close
    PROVE  OInv'
<1>1. TypeOK /\ MemoryOK /\ DiskOK /\ CreateOK /\ IdleOK /\ HeaderOK /\ LengthOK
  BY DEF IInv, OInv
<1>2. UNCHANGED <<misalign, op, stopped, data, torn, sizes>>
  BY DEF Open, Create, FinishCreate, Close, disk, ghost
<1>3. /\ pc \in {"closed", "create", "idle"} /\ op = NoOp /\ op.freed = 0
      /\ pc' \in {"closed", "create", "idle"}
  BY <1>1 DEF Open, Create, FinishCreate, Close, IdleOK, NoOp
<1>4. IdleOK'
  BY <1>2, <1>3 DEF IdleOK
<1>5. HeaderOK'
  <2>1. CASE Open \/ Close
    BY <1>1, <1>2, <1>3, <2>1 DEF HeaderOK, Open, Close, disk
  <2>2. CASE Create
    BY <2>2 DEF HeaderOK, Create
  <2>3. CASE FinishCreate
    BY <2>3 DEF HeaderOK, FinishCreate
  <2> QED
    BY <2>1, <2>2, <2>3
<1>6. ASSUME stopped = 0, ~torn
      PROVE  Reaches(Len(data), Cardinality(Occupied(disk_lut')), misalign)
  <2>1. CASE FinishCreate
    <3>1. Tight(disk_lut', 0) /\ disk_lut' \in [Slots -> Info]
      BY <1>1, <2>1, EmptyTight DEF FinishCreate, CreateOK
    <3>2. Cardinality(Occupied(disk_lut')) = 0
      BY <3>1, TightSize
    <3> QED
      BY <3>2 DEF Reaches
  <2>2. CASE Open \/ Create \/ Close
    <3>1. disk_lut' = disk_lut
      BY <2>2 DEF Open, Create, Close, disk
    <3> QED
      BY <1>1, <1>3, <1>6, <3>1 DEF LengthOK
  <2> QED
    BY <2>1, <2>2
<1>7. ASSUME stopped = 0, ~gapped', pc' # "closed"
      PROVE  Reaches(Len(data), sectors', misalign)
  <2>1. CASE Open
    <3>1. sectors' = Cardinality(Occupied(disk_lut')) /\ gapped' = torn
      BY <2>1 DEF Open, disk
    <3> QED
      BY <1>6, <1>7, <3>1
  <2>2. CASE Create
    BY <2>2 DEF Create, Reaches
  <2>3. CASE FinishCreate
    <3>1. sectors' = sectors /\ gapped' = gapped /\ pc = "create"
      BY <2>3 DEF FinishCreate, table, ghost
    <3> QED
      BY <1>1, <1>7, <3>1 DEF LengthOK
  <2>4. CASE Close
    BY <1>7, <2>4 DEF Close
  <2> QED
    BY <2>1, <2>2, <2>3, <2>4
<1>8. LengthOK'
  BY <1>2, <1>3, <1>6, <1>7 DEF LengthOK
<1> QED
  BY <1>4, <1>5, <1>8 DEF OInv

\* A save begins with the file as it is.
LEMMA BeginOpens ==
    ASSUME IInv, OInv, NEW s \in Slots, NEW size \in Sizes, BeginSave(s, size)
    PROVE  OInv'
<1>1. TypeOK /\ IdleOK /\ HeaderOK /\ LengthOK
  BY DEF IInv, OInv
<1>2. /\ pc = "idle" /\ pc' \in {"shift", "rewrite", "append"}
      /\ UNCHANGED <<misalign, header, disk_lut, data, lut, sectors, stopped, torn, gapped>>
  BY DEF BeginSave, disk, table, ghost
<1>3. op.freed = 0
  BY <1>1, <1>2 DEF IdleOK, NoOp
<1>4. IdleOK' /\ HeaderOK'
  BY <1>1, <1>2 DEF IdleOK, HeaderOK
<1>5. LengthOK'
  BY <1>1, <1>2, <1>3 DEF LengthOK
<1> QED
  BY <1>4, <1>5 DEF OInv

\* The header is written behind a save: the table on disk is the one in memory.
LEMMA HeaderOpens ==
    ASSUME IInv, OInv, SaveHeader
    PROVE  OInv'
<1>1. TypeOK /\ MemoryOK /\ IdleOK /\ HeaderOK /\ LengthOK
  BY DEF IInv, OInv
<1>2. /\ pc = "header" /\ disk_lut' = lut /\ header' = "whole" /\ torn' = gapped
      /\ pc' = "idle" /\ op' = NoOp
      /\ UNCHANGED <<misalign, data, lut, sectors, sizes, gapped, stopped>>
  BY DEF SaveHeader, table
<1>3. IdleOK' /\ HeaderOK'
  BY <1>2 DEF IdleOK, HeaderOK
<1>4. ASSUME stopped = 0, ~gapped
      PROVE  Reaches(Len(data), sectors, misalign) /\ Cardinality(Occupied(lut)) = sectors
  <2>1. Tight(lut, sectors)
    BY <1>1, <1>2, <1>4 DEF MemoryOK
  <2> QED
    BY <1>1, <1>2, <1>4, <2>1, TightSize DEF LengthOK, TypeOK
<1>5. LengthOK'
  BY <1>2, <1>4 DEF LengthOK
<1> QED
  BY <1>3, <1>5 DEF OInv

\* The last sector is filled up and taken into the table.
LEMMA PadOpens ==
    ASSUME IInv, OInv, Pad
    PROVE  OInv'
<1>1. TypeOK /\ OpOK /\ IdleOK /\ HeaderOK /\ LengthOK /\ pc = "pad"
  BY DEF IInv, OInv, Pad
<1>2. PICK n : n = SectorsFor(sizes[op.save])
  OBVIOUS
<1>3. /\ data' = Written(sectors * SectorSize + sizes[op.save], PadCells)
      /\ \/ /\ sectors' = sectors + n
            /\ pc' = "header"
            /\ UNCHANGED <<op, stopped>>
         \/ Abort /\ UNCHANGED <<lut, sectors>>
      /\ UNCHANGED <<misalign, header, disk_lut, sizes, torn, gapped>>
  BY <1>2 DEF Pad, table
<1>4. op.save \in 1..Len(sizes) /\ sectors \in Nat /\ op.freed \in Nat
  BY <1>1 DEF OpOK, TypeOK
<1>5. sizes[op.save] \in Nat /\ sizes[op.save] > 0 /\ n \in Nat
  BY <1>1, <1>2, <1>4, PayloadType, PayloadPositive
<1>6. Len(data) \in Nat /\ Len(data') \in Nat /\ Len(data) <= Len(data')
  <2>1. PadCells \in Cells
    BY <1>1, <1>4, PadCellsType
  <2>2. sectors * SectorSize + sizes[op.save] \in Nat
    BY <1>4, <1>5, Product, Constants
  <2>3. data \in Cells
    BY <1>1 DEF TypeOK, Cells
  <2> QED
    BY <1>3, <2>1, <2>2, <2>3, WrittenGrows
<1>7. ASSUME stopped = 0, ~torn, op.freed = 0
      PROVE  Reaches(Len(data'), Cardinality(Occupied(disk_lut)), misalign)
  <2>1. Reaches(Len(data), Cardinality(Occupied(disk_lut)), misalign)
    BY <1>1, <1>7 DEF LengthOK
  <2>2. Cardinality(Occupied(disk_lut)) \in Nat
    BY <1>1, OccupiedFinite DEF TypeOK
  <2> QED
    BY <1>1, <1>6, <2>1, <2>2, ReachesMore, Slack
<1>8. CASE /\ sectors' = sectors + n
           /\ pc' = "header"
           /\ UNCHANGED <<op, stopped>>
  <2>1. IdleOK' /\ HeaderOK'
    BY <1>1, <1>3, <1>8 DEF IdleOK, HeaderOK
  <2>2. Reaches(Len(data'), sectors', misalign)
    <3>1. PICK p, k \in Nat : /\ Len(PadCells) = p
                             /\ misalign + sectors * SectorSize + sizes[op.save] + p = k * SectorSize
      BY <1>1, <1>4, PadLength
    <3>2. sectors * SectorSize \in Nat /\ PadCells \in Cells /\ data \in Cells
      BY <1>1, <1>4, Product, Constants, PadCellsType DEF TypeOK, Cells
    <3>3. sectors * SectorSize + sizes[op.save] <= Len(data)
      BY <1>1 DEF LengthOK
    <3>4. sectors * SectorSize + sizes[op.save] + p <= Len(data')
      <4>1. CASE PadCells = <<>>
        <5>1. p = 0
          BY <3>1, <4>1
        <5> QED
          BY <1>5, <1>6, <3>2, <3>3, <5>1
      <4>2. CASE PadCells # <<>>
        <5>1. PICK q \in Nat : q = sectors * SectorSize + sizes[op.save]
          BY <1>5, <3>2
        <5>2. q + Len(PadCells) <= Len(Written(q, PadCells))
          BY <3>2, <4>2, <5>1, WrittenGrows
        <5> QED
          BY <1>3, <3>1, <5>1, <5>2
      <4> QED
        BY <4>1, <4>2
    <3>5. Reaches(Len(data'), sectors + n, misalign)
      BY <1>1, <1>2, <1>4, <1>5, <1>6, <3>1, <3>4, ReachesPadded, Slack
    <3> QED
      BY <1>8, <3>5
  <2>3. LengthOK'
    BY <1>3, <1>7, <1>8, <2>2 DEF LengthOK
  <2> QED
    BY <2>1, <2>3 DEF OInv
<1>9. CASE Abort /\ UNCHANGED <<lut, sectors>>
  <2>1. pc' = "idle" /\ op' = NoOp /\ stopped' = StoppedAt(op.freed > 0)
    BY <1>9 DEF Abort
  <2>2. ASSUME stopped' = 0
        PROVE  stopped = 0 /\ op.freed = 0
    <3>1. (op.freed > 0) \in BOOLEAN
      OBVIOUS
    <3>2. stopped = 0 /\ ~ (op.freed > 0)
      BY <1>1, <2>1, <2>2, <3>1, NotStopped
    <3> QED
      BY <1>4, <3>2
  <2>3. IdleOK' /\ HeaderOK'
    <3>1. stopped' = 0 => header # "cut"
      BY <1>1, <2>2 DEF HeaderOK
    <3> QED
      BY <1>3, <2>1, <3>1 DEF IdleOK, HeaderOK
  <2>4. ASSUME stopped' = 0, ~gapped
        PROVE  Reaches(Len(data'), sectors, misalign)
    <3>1. Reaches(Len(data), sectors, misalign)
      BY <1>1, <2>2, <2>4 DEF LengthOK
    <3> QED
      BY <1>1, <1>4, <1>6, <3>1, ReachesMore, Slack
  <2>5. LengthOK'
    BY <1>3, <1>7, <1>9, <2>1, <2>2, <2>4 DEF LengthOK
  <2> QED
    BY <2>3, <2>5 DEF OInv
<1> QED
  BY <1>3, <1>8, <1>9

\* The file is cut by the sectors freed: what is left reaches into the last one.
LEMMA TruncateOpens ==
    ASSUME IInv, OInv, Truncate
    PROVE  OInv'
<1>1. TypeOK /\ OpOK /\ MemoryOK /\ IdleOK /\ HeaderOK /\ LengthOK /\ pc = "truncate"
  BY DEF IInv, OInv, Truncate
<1>2. PICK length : length = Len(data) - op.freed * SectorSize
  OBVIOUS
<1>3. /\ data' = SubSeq(data, 1, length) /\ gapped' = gapped /\ misalign' = misalign
      /\ \/ /\ sectors' = sectors - op.freed
            /\ pc' = IF Shrunk(lut, op.slot, op.freed)[op.slot].count = 0 THEN "append" ELSE "rewrite"
            /\ UNCHANGED <<op, stopped>>
         \/ Abort
  BY <1>2 DEF Truncate, Drained
<1>4. /\ op.slot \in Slots /\ op.freed \in Nat /\ op.freed > 0 /\ sectors \in Nat
      /\ lut[op.slot] = op.before /\ op.freed <= lut[op.slot].count
      /\ lut \in [Slots -> Info] /\ data \in Cells
  BY <1>1 DEF TypeOK, OpOK, Cells
<1>5. Len(data) \in Nat /\ op.freed * SectorSize \in Nat
  BY <1>4, Product, Constants, LenProperties DEF Cells
<1>6. CASE Abort
  <2>1. pc' = "idle" /\ op' = NoOp /\ stopped' = StoppedAt(op.freed > 0)
    BY <1>6 DEF Abort
  <2>2. stopped' # 0
    <3>1. (op.freed > 0) \in BOOLEAN
      OBVIOUS
    <3> QED
      BY <1>1, <1>4, <2>1, <3>1, NotStopped
  <2> QED
    BY <2>1, <2>2 DEF OInv, IdleOK, HeaderOK, LengthOK
<1>7. CASE /\ sectors' = sectors - op.freed
           /\ pc' = IF Shrunk(lut, op.slot, op.freed)[op.slot].count = 0 THEN "append" ELSE "rewrite"
           /\ UNCHANGED <<op, stopped>>
  <2>1. pc' \in {"append", "rewrite"}
    BY <1>7
  <2>2. IdleOK' /\ HeaderOK'
    BY <1>4, <1>7, <2>1 DEF IdleOK, HeaderOK
  <2>3. ASSUME stopped = 0, ~gapped
        PROVE  Reaches(Len(data'), sectors - op.freed, misalign)
    <3>1. Tight(lut, sectors) /\ Reaches(Len(data), sectors, misalign)
      BY <1>1, <2>3 DEF MemoryOK, LengthOK
    <3>2. op.freed <= sectors
      <4>1. End(lut, op.slot) <= sectors /\ sectors - op.freed \in Nat
        BY <1>4, <3>1, ShrinkTight
      <4> QED
        BY <1>4, <4>1
    <3>3. \/ sectors - op.freed = 0
          \/ /\ Len(data) - op.freed * SectorSize \in Nat
             /\ Reaches(Len(data) - op.freed * SectorSize, sectors - op.freed, misalign)
      BY <1>1, <1>4, <1>5, <3>1, <3>2, ReachesLess, Slack
    <3>4. CASE sectors - op.freed = 0
      BY <3>4 DEF Reaches
    <3>5. CASE /\ Len(data) - op.freed * SectorSize \in Nat
               /\ Reaches(Len(data) - op.freed * SectorSize, sectors - op.freed, misalign)
      <4>1. length \in Nat /\ length <= Len(data)
        BY <1>2, <1>5, <3>5
      <4>2. Len(SubSeq(data, 1, length)) = length
        <5>1. \A i \in 1..length : data[i] \in Save \X Nat
          BY <1>4, <1>5, <4>1, ElementOfSeq DEF Cells
        <5> QED
          BY <4>1, <5>1, SubSeqProperties
      <4> QED
        BY <1>2, <1>3, <3>5, <4>2
    <3> QED
      BY <3>3, <3>4, <3>5
  <2>4. stopped' = stopped /\ op'.freed # 0 /\ pc' # "pad" /\ sectors' = sectors - op.freed
    BY <1>4, <1>7, <2>1
  <2>5. stopped' = 0 /\ pc' # "closed" /\ ~gapped' => Reaches(Len(data'), sectors', misalign)
    BY <1>3, <2>3, <2>4
  <2>6. LengthOK'
    BY <1>3, <2>4, <2>5 DEF LengthOK
  <2> QED
    BY <2>2, <2>6 DEF OInv
<1> QED
  BY <1>3, <1>6, <1>7

\* As long as no save was stopped while sectors moved, a closed file is whole
\* and as long as its table says.
THEOREM FileLength == Spec => []OInv
<1>1. Init => OInv
  <2> SUFFICES ASSUME Init PROVE OInv
    OBVIOUS
  <2>1. IdleOK /\ HeaderOK
    BY DEF Init, IdleOK, HeaderOK
  <2>2. Cardinality(Occupied(disk_lut)) = 0
    BY EmptyTight, TightSize DEF Init
  <2>3. LengthOK
    BY <2>2 DEF Init, LengthOK, Reaches
  <2> QED
    BY <2>1, <2>3 DEF OInv
<1>2. IInv /\ OInv /\ [Next]_vars => OInv'
  <2> SUFFICES ASSUME IInv, OInv, [Next]_vars PROVE OInv'
    OBVIOUS
  <2>1. CASE UNCHANGED vars
    BY <2>1 DEF OInv, IdleOK, HeaderOK, LengthOK, vars, disk, table, ghost
  <2>2. CASE Refuse
    BY <2>1, <2>2 DEF Refuse
  <2>3. ASSUME NEW s \in Slots, NEW size \in Sizes, BeginSave(s, size)
        PROVE  OInv'
    BY <2>3, BeginOpens
  <2> QED
    BY <2>1, <2>2, <2>3, OpenOpens, DataOpens, TruncateOpens, PadOpens, HeaderOpens, FaultOpens DEF Next
<1> QED
  BY <1>1, <1>2, FileInvariant, PTL DEF Spec

\* Whatever call fails and whenever the process dies, the file can be opened
\* again: its header is whole, no entry is over another and none reaches behind
\* the end of the file, unless a save was stopped while it moved sectors or a
\* header write stopped between two entries.
THEOREM FileOpens == Spec => []FileOpensAgain
<1>1. IInv /\ OInv => FileOpensAgain
  <2> SUFFICES ASSUME IInv, OInv, pc = "closed", stopped = 0, ~torn, header # "none"
               PROVE  Opens
    BY DEF FileOpensAgain
  <2>1. TypeOK /\ DiskOK /\ IdleOK /\ HeaderOK /\ LengthOK
    BY DEF IInv, OInv
  <2>2. header = "whole"
    BY <2>1 DEF TypeOK, HeaderOK
  <2>3. PICK N : N = Cardinality(Occupied(disk_lut))
    OBVIOUS
  <2>4. N \in Nat /\ disk_lut \in [Slots -> Info] /\ data \in Cells
    BY <2>1, <2>3, OccupiedFinite DEF TypeOK, Cells
  <2>5. Tight(disk_lut, N)
    BY <2>1, <2>3 DEF DiskOK
  <2>6. Reaches(Len(data), N, misalign)
    BY <2>1, <2>3 DEF LengthOK, IdleOK, NoOp
  <2>7. SectorCapacity \in Nat /\ N <= SectorCapacity
    BY <2>1, <2>4, <2>6, ReachesCapacity, Slack
  <2>8. \A s \in Slots : Present(disk_lut, s) => End(disk_lut, s) <= N
    BY <2>4, <2>5, TightTold
  <2>9. \A s \in Slots : Present(disk_lut, s) => End(disk_lut, s) <= SectorCapacity
    <3>1. \A s \in Slots : End(disk_lut, s) \in Nat
      BY <2>4, Sectors
    <3> QED
      BY <2>4, <2>7, <2>8, <3>1
  <2>10. \A s, t \in Slots : ~Overlap(disk_lut, s, t)
    BY <2>5 DEF Tight
  <2> QED
    BY <2>2, <2>9, <2>10 DEF Opens
<1> QED
  BY <1>1, FileInvariant, FileLength, PTL
-----------------------------------------------------------------------------
(* The cells of the blocks *)

\* The payload of save v, n cells, stands at offset p of d, before offset len.
Stored(d, len, p, v, n) ==
    /\ p + n <= len
    /\ \A i \in 1..n : d[p + i] = <<v, i>>

\* ClearOfPadding, for a payload of n cells
Clear(n, slack) == (n - 1) % SectorSize < SectorSize - slack

\* An entry keeps what was saved last in its slot: nothing, or save v of n cells.
Kept(d, len, entry, v, n, slack) ==
    IF v = 0 THEN entry.count = 0
    ELSE Clear(n, slack) => n <= entry.count * SectorSize /\ Stored(d, len, entry.index * SectorSize, v, n)

\* Sectors that are more take no less.
LEMMA Times ==
    ASSUME NEW a \in Nat, NEW b \in Nat, a <= b
    PROVE  a * SectorSize \in Nat /\ b * SectorSize \in Nat /\ a * SectorSize <= b * SectorSize
<1>1. PICK e \in Nat : b = a + e
  <2>1. b - a \in Nat /\ b = a + (b - a)
    OBVIOUS
  <2> QED
    BY <2>1
<1>2. SectorSize \in Nat
  BY Constants
<1>3. (a + e) * SectorSize = a * SectorSize + e * SectorSize
  BY <1>2
<1>4. a * SectorSize \in Nat /\ e * SectorSize \in Nat
  BY <1>2, Product
<1> QED
  BY <1>1, <1>3, <1>4

\* A payload clear of the padding ends before the slack of its last sector.
LEMMA ClearFits ==
    ASSUME NEW n \in Nat, n > 0, NEW slack \in 0..(SectorSize - 1), Clear(n, slack),
           NEW c \in Nat, n <= c * SectorSize
    PROVE  c > 0 /\ n + slack <= c * SectorSize
<1>1. SectorSize \in Nat /\ SectorSize > 0 /\ slack \in Nat /\ slack < SectorSize
  BY Constants
<1>2. PICK a \in Nat : a = n - 1
  OBVIOUS
<1>3. PICK q \in Nat : q = a \div SectorSize
  BY <1>1
<1>4. PICK r \in Nat : r = a % SectorSize
  BY <1>1
<1>5. a = q * SectorSize + r
  <2>1. a = SectorSize * (a \div SectorSize) + (a % SectorSize)
    BY <1>1
  <2>2. SectorSize * (a \div SectorSize) = q * SectorSize
    BY <1>1, <1>3
  <2> QED
    BY <1>4, <2>1, <2>2
<1>6. r < SectorSize - slack
  BY <1>2, <1>4 DEF Clear
<1>7. c # 0
  <2>1. c = 0 => c * SectorSize = 0
    BY <1>1
  <2> QED
    BY <2>1
<1>8. q + 1 <= c
  <2>1. SUFFICES ASSUME c <= q PROVE FALSE
    OBVIOUS
  <2>2. c * SectorSize <= q * SectorSize /\ q * SectorSize \in Nat /\ c * SectorSize \in Nat
    BY <2>1, Times
  <2> QED
    BY <1>2, <1>5, <2>2
<1>9. (q + 1) * SectorSize <= c * SectorSize /\ c * SectorSize \in Nat
  BY <1>8, Times
<1>10. (q + 1) * SectorSize = q * SectorSize + SectorSize /\ q * SectorSize \in Nat
  BY <1>1, Product
<1>11. n + slack <= q * SectorSize + SectorSize
  BY <1>1, <1>2, <1>5, <1>6, <1>10
<1> QED
  BY <1>1, <1>7, <1>9, <1>10, <1>11

\* What a write leaves before, in and behind its cells.
LEMMA WrittenCells ==
    ASSUME data \in Cells, NEW p \in Nat, NEW c \in Cells
    PROVE  /\ \A i \in 1..Len(data) : i <= p \/ p + Len(c) < i => Written(p, c)[i] = data[i]
           /\ \A i \in 1..Len(c) : Written(p, c)[p + i] = c[i]
<1>1. Len(data) \in Nat /\ Len(c) \in Nat
  BY LenProperties DEF Cells
<1>2. CASE c = <<>>
  BY <1>2 DEF Written
<1>3. CASE c # <<>>
  <2>1. PICK n \in Nat : n = IF p + Len(c) > Len(data) THEN p + Len(c) ELSE Len(data)
    BY <1>1
  <2>2. Written(p, c) = [i \in 1..n |-> IF p < i /\ i <= p + Len(c) THEN c[i - p]
                                      ELSE IF i <= Len(data) THEN data[i] ELSE Zero]
    BY <1>3, <2>1 DEF Written
  <2>3. ASSUME NEW i \in 1..Len(data), i <= p \/ p + Len(c) < i
        PROVE  Written(p, c)[i] = data[i]
    <3>1. i \in 1..n /\ ~ (p < i /\ i <= p + Len(c)) /\ i <= Len(data)
      BY <1>1, <2>1, <2>3
    <3> QED
      BY <2>2, <3>1
  <2>4. ASSUME NEW i \in 1..Len(c)
        PROVE  Written(p, c)[p + i] = c[i]
    <3>1. p + i \in 1..n /\ p < p + i /\ p + i <= p + Len(c) /\ (p + i) - p = i
      BY <1>1, <2>1
    <3>2. PICK j : j = p + i
      OBVIOUS
    <3>3. j \in 1..n /\ p < j /\ j <= p + Len(c) /\ j - p = i
      BY <3>1, <3>2
    <3> QED
      BY <2>2, <3>2, <3>3
  <2> QED
    BY <2>3, <2>4
<1> QED
  BY <1>2, <1>3

\* What is kept stays kept where the cells of the payload stay the same.
LEMMA KeptStays ==
    ASSUME NEW d, NEW e, NEW len, NEW more, NEW entry, NEW v, NEW n, NEW slack,
           Kept(d, len, entry, v, n, slack),
           v # 0 /\ Clear(n, slack) /\ Stored(d, len, entry.index * SectorSize, v, n) /\ n <= entry.count * SectorSize
             => /\ entry.index * SectorSize + n <= more
                /\ \A i \in 1..n : e[entry.index * SectorSize + i] = d[entry.index * SectorSize + i]
    PROVE  Kept(e, more, entry, v, n, slack)
<1>1. CASE v = 0
  BY <1>1 DEF Kept
<1>2. CASE v # 0 /\ ~ Clear(n, slack)
  BY <1>2 DEF Kept
<1>3. CASE v # 0 /\ Clear(n, slack)
  <2>1. n <= entry.count * SectorSize /\ Stored(d, len, entry.index * SectorSize, v, n)
    BY <1>3 DEF Kept
  <2>2. Stored(e, more, entry.index * SectorSize, v, n)
    BY <1>3, <2>1 DEF Stored
  <2> QED
    BY <1>3, <2>1, <2>2 DEF Kept
<1> QED
  BY <1>1, <1>2, <1>3

\* A write beside the sectors of an entry leaves what they keep.
LEMMA KeptBeside ==
    ASSUME TypeOK, NEW l \in [Slots -> Info], NEW s \in Slots, NEW v, NEW n, v # 0 => n \in Nat /\ n > 0,
           Kept(data, Len(data), l[s], v, n, misalign), NEW p \in Nat, NEW c \in Cells,
           Present(l, s) => \/ End(l, s) * SectorSize <= p
                            \/ p + Len(c) <= l[s].index * SectorSize
    PROVE  Kept(Written(p, c), Len(Written(p, c)), l[s], v, n, misalign)
<1>1. data \in Cells /\ Len(data) \in Nat /\ Len(c) \in Nat
  BY LenProperties DEF TypeOK, Cells
<1>2. Len(Written(p, c)) \in Nat /\ Len(data) <= Len(Written(p, c))
  BY <1>1, WrittenGrows
<1>3. SUFFICES ASSUME v # 0, Clear(n, misalign), Stored(data, Len(data), l[s].index * SectorSize, v, n),
                      n <= l[s].count * SectorSize
               PROVE  /\ l[s].index * SectorSize + n <= Len(Written(p, c))
                      /\ \A i \in 1..n : Written(p, c)[l[s].index * SectorSize + i] = data[l[s].index * SectorSize + i]
  BY KeptStays
<1>4. PICK x, y, z \in Nat : x = l[s].index * SectorSize /\ y = l[s].count * SectorSize /\ z = End(l, s) * SectorSize
                             /\ z = x + y
  <2>1. l[s].index \in Nat /\ l[s].count \in Nat /\ End(l, s) = l[s].index + l[s].count /\ SectorSize \in Nat
    BY Sectors, Constants
  <2>2. (l[s].index + l[s].count) * SectorSize = l[s].index * SectorSize + l[s].count * SectorSize
    BY <2>1
  <2>3. l[s].index * SectorSize \in Nat /\ l[s].count * SectorSize \in Nat
    BY <2>1, Product
  <2> QED
    BY <2>1, <2>2, <2>3
<1>5. x + n <= Len(data) /\ n <= y
  BY <1>3, <1>4 DEF Stored
<1>6. Present(l, s)
  <2>1. l[s].count \in Nat /\ SectorSize \in Nat
    BY Sectors, Constants
  <2>2. l[s].count # 0
    <3>1. l[s].count = 0 => y = 0
      BY <1>4, <2>1
    <3> QED
      BY <1>3, <1>4, <1>5, <3>1
  <2> QED
    BY <2>1, <2>2 DEF Present
<1>7. z <= p \/ p + Len(c) <= x
  BY <1>4, <1>6
<1>8. ASSUME NEW i \in 1..n
      PROVE  Written(p, c)[x + i] = data[x + i]
  <2>1. i \in Nat /\ 1 <= i /\ i <= n /\ n \in Nat
    BY <1>3
  <2>2. x + i \in 1..Len(data)
    BY <1>1, <1>4, <1>5, <2>1
  <2>3. x + i <= p \/ p + Len(c) < x + i
    <3>1. CASE z <= p
      BY <1>4, <1>5, <2>1, <3>1
    <3>2. CASE p + Len(c) <= x
      BY <1>1, <1>4, <2>1, <3>2
    <3> QED
      BY <1>7, <3>1, <3>2
  <2> QED
    BY <1>1, <2>2, <2>3, WrittenCells
<1> QED
  BY <1>1, <1>2, <1>3, <1>4, <1>5, <1>8

\* A payload that is written stands where it was written.
LEMMA StoredThere ==
    ASSUME TypeOK, NEW v \in 1..Len(sizes), NEW p \in Nat
    PROVE  Stored(Written(p, Payload(v)), Len(Written(p, Payload(v))), p, v, sizes[v])
<1>1. data \in Cells /\ Payload(v) \in Cells /\ sizes[v] \in Nat /\ sizes[v] > 0
  BY PayloadType, PayloadPositive DEF TypeOK, Cells
<1>2. Len(Payload(v)) = sizes[v] /\ Payload(v) # <<>> /\ \A i \in 1..sizes[v] : Payload(v)[i] = <<v, i>>
  BY <1>1 DEF Payload
<1>3. p + sizes[v] <= Len(Written(p, Payload(v)))
  BY <1>1, <1>2, WrittenGrows
<1>4. \A i \in 1..sizes[v] : Written(p, Payload(v))[p + i] = <<v, i>>
  BY <1>1, <1>2, WrittenCells
<1> QED
  BY <1>3, <1>4 DEF Stored

\* A payload that stands before what is written stays.
LEMMA StoredBefore ==
    ASSUME TypeOK, NEW v, NEW n \in Nat, NEW q \in Nat, Stored(data, Len(data), q, v, n),
           NEW p \in Nat, NEW c \in Cells, q + n <= p
    PROVE  Stored(Written(p, c), Len(Written(p, c)), q, v, n)
<1>1. data \in Cells /\ Len(data) \in Nat /\ Len(c) \in Nat
  BY LenProperties DEF TypeOK, Cells
<1>2. Len(Written(p, c)) \in Nat /\ Len(data) <= Len(Written(p, c)) /\ q + n <= Len(data)
  BY <1>1, WrittenGrows DEF Stored
<1>3. ASSUME NEW i \in 1..n
      PROVE  Written(p, c)[q + i] = <<v, i>>
  <2>1. q + i \in 1..Len(data) /\ q + i <= p
    BY <1>1, <1>2
  <2>2. Written(p, c)[q + i] = data[q + i]
    BY <1>1, <2>1, WrittenCells
  <2> QED
    BY <2>2 DEF Stored
<1> QED
  BY <1>1, <1>2, <1>3 DEF Stored

\* A part of some cells is no longer than they are.
LEMMA PartLength ==
    ASSUME NEW c \in Cells, NEW part \in Parts(c)
    PROVE  Len(part) \in Nat /\ Len(c) \in Nat /\ Len(part) <= Len(c)
<1>1. PICK k \in 0..Len(c) : part = SubSeq(c, 1, k)
  BY DEF Parts
<1>2. Len(c) \in Nat
  BY LenProperties DEF Cells
<1>3. \A i \in 1..k : c[i] \in Save \X Nat
  BY <1>2, ElementOfSeq DEF Cells
<1>4. Len(part) = IF 1 <= k THEN k - 1 + 1 ELSE 0
  BY <1>1, <1>2, <1>3, SubSeqProperties
<1> QED
  BY <1>2, <1>4

-----------------------------------------------------------------------------
(* What every block keeps *)

Saving == pc \in {"shift", "truncate", "append", "pad", "rewrite", "header"}

\* No save was stopped with sectors moving, or the last one was.
Sound == stopped \in {0, Len(sizes) + 1}

Intact(entry, s, len) == Kept(data, len, entry, acked[s], sizes[acked[s]], misalign)

(* What the steps of a save have found and left so far. *)
StepOK ==
    /\ gapped => torn
    /\ \A s \in Slots : acked[s] <= Len(sizes)
    /\ header = "none" => pc = "closed"
    /\ header = "none" \/ pc = "create" => disk_lut = [s \in Slots |-> Empty] /\ acked = [s \in Slots |-> 0]
    /\ stopped <= Len(sizes) + 1
    /\ Saving => stopped <= Len(sizes)
    /\ pc \in {"shift", "truncate"} =>
         /\ op.behind = Behind(lut, op.slot)
         /\ op.freed = op.before.count \/ op.before.count - op.freed = SectorsFor(sizes[op.save])
    /\ pc = "rewrite" => lut[op.slot].index = op.before.index
    /\ pc \in {"rewrite", "header"} => lut[op.slot].count = SectorsFor(sizes[op.save])

(* Every block in no doubt is kept where the table in memory says; while the *)
(* file is cut, where the table will say, before the cut.                    *)
KeptOK ==
    Sound /\ ~gapped =>
        /\ pc \in {"create", "idle", "shift"} => \A s \in Slots \ suspect : Intact(lut[s], s, Len(data))
        /\ pc = "truncate" =>
             \A s \in Slots \ (suspect \cup {op.slot}) :
                Intact(Shrunk(lut, op.slot, op.freed)[s], s, Len(data) - op.freed * SectorSize)
        /\ pc \in {"append", "pad", "rewrite", "header"} =>
             \A s \in Slots \ (suspect \cup {op.slot}) : Intact(lut[s], s, Len(data))
        /\ pc = "pad" => Stored(data, Len(data), sectors * SectorSize, op.save, sizes[op.save])
        /\ pc = "header" => Stored(data, Len(data), lut[op.slot].index * SectorSize, op.save, sizes[op.save])

(* The table on disk gives such a block the same entry, and keeps it when closed. *)
SameOK ==
    Sound /\ ~torn =>
        /\ pc # "closed" => \A s \in Slots \ Doubt : disk_lut[s] = lut[s]
        /\ pc = "closed" => \A s \in Slots \ suspect : Intact(disk_lut[s], s, Len(data))

KInv == StepOK /\ KeptOK /\ SameOK

\* While a save is under way nothing was stopped; its slot and those behind are in doubt.
LEMMA UnderWay ==
    ASSUME IInv, KInv, Saving
    PROVE  /\ Sound => stopped = 0
           /\ Doubt = suspect \cup {op.slot} \cup op.behind
           /\ op.save \in 1..Len(sizes) /\ op.slot \in Slots
<1>1. TypeOK /\ OpOK /\ StepOK
  BY DEF IInv, KInv
<1>2. op.save \in 1..Len(sizes) /\ Len(sizes) \in Nat /\ stopped \in Nat /\ op.slot \in Slots
  BY <1>1, Constants DEF OpOK, TypeOK, Saving, Save
<1>3. Sound => stopped = 0
  BY <1>1, <1>2 DEF StepOK, Sound
<1>4. op # NoOp
  <2>1. op.save # 0
    BY <1>2
  <2> QED
    BY <2>1 DEF NoOp
<1> QED
  BY <1>2, <1>3, <1>4 DEF Doubt

\* What was saved last in a slot, and how long it is.
LEMMA LastSaved ==
    ASSUME IInv, KInv, NEW s \in Slots
    PROVE  /\ acked[s] \in 0..Len(sizes)
           /\ acked[s] # 0 => sizes[acked[s]] \in Nat /\ sizes[acked[s]] > 0
<1>1. TypeOK /\ StepOK
  BY DEF IInv, KInv
<1>2. acked[s] \in 0..Len(sizes)
  <2>1. acked[s] \in Nat /\ acked[s] <= Len(sizes) /\ Len(sizes) \in Nat
    BY <1>1, Constants DEF TypeOK, StepOK, Save
  <2> QED
    BY <2>1
<1>3. ASSUME acked[s] # 0
      PROVE  sizes[acked[s]] \in Nat /\ sizes[acked[s]] > 0
  <2>1. acked[s] \in 1..Len(sizes)
    BY <1>1, <1>2, <1>3, Constants DEF TypeOK, Save
  <2> QED
    BY <1>1, <2>1, PayloadType, PayloadPositive
<1> QED
  BY <1>2, <1>3

\* Where a write of a save goes no other block has its sectors, but for those a
\* shift moves.
LEMMA WritesApart ==
    ASSUME IInv, KInv, pc \in {"shift", "append", "pad", "rewrite"}, ~gapped,
           NEW s \in Slots \ {op.slot}, pc = "shift" => s \notin op.behind, Present(lut, s)
    PROVE  /\ pc = "shift" => End(lut, s) * SectorSize <= ShiftTo
           /\ pc = "append" => End(lut, s) * SectorSize <= sectors * SectorSize
           /\ pc = "pad" => End(lut, s) * SectorSize <= sectors * SectorSize + sizes[op.save]
           /\ pc = "rewrite" => \/ End(lut, s) * SectorSize <= RewriteOffset
                                \/ RewriteOffset + sizes[op.save] <= lut[s].index * SectorSize
<1>1. TypeOK /\ OpOK /\ MemoryOK /\ StepOK
  BY DEF IInv, KInv
<1>2. /\ op.save \in 1..Len(sizes) /\ op.slot \in Slots /\ s # op.slot
      /\ sizes[op.save] \in Nat /\ sizes[op.save] > 0
  BY <1>1, UnderWay, PayloadType, PayloadPositive DEF Saving
<1>3. lut \in [Slots -> Info] /\ sectors \in Nat /\ Tight(lut, sectors)
  BY <1>1 DEF TypeOK, MemoryOK
<1>4. /\ End(lut, s) \in Nat /\ End(lut, s) <= sectors /\ lut[s].index \in Nat /\ lut[s].count \in Nat
      /\ End(lut, s) = lut[s].index + lut[s].count /\ lut[s].count > 0
  BY <1>3, TightTold, Sectors DEF Present
<1>5. End(lut, s) * SectorSize <= sectors * SectorSize /\ sectors * SectorSize \in Nat /\ End(lut, s) * SectorSize \in Nat
  BY <1>3, <1>4, Times
<1>6. ASSUME Present(lut, op.slot)
      PROVE  /\ lut[op.slot].index \in Nat /\ lut[op.slot].count \in Nat /\ lut[op.slot].count > 0
             /\ End(lut, op.slot) = lut[op.slot].index + lut[op.slot].count
             /\ End(lut, s) <= lut[op.slot].index \/ End(lut, op.slot) <= lut[s].index
  BY <1>2, <1>3, <1>6, TightTold, Sectors DEF Present
<1>7. CASE pc = "shift"
  <2>1. /\ lut[op.slot] = op.before /\ op.freed > 0 /\ op.freed \in Nat /\ op.freed <= op.before.count
        /\ op.behind = Behind(lut, op.slot) /\ op.before.index \in Nat /\ op.before.count \in Nat
    BY <1>1, <1>7 DEF OpOK, StepOK, TypeOK, Info
  <2>2. Present(lut, op.slot)
    BY <2>1 DEF Present
  <2>3. End(lut, s) <= op.before.index
    <3>1. SUFFICES ASSUME End(lut, op.slot) <= lut[s].index PROVE FALSE
      BY <1>6, <2>1, <2>2
    <3>2. lut[s].index > lut[op.slot].index
      BY <1>4, <1>6, <2>1, <2>2, <3>1
    <3> QED
      BY <1>7, <2>1, <3>2 DEF Behind
  <2>4. End(lut, s) * SectorSize <= op.before.index * SectorSize /\ op.before.index * SectorSize \in Nat
    BY <1>4, <2>1, <2>3, Times
  <2>5. op.before.index * SectorSize <= ShiftTo
    <3>1. op.freed * SectorSize <= op.before.count * SectorSize /\ op.freed * SectorSize \in Nat /\ op.before.count * SectorSize \in Nat
      BY <2>1, Times
    <3>2. (op.before.index + op.before.count) * SectorSize = op.before.index * SectorSize + op.before.count * SectorSize
      BY <2>1, Constants
    <3> QED
      BY <2>4, <3>1, <3>2 DEF ShiftTo, ShiftFrom
  <2>6. ShiftTo \in Nat
    BY <1>1, <2>1, WriteTypes
  <2> QED
    BY <1>5, <1>7, <2>4, <2>5, <2>6
<1>8. CASE pc \in {"append", "pad"}
  BY <1>2, <1>5, <1>8
<1>9. CASE pc = "rewrite"
  <2>1. lut[op.slot].index = op.before.index /\ lut[op.slot].count = SectorsFor(sizes[op.save])
    BY <1>1, <1>9 DEF StepOK
  <2>2. Present(lut, op.slot)
    BY <1>2, <2>1, SectorsHold DEF Present
  <2>3. lut[op.slot].index * SectorSize = RewriteOffset /\ RewriteOffset \in Nat
    BY <1>6, <2>1, <2>2, Product, Constants DEF RewriteOffset
  <2>4. CASE End(lut, s) <= lut[op.slot].index
    <3>1. End(lut, s) * SectorSize <= lut[op.slot].index * SectorSize
      BY <1>4, <1>6, <2>2, <2>4, Times
    <3> QED
      BY <1>9, <2>3, <3>1
  <2>5. CASE End(lut, op.slot) <= lut[s].index
    <3>1. /\ (lut[op.slot].index + lut[op.slot].count) * SectorSize <= lut[s].index * SectorSize
          /\ lut[s].index * SectorSize \in Nat
      BY <1>4, <1>6, <2>2, <2>5, Times
    <3>2. (lut[op.slot].index + lut[op.slot].count) * SectorSize = RewriteOffset + lut[op.slot].count * SectorSize
      BY <1>6, <2>2, <2>3, Constants
    <3>3. sizes[op.save] <= lut[op.slot].count * SectorSize /\ lut[op.slot].count * SectorSize \in Nat
      BY <1>2, <2>1, SectorsHold
    <3>4. RewriteOffset + sizes[op.save] <= lut[s].index * SectorSize
      BY <1>2, <2>3, <3>1, <3>2, <3>3
    <3> QED
      BY <1>9, <3>4
  <2> QED
    BY <1>6, <2>2, <2>4, <2>5
<1> QED
  BY <1>7, <1>8, <1>9

\* What a save writes, or a part of it, harms no such block.
LEMMA BesideKeeps ==
    ASSUME IInv, KInv, ~gapped, NEW s \in Slots \ {op.slot}, pc = "shift" => s \notin op.behind, Intact(lut[s], s, Len(data)),
           NEW p \in Nat, NEW c \in Cells,
           \/ pc = "shift" /\ p = ShiftTo
           \/ pc = "append" /\ p = sectors * SectorSize
           \/ pc = "pad" /\ p = sectors * SectorSize + sizes[op.save]
           \/ pc = "rewrite" /\ p = RewriteOffset /\ Len(c) <= sizes[op.save]
    PROVE  Kept(Written(p, c), Len(Written(p, c)), lut[s], acked[s], sizes[acked[s]], misalign)
<1>1. TypeOK /\ lut \in [Slots -> Info]
  BY DEF IInv, TypeOK
<1>2. acked[s] # 0 => sizes[acked[s]] \in Nat /\ sizes[acked[s]] > 0
  BY LastSaved
<1>3. Present(lut, s) => \/ End(lut, s) * SectorSize <= p
                         \/ p + Len(c) <= lut[s].index * SectorSize
  <2> SUFFICES ASSUME Present(lut, s)
               PROVE  \/ End(lut, s) * SectorSize <= p
                      \/ p + Len(c) <= lut[s].index * SectorSize
    OBVIOUS
  <2>1. CASE pc = "shift" /\ p = ShiftTo
    BY <2>1, WritesApart
  <2>2. CASE pc = "append" /\ p = sectors * SectorSize
    BY <2>2, WritesApart
  <2>3. CASE pc = "pad" /\ p = sectors * SectorSize + sizes[op.save]
    BY <2>3, WritesApart
  <2>4. CASE pc = "rewrite" /\ p = RewriteOffset /\ Len(c) <= sizes[op.save]
    <3>1. \/ End(lut, s) * SectorSize <= RewriteOffset
          \/ RewriteOffset + sizes[op.save] <= lut[s].index * SectorSize
      BY <2>4, WritesApart
    <3>2. Len(c) \in Nat /\ sizes[op.save] \in Nat /\ lut[s].index * SectorSize \in Nat
      <4>1. op.save \in 1..Len(sizes)
        BY <2>4, UnderWay DEF Saving
      <4>2. sizes[op.save] \in Nat
        BY <1>1, <4>1, PayloadType
      <4>3. lut[s].index * SectorSize \in Nat
        BY <1>1, Sectors, Product, Constants
      <4> QED
        BY <4>2, <4>3, LenProperties DEF Cells
    <3>3. ASSUME RewriteOffset + sizes[op.save] <= lut[s].index * SectorSize
          PROVE  p + Len(c) <= lut[s].index * SectorSize
      BY <2>4, <3>2, <3>3
    <3> QED
      BY <2>4, <3>1, <3>3
  <2> QED
    BY <2>1, <2>2, <2>3, <2>4
<1> QED
  BY <1>1, <1>2, <1>3, KeptBeside DEF Intact

\* A call that fails, or a crash: what is in no doubt is kept, in the table the
\* handle still has and in the one on disk.
LEMMA InterruptedKeeps ==
    ASSUME IInv, OInv, KInv, Interrupted, pc # "closed", header' # "none", gapped => torn',
           Sound /\ ~gapped => \A s \in Slots \ Doubt :
              Kept(data', Len(data'), lut[s], acked[s], sizes[acked[s]], misalign),
           ~torn' => \/ disk_lut' = disk_lut /\ ~torn
                     \/ disk_lut' = lut /\ ~gapped
    PROVE  KInv'
<1>1. TypeOK /\ IdleOK /\ StepOK /\ SameOK
  BY DEF IInv, OInv, KInv
<1>2. /\ op' = NoOp /\ suspect' = Doubt /\ stopped' = StoppedAt(op.freed > 0 \/ pc = "create")
      /\ UNCHANGED <<misalign, sizes, acked>>
  BY DEF Interrupted
<1>3. /\ pc' \in {"idle", "closed"} /\ (pc' # "closed" => UNCHANGED <<lut, sectors, gapped>>)
      /\ gapped' \in {gapped, FALSE}
  BY DEF Interrupted, table
<1>4. stopped' \in Nat /\ stopped' <= Len(sizes) + 1 /\ (Sound' => Sound)
  <2>1. Len(sizes) \in Nat /\ stopped \in Nat /\ stopped <= Len(sizes) + 1
    BY <1>1, Constants DEF TypeOK, StepOK, Save
  <2>2. stopped' = IF stopped = 0 /\ (op.freed > 0 \/ pc = "create") THEN Len(sizes) + 1 ELSE stopped
    BY <1>2 DEF StoppedAt
  <2>3. CASE stopped = 0 /\ (op.freed > 0 \/ pc = "create")
    BY <2>1, <2>2, <2>3 DEF Sound
  <2>4. CASE ~ (stopped = 0 /\ (op.freed > 0 \/ pc = "create"))
    BY <1>2, <2>1, <2>2, <2>4 DEF Sound
  <2> QED
    BY <2>3, <2>4
<1>5. StepOK'
  <2>1. gapped' => torn'
    BY <1>3
  <2>2. \A s \in Slots : acked'[s] <= Len(sizes')
    BY <1>1, <1>2 DEF StepOK
  <2> QED
    BY <1>2, <1>3, <1>4, <2>1, <2>2 DEF StepOK, Saving
<1>6. ASSUME Sound', ~gapped', pc' = "idle"
      PROVE  \A s \in Slots \ suspect' : Intact(lut[s], s, Len(data))'
  BY <1>2, <1>3, <1>4, <1>6 DEF Intact
<1>7. KeptOK'
  BY <1>3, <1>6 DEF KeptOK
<1>8. ASSUME Sound', ~torn', NEW s \in Slots \ suspect'
      PROVE  disk_lut'[s] = lut[s] /\ ~gapped
  <2>1. CASE disk_lut' = disk_lut /\ ~torn
    <3>1. disk_lut[s] = lut[s]
      BY <1>1, <1>2, <1>4, <1>8, <2>1 DEF SameOK
    <3> QED
      BY <1>1, <2>1, <3>1 DEF StepOK
  <2>2. CASE disk_lut' = lut /\ ~gapped
    BY <2>2
  <2> QED
    BY <1>8, <2>1, <2>2
<1>9. SameOK'
  <2>1. ASSUME Sound', ~torn', pc' # "closed", NEW s \in Slots \ Doubt'
        PROVE  disk_lut'[s] = lut'[s]
    <3>1. Doubt' = suspect'
      BY <1>2 DEF Doubt
    <3> QED
      BY <1>3, <1>8, <2>1, <3>1
  <2>2. ASSUME Sound', ~torn', pc' = "closed", NEW s \in Slots \ suspect'
        PROVE  Intact(disk_lut[s], s, Len(data))'
    <3>1. disk_lut'[s] = lut[s] /\ ~gapped /\ s \in Slots \ Doubt
      BY <1>2, <1>8, <2>1, <2>2
    <3>2. Kept(data', Len(data'), lut[s], acked[s], sizes[acked[s]], misalign)
      BY <1>4, <2>2, <3>1
    <3> QED
      BY <1>2, <3>1, <3>2 DEF Intact
  <2> QED
    BY <2>1, <2>2 DEF SameOK
<1> QED
  BY <1>5, <1>7, <1>9 DEF KInv

\* What a table of slots behind a shift says of the others.
LEMMA ShrunkElsewhere ==
    ASSUME NEW l, NEW s \in Slots, NEW n, NEW t \in Slots, t # s, t \notin Behind(l, s)
    PROVE  Shrunk(l, s, n)[t] = l[t]
BY DEF Shrunk

\* A failed call or a crash harms no block that is in no doubt.
LEMMA FaultKeeps ==
    ASSUME IInv, OInv, KInv, Fault
    PROVE  KInv'
<1>1. TypeOK /\ OpOK /\ StepOK /\ KeptOK /\ IdleOK
  BY DEF IInv, OInv, KInv
<1>2. data \in Cells /\ op.freed <= op.before.count /\ (gapped => torn) /\ (pc # "closed" => header # "none")
  BY <1>1 DEF TypeOK, OpOK, Cells, StepOK
<1>3. ASSUME Saving
      PROVE  /\ op.save \in 1..Len(sizes) /\ sizes[op.save] \in Nat /\ Payload(op.save) \in Cells
             /\ Len(Payload(op.save)) = sizes[op.save] /\ PadCells \in Cells
             /\ Doubt = suspect \cup {op.slot} \cup op.behind
  <2>1. op.save \in 1..Len(sizes) /\ Doubt = suspect \cup {op.slot} \cup op.behind
    BY <1>3, UnderWay
  <2>2. sizes[op.save] \in Nat /\ Payload(op.save) \in Cells /\ PadCells \in Cells
    BY <1>1, <2>1, PayloadType, PadCellsType
  <2>3. Len(Payload(op.save)) = sizes[op.save]
    BY <2>2 DEF Payload
  <2> QED
    BY <2>1, <2>2, <2>3
<1>4. ASSUME Sound, ~gapped, pc \in {"shift", "append", "pad", "rewrite", "header"}, NEW s \in Slots \ Doubt
      PROVE  Intact(lut[s], s, Len(data))
  BY <1>1, <1>3, <1>4 DEF KeptOK, Saving
<1>5. ASSUME NEW step \in {"shift", "append", "pad", "rewrite"}, NEW p \in Nat, NEW c \in Cells,
             PartialWrite(step, p, c),
             \/ pc = "shift" /\ p = ShiftTo
             \/ pc = "append" /\ p = sectors * SectorSize
             \/ pc = "pad" /\ p = sectors * SectorSize + sizes[op.save]
             \/ pc = "rewrite" /\ p = RewriteOffset /\ Len(c) = sizes[op.save]
      PROVE  KInv'
  <2>1. PICK part \in Parts(c) : /\ data' = Written(p, part)
                                 /\ header' = IF part = <<>> THEN header ELSE "whole"
    BY <1>5 DEF PartialWrite
  <2>2. Interrupted /\ pc = step /\ UNCHANGED <<disk_lut, torn>>
    BY <1>5 DEF PartialWrite
  <2>3. part \in Cells /\ Len(part) <= Len(c)
    BY <2>1, PartsType, PartLength
  <2>4. ASSUME Sound, ~gapped, NEW s \in Slots \ Doubt
        PROVE  Kept(data', Len(data'), lut[s], acked[s], sizes[acked[s]], misalign)
    <3>1. Intact(lut[s], s, Len(data))
      BY <1>4, <2>2, <2>4
    <3>2. \/ pc = "shift" /\ p = ShiftTo
          \/ pc = "append" /\ p = sectors * SectorSize
          \/ pc = "pad" /\ p = sectors * SectorSize + sizes[op.save]
          \/ pc = "rewrite" /\ p = RewriteOffset /\ Len(part) <= sizes[op.save]
      BY <1>5, <2>3
    <3>4. s \in Slots \ {op.slot} /\ s \notin op.behind
      BY <1>3, <2>2, <2>4 DEF Saving
    <3>3. Kept(Written(p, part), Len(Written(p, part)), lut[s], acked[s], sizes[acked[s]], misalign)
      BY <2>3, <2>4, <3>1, <3>2, <3>4, BesideKeeps
    <3> QED
      BY <2>1, <3>3
  <2>5. header' # "none"
    BY <1>2, <2>1, <2>2
  <2> QED
    BY <1>2, <2>2, <2>4, <2>5, InterruptedKeeps
<1>6. CASE PartialWrite("shift", ShiftTo, Rest)
  BY <1>1, <1>2, <1>5, <1>6, WriteTypes DEF PartialWrite
<1>7. CASE PartialWrite("append", sectors * SectorSize, Payload(op.save))
  <2>1. pc = "append"
    BY <1>7 DEF PartialWrite
  <2> QED
    BY <1>1, <1>2, <1>3, <1>5, <1>7, <2>1, WriteTypes DEF Saving
<1>8. CASE PartialWrite("pad", sectors * SectorSize + sizes[op.save], PadCells)
  <2>1. pc = "pad"
    BY <1>8 DEF PartialWrite
  <2>2. sectors * SectorSize + sizes[op.save] \in Nat /\ PadCells \in Cells
    BY <1>1, <1>2, <1>3, <2>1, WriteTypes DEF Saving
  <2> QED
    BY <1>5, <1>8, <2>1, <2>2
<1>9. CASE PartialWrite("rewrite", RewriteOffset, Payload(op.save))
  <2>1. pc = "rewrite"
    BY <1>9 DEF PartialWrite
  <2> QED
    BY <1>1, <1>2, <1>3, <1>5, <1>9, <2>1, WriteTypes DEF Saving
<1>10. CASE NoWrite
  <2>1. Interrupted /\ pc \in {"truncate", "create"} /\ UNCHANGED <<header, disk_lut, data, torn>>
    BY <1>10 DEF NoWrite, disk
  <2>2. ASSUME Sound, ~gapped, NEW s \in Slots \ Doubt
        PROVE  Intact(lut[s], s, Len(data))
    <3>1. CASE pc = "create"
      BY <1>1, <2>2, <3>1 DEF KeptOK, Doubt, IdleOK
    <3>2. CASE pc = "truncate"
      <4>1. s # op.slot /\ s \notin Behind(lut, op.slot) /\ op.slot \in Slots /\ s \notin suspect
        BY <1>1, <1>3, <2>2, <3>2 DEF StepOK, Saving, TypeOK
      <4>2. Shrunk(lut, op.slot, op.freed)[s] = lut[s]
        BY <4>1, ShrunkElsewhere
      <4>3. Intact(lut[s], s, Len(data) - op.freed * SectorSize)
        BY <1>1, <2>2, <3>2, <4>1, <4>2 DEF KeptOK
      <4>4. Len(data) \in Nat /\ op.freed * SectorSize \in Nat /\ lut[s].index * SectorSize \in Nat
        <5>1. op.freed \in Nat /\ lut \in [Slots -> Info] /\ SectorSize \in Nat
          BY <1>1, Constants DEF TypeOK
        <5>2. lut[s].index \in Nat
          BY <5>1, Sectors
        <5> QED
          BY <1>2, <5>1, <5>2, Product, LenProperties DEF Cells
      <4>5. acked[s] # 0 => sizes[acked[s]] \in Nat
        BY LastSaved
      <4>6. acked[s] # 0 /\ Stored(data, Len(data) - op.freed * SectorSize, lut[s].index * SectorSize, acked[s], sizes[acked[s]])
              => lut[s].index * SectorSize + sizes[acked[s]] <= Len(data)
        BY <4>4, <4>5 DEF Stored
      <4> QED
        BY <4>3, <4>6, KeptStays DEF Intact
    <3> QED
      BY <2>1, <3>1, <3>2
  <2>3. Sound /\ ~gapped => \A s \in Slots \ Doubt :
              Kept(data', Len(data'), lut[s], acked[s], sizes[acked[s]], misalign)
    BY <2>1, <2>2 DEF Intact
  <2> QED
    BY <1>2, <2>1, <2>3, InterruptedKeeps
<1>11. CASE PartialHeader
  <2>1. torn' = CASE disk_lut' = lut -> gapped
                  [] disk_lut' # lut /\ disk_lut' = disk_lut -> torn
                  [] OTHER -> TRUE
    BY <1>11 DEF PartialHeader
  <2>2. Interrupted /\ pc = "header" /\ header' = header /\ data' = data
    BY <1>11 DEF PartialHeader
  <2>3. Sound /\ ~gapped => \A s \in Slots \ Doubt :
              Kept(data', Len(data'), lut[s], acked[s], sizes[acked[s]], misalign)
    BY <1>4, <2>2 DEF Intact
  <2>4. CASE disk_lut' = lut
    <3>1. torn' = gapped
      BY <2>1, <2>4
    <3> QED
      BY <1>2, <2>2, <2>3, <2>4, <3>1, InterruptedKeeps
  <2>5. CASE disk_lut' # lut /\ disk_lut' = disk_lut
    <3>1. torn' = torn
      BY <2>1, <2>5
    <3> QED
      BY <1>2, <2>2, <2>3, <2>5, <3>1, InterruptedKeeps
  <2>6. CASE disk_lut' # lut /\ disk_lut' # disk_lut
    <3>1. torn' = TRUE
      BY <2>1, <2>6
    <3> QED
      BY <1>2, <2>2, <2>3, <3>1, InterruptedKeeps
  <2> QED
    BY <2>4, <2>5, <2>6
<1> QED
  BY <1>6, <1>7, <1>8, <1>9, <1>10, <1>11 DEF Fault

\* A new save: what was kept is.
LEMMA BeginKeeps ==
    ASSUME IInv, OInv, KInv, NEW s \in Slots, NEW size \in Sizes, BeginSave(s, size)
    PROVE  KInv'
<1>1. TypeOK /\ OpOK /\ StepOK /\ KeptOK /\ SameOK /\ IdleOK
  BY DEF IInv, OInv, KInv
<1>2. PICK new : new = SectorsFor(size)
  OBVIOUS
<1>3. PICK n : n = CASE new < lut[s].count -> lut[s].count - new
                     [] new > lut[s].count -> lut[s].count
                     [] OTHER -> 0
  OBVIOUS
<1>4. /\ pc = "idle" /\ Len(sizes) < MaxSaves /\ sizes' = Append(sizes, size)
      /\ op' = [slot |-> s, save |-> Len(sizes) + 1, before |-> lut[s], freed |-> n,
                behind |-> IF n = 0 THEN {} ELSE Behind(lut, s)]
      /\ pc' = CASE n > 0 -> "shift" [] new = lut[s].count -> "rewrite" [] OTHER -> "append"
      /\ UNCHANGED <<misalign, header, disk_lut, data, lut, sectors, faults,
                     acked, suspect, torn, gapped, stopped>>
  BY <1>2, <1>3 DEF BeginSave, disk, table, ghost
<1>5. lut[s] \in Info /\ lut[s].count \in Nat
  BY <1>1 DEF TypeOK, Info
<1>6. new \in Nat /\ new > 0
  <2>1. size \in Nat /\ size > 0
    <3>1. size \in Nat \ {0}
      BY Constants
    <3> QED
      BY <3>1
  <2> QED
    BY <1>2, <2>1, SectorsHold
<1>7. /\ n \in Nat /\ n <= lut[s].count
      /\ n = 0 => new = lut[s].count \/ lut[s].count = 0
      /\ n # 0 => n = lut[s].count \/ lut[s].count - n = new
  <2>1. CASE new < lut[s].count
    BY <1>3, <1>5, <1>6, <2>1
  <2>2. CASE new > lut[s].count
    BY <1>3, <1>5, <1>6, <2>2
  <2>3. CASE new = lut[s].count
    BY <1>3, <1>5, <1>6, <2>3
  <2> QED
    BY <1>5, <1>6, <2>1, <2>2, <2>3
<1>8. /\ pc' \in {"shift", "rewrite", "append"}
      /\ pc' = "shift" => n > 0
      /\ pc' = "rewrite" => new = lut[s].count
  <2>1. CASE n > 0
    BY <1>4, <2>1
  <2>2. CASE n = 0 /\ new = lut[s].count
    BY <1>4, <2>2
  <2>3. CASE n = 0 /\ new # lut[s].count
    BY <1>4, <1>7, <2>3
  <2> QED
    BY <1>7, <2>1, <2>2, <2>3
<1>9. sizes \in Seq(Sizes) /\ Len(sizes) \in Nat /\ stopped \in Nat
  BY <1>1, LenProperties DEF TypeOK
<1>10. /\ Len(sizes') = Len(sizes) + 1 /\ sizes'[Len(sizes) + 1] = size
       /\ \A i \in 1..Len(sizes) : sizes'[i] = sizes[i]
  BY <1>4, <1>9, AppendProperties
<1>11. /\ op'.slot = s /\ op'.save = Len(sizes) + 1 /\ op'.before = lut[s] /\ op'.freed = n
       /\ op'.behind = IF n = 0 THEN {} ELSE Behind(lut, s)
  BY <1>4
<1>12. stopped <= Len(sizes) + 1 /\ (Sound' => Sound)
  BY <1>1, <1>4, <1>9, <1>10 DEF StepOK, Sound
<1>13. StepOK'
  <2>1. \A t \in Slots : acked'[t] <= Len(sizes')
    <3>1. ASSUME NEW t \in Slots
          PROVE  acked[t] <= Len(sizes) + 1
      <4>1. acked[t] \in 0..Len(sizes)
        BY LastSaved
      <4> QED
        BY <1>9, <4>1
    <3> QED
      BY <1>4, <1>10, <3>1
  <2>2. (gapped' => torn') /\ header' # "none" /\ pc' # "create" /\ stopped' <= Len(sizes')
    BY <1>1, <1>4, <1>8, <1>9, <1>10, <1>12 DEF StepOK
  <2>3. pc' \in {"shift", "truncate"} =>
         /\ op'.behind = Behind(lut', op'.slot)
         /\ op'.freed = op'.before.count \/ op'.before.count - op'.freed = SectorsFor(sizes'[op'.save])
    BY <1>2, <1>4, <1>7, <1>8, <1>10, <1>11 DEF Behind, Present, End
  <2>4. pc' = "rewrite" => lut'[op'.slot].index = op'.before.index
    BY <1>4, <1>11
  <2>5. pc' \in {"rewrite", "header"} => lut'[op'.slot].count = SectorsFor(sizes'[op'.save])
    BY <1>2, <1>4, <1>8, <1>10, <1>11
  <2>6. stopped' <= Len(sizes') + 1
    BY <1>4, <1>9, <1>10, <1>12
  <2> QED
    BY <2>1, <2>2, <2>3, <2>4, <2>5, <2>6 DEF StepOK, Saving
<1>14. ASSUME Sound', ~gapped', NEW t \in Slots \ suspect
       PROVE  Intact(lut[t], t, Len(data))'
  <2>1. Kept(data, Len(data), lut[t], acked[t], sizes[acked[t]], misalign)
    BY <1>1, <1>4, <1>12, <1>14 DEF KeptOK, Intact
  <2>2. CASE acked[t] = 0
    <3>1. lut[t].count = 0
      BY <2>1, <2>2 DEF Kept
    <3> QED
      BY <1>4, <2>2, <3>1 DEF Intact, Kept
  <2>3. CASE acked[t] # 0
    <3>1. acked[t] \in 0..Len(sizes)
      BY LastSaved
    <3>2. acked[t] \in 1..Len(sizes)
      BY <1>9, <2>3, <3>1
    <3>3. sizes'[acked[t]] = sizes[acked[t]]
      BY <1>10, <3>2
    <3> QED
      BY <1>4, <2>1, <3>3 DEF Intact
  <2> QED
    BY <2>2, <2>3
<1>15. KeptOK'
  BY <1>4, <1>8, <1>14 DEF KeptOK
<1>16. SameOK'
  <2>1. ASSUME Sound', ~torn', NEW t \in Slots \ Doubt'
        PROVE  disk_lut'[t] = lut'[t]
    <3>1. op = NoOp /\ Doubt = suspect
      BY <1>1, <1>4 DEF IdleOK, Doubt
    <3>2. op' # NoOp
      <4>1. op'.save # 0
        BY <1>9, <1>11
      <4> QED
        BY <4>1 DEF NoOp
    <3>3. t \in Slots \ suspect
      BY <1>4, <2>1, <3>2 DEF Doubt
    <3> QED
      BY <1>1, <1>4, <1>12, <2>1, <3>1, <3>3 DEF SameOK
  <2> QED
    BY <1>8, <2>1 DEF SameOK
<1> QED
  BY <1>13, <1>15, <1>16 DEF KInv

\* The offsets of a shift, in cells.
LEMMA ShiftOffsets ==
    ASSUME IInv, pc \in {"shift", "truncate"}
    PROVE  /\ op.slot \in Slots /\ lut[op.slot] = op.before /\ Present(lut, op.slot)
           /\ op.before.index \in Nat /\ op.before.count \in Nat
           /\ op.freed \in Nat /\ op.freed > 0 /\ op.freed <= op.before.count
           /\ End(lut, op.slot) = op.before.index + op.before.count
           /\ op.freed * SectorSize \in Nat /\ ShiftTo \in Nat /\ ShiftFrom = ShiftTo + op.freed * SectorSize
           /\ ShiftFrom = End(lut, op.slot) * SectorSize
<1>1. TypeOK /\ OpOK
  BY DEF IInv
<1>2. /\ lut \in [Slots -> Info] /\ op.slot \in Slots /\ op.before \in Info /\ op.freed \in Nat
      /\ lut[op.slot] = op.before /\ op.freed > 0 /\ op.freed <= op.before.count
  BY <1>1 DEF TypeOK, OpOK
<1>3. op.before.index \in Nat /\ op.before.count \in Nat
  BY <1>2 DEF Info
<1>4. Present(lut, op.slot) /\ End(lut, op.slot) = op.before.index + op.before.count
  BY <1>2, <1>3 DEF Present, End
<1>5. op.freed * SectorSize \in Nat /\ ShiftTo \in Nat
  BY <1>1, <1>2, WriteTypes, Product, Constants
<1>6. ShiftFrom = End(lut, op.slot) * SectorSize /\ ShiftFrom \in Nat
  <2>1. (op.before.index + op.before.count) \in Nat
    BY <1>3
  <2> QED
    BY <1>4, <2>1, Product, Constants DEF ShiftFrom
<1>7. ShiftFrom = ShiftTo + op.freed * SectorSize
  BY <1>5, <1>6 DEF ShiftTo
<1> QED
  BY <1>2, <1>3, <1>4, <1>5, <1>6, <1>7

\* What is read behind the block that shrinks.
LEMMA RestCells ==
    ASSUME IInv, pc = "shift", NEW k \in Nat, k > 0, ShiftFrom + k <= Len(data)
    PROVE  k \in 1..Len(Rest) /\ Rest[k] = data[ShiftFrom + k]
<1>1. data \in Cells /\ Len(data) \in Nat /\ ShiftFrom \in Nat
  BY ShiftOffsets, LenProperties, SMTT(30) DEF IInv, TypeOK, Cells
<1>2. \A i \in (ShiftFrom + 1)..Len(data) : data[i] \in Save \X Nat
  BY <1>1, ElementOfSeq DEF Cells
<1>3. ShiftFrom + 1 <= Len(data)
  BY <1>1
<1>4. /\ Len(Rest) = Len(data) - ShiftFrom
      /\ \A i \in 1..Len(Rest) : Rest[i] = data[ShiftFrom + i]
  <2>1. PICK m \in Nat : m = ShiftFrom + 1
    BY <1>1
  <2>2. /\ Rest = SubSeq(data, m, Len(data)) /\ m <= Len(data)
        /\ \A i \in m..Len(data) : data[i] \in Save \X Nat
    BY <1>2, <1>3, <2>1 DEF Rest
  <2>3. /\ Len(Rest) = (Len(data) - m) + 1
        /\ \A i \in 1..((Len(data) - m) + 1) : Rest[i] = data[m + i - 1]
    BY <1>1, <2>1, <2>2, SubSeqProperties
  <2>4. (Len(data) - m) + 1 = Len(data) - ShiftFrom
    BY <1>1, <2>1
  <2>5. ASSUME NEW i \in 1..Len(Rest)
        PROVE  Rest[i] = data[ShiftFrom + i]
    <3>1. i \in Nat /\ m + i - 1 = ShiftFrom + i /\ i \in 1..((Len(data) - m) + 1)
      BY <1>1, <2>1, <2>3, <2>5
    <3> QED
      BY <2>3, <3>1
  <2> QED
    BY <2>3, <2>4, <2>5
<1> QED
  BY <1>1, <1>4

\* A block behind the one that shrinks is moved down with all it keeps.
LEMMA ShiftMoves ==
    ASSUME IInv, KInv, pc = "shift", ~gapped, NEW s \in Behind(lut, op.slot), s # op.slot, NEW v, NEW n \in Nat,
           Stored(data, Len(data), lut[s].index * SectorSize, v, n)
    PROVE  /\ lut[s].index - op.freed \in Nat
           /\ Stored(Written(ShiftTo, Rest), Len(Written(ShiftTo, Rest)) - op.freed * SectorSize,
                     (lut[s].index - op.freed) * SectorSize, v, n)
<1>1. TypeOK /\ MemoryOK /\ OpOK
  BY DEF IInv
<1>2. data \in Cells /\ Len(data) \in Nat /\ lut \in [Slots -> Info] /\ sectors \in Nat /\ Rest \in Cells
  BY <1>1, WriteTypes, LenProperties DEF TypeOK, Cells, OpOK
<1>3. s \in Slots /\ Present(lut, s) /\ lut[s].index > lut[op.slot].index
  BY DEF Behind
<1>4. lut[s].index \in Nat /\ lut[s].count \in Nat /\ lut[s].count > 0 /\ End(lut, s) = lut[s].index + lut[s].count
  BY <1>2, <1>3, Sectors DEF Present
<1>5. End(lut, op.slot) <= lut[s].index /\ End(lut, op.slot) \in Nat
  <2>1. Tight(lut, sectors)
    BY <1>1 DEF MemoryOK
  <2>2. End(lut, s) <= lut[op.slot].index \/ End(lut, op.slot) <= lut[s].index
    BY <1>2, <1>3, <2>1, TightTold, ShiftOffsets
  <2>3. lut[op.slot].index \in Nat /\ End(lut, op.slot) \in Nat
    BY ShiftOffsets
  <2> QED
    BY <1>3, <1>4, <2>2, <2>3
<1>6. PICK old \in Nat : lut[s].index = op.freed + old
  <2>1. op.freed \in Nat /\ op.freed <= End(lut, op.slot)
    BY ShiftOffsets
  <2>2. lut[s].index - op.freed \in Nat /\ lut[s].index = op.freed + (lut[s].index - op.freed)
    BY <1>4, <1>5, <2>1
  <2> QED
    BY <2>2
<1>7. PICK F, x \in Nat : F = op.freed * SectorSize /\ x = old * SectorSize /\ lut[s].index * SectorSize = F + x
  <2>1. (op.freed + old) * SectorSize = op.freed * SectorSize + old * SectorSize
    BY Constants, ShiftOffsets
  <2> QED
    BY <1>6, <2>1, Product, Constants, ShiftOffsets
<1>8. ShiftFrom <= F + x /\ ShiftFrom = ShiftTo + F /\ ShiftTo \in Nat
  <2>1. End(lut, op.slot) * SectorSize <= lut[s].index * SectorSize
    BY <1>4, <1>5, Times
  <2> QED
    BY <1>7, <2>1, ShiftOffsets
<1>9. PICK q \in Nat : x = ShiftTo + q
  <2>1. x - ShiftTo \in Nat /\ x = ShiftTo + (x - ShiftTo)
    BY <1>7, <1>8
  <2> QED
    BY <2>1
<1>10. F + x + n <= Len(data) /\ \A i \in 1..n : data[F + x + i] = <<v, i>>
  BY <1>7 DEF Stored
<1>11. Len(Written(ShiftTo, Rest)) \in Nat /\ Len(data) <= Len(Written(ShiftTo, Rest))
  BY <1>2, <1>8, WrittenGrows
<1>12. x + n <= Len(Written(ShiftTo, Rest)) - F
  BY <1>2, <1>7, <1>10, <1>11
<1>13. ASSUME NEW i \in 1..n
       PROVE  Written(ShiftTo, Rest)[x + i] = <<v, i>>
  <2>1. i \in Nat /\ 1 <= i /\ i <= n
    OBVIOUS
  <2>2. PICK k \in Nat : k = q + i
    BY <2>1
  <2>3. k > 0 /\ ShiftFrom + k = F + x + i /\ ShiftTo + k = x + i /\ F + x + i <= Len(data)
    <3>1. k > 0 /\ ShiftTo + k = x + i /\ ShiftTo + F + k = F + x + i
      <4>1. F \in Nat /\ x \in Nat /\ ShiftTo \in Nat /\ x = ShiftTo + q /\ i \in Nat /\ i >= 1 /\ k = q + i
        BY <1>7, <1>8, <1>9, <2>1, <2>2
      <4> QED
        BY <4>1
    <3>2. F + x + i <= Len(data)
      BY <1>2, <1>7, <1>10, <2>1
    <3> QED
      BY <1>8, <3>1, <3>2
  <2>4. k \in 1..Len(Rest) /\ Rest[k] = data[ShiftFrom + k]
    BY <2>2, <2>3, RestCells
  <2>5. Written(ShiftTo, Rest)[ShiftTo + k] = Rest[k]
    BY <1>2, <1>8, <2>4, WrittenCells
  <2> QED
    BY <1>10, <2>3, <2>4, <2>5
<1>14. lut[s].index - op.freed = old
  BY <1>6, ShiftOffsets
<1> QED
  BY <1>7, <1>12, <1>13, <1>14 DEF Stored

\* A block before the one that shrinks ends before what will be cut off.
LEMMA ShiftLeaves ==
    ASSUME IInv, OInv, KInv, pc = "shift", Sound, ~gapped,
           NEW s \in Slots \ Doubt, NEW n \in Nat, n > 0, Clear(n, misalign), n <= lut[s].count * SectorSize
    PROVE  lut[s].index * SectorSize + n <= Len(data) - op.freed * SectorSize
<1>1. TypeOK /\ MemoryOK /\ LengthOK /\ stopped = 0 /\ Doubt = suspect \cup {op.slot} \cup op.behind
  BY UnderWay DEF IInv, OInv, Saving
<1>2. lut \in [Slots -> Info] /\ sectors \in Nat /\ data \in Cells /\ Len(data) \in Nat
  BY <1>1, LenProperties DEF TypeOK, Cells
<1>3. op.behind = Behind(lut, op.slot) /\ s # op.slot /\ s \notin op.behind
  BY <1>1 DEF KInv, StepOK
<1>4. lut[s].index \in Nat /\ lut[s].count \in Nat /\ End(lut, s) = lut[s].index + lut[s].count
  BY <1>2, Sectors
<1>5. lut[s].count > 0 /\ n + misalign <= lut[s].count * SectorSize /\ misalign \in Nat
  BY <1>1, <1>4, ClearFits, Slack
<1>6. Present(lut, s)
  BY <1>5 DEF Present
<1>7. /\ Tight(lut, sectors) /\ Reaches(Len(data), sectors, misalign)
  BY <1>1 DEF MemoryOK, LengthOK
<1>8. End(lut, op.slot) <= sectors /\ End(lut, op.slot) \in Nat
  BY <1>2, <1>7, TightTold, ShiftOffsets
<1>9. End(lut, s) + op.freed <= sectors
  <2>1. End(lut, s) <= lut[op.slot].index \/ End(lut, op.slot) <= lut[s].index
    BY <1>2, <1>3, <1>6, <1>7, TightTold, ShiftOffsets
  <2>2. lut[op.slot] = op.before /\ op.before.index \in Nat /\ op.before.count \in Nat /\ op.before.count > 0
    BY ShiftOffsets
  <2>3. End(lut, op.slot) = op.before.index + op.before.count /\ op.freed <= op.before.count /\ op.freed \in Nat
    BY ShiftOffsets
  <2>4. lut[s].index <= op.before.index
    BY <1>3, <1>4, <1>6, <2>2 DEF Behind
  <2>5. End(lut, s) <= op.before.index
    BY <1>4, <2>1, <2>2, <2>3, <2>4
  <2> QED
    BY <1>2, <1>4, <1>8, <2>2, <2>3, <2>5, SMTT(30)
<1>10. PICK x, y, f \in Nat : /\ x = lut[s].index * SectorSize /\ y = lut[s].count * SectorSize
                              /\ f = op.freed * SectorSize /\ (End(lut, s) + op.freed) * SectorSize = x + y + f
  <2>1. op.freed \in Nat /\ SectorSize \in Nat
    BY ShiftOffsets, Constants
  <2>2. (lut[s].index + lut[s].count + op.freed) * SectorSize
          = lut[s].index * SectorSize + lut[s].count * SectorSize + op.freed * SectorSize
    BY <1>4, <2>1
  <2> QED
    BY <1>4, <2>1, <2>2, Product
<1>11. x + y + f <= sectors * SectorSize /\ sectors * SectorSize \in Nat
  <2>1. End(lut, s) + op.freed \in Nat
    BY <1>4, ShiftOffsets
  <2> QED
    BY <1>2, <1>9, <1>10, <2>1, Times
<1>12. sectors * SectorSize - misalign <= Len(data)
  <2>1. sectors # 0
    BY <1>4, <1>5, <1>9, ShiftOffsets
  <2> QED
    BY <1>7, <2>1 DEF Reaches
<1>13. PICK w \in Nat : w = sectors * SectorSize
  BY <1>11
<1>14. n + misalign <= y /\ x + y + f <= w /\ w - misalign <= Len(data)
  BY <1>5, <1>10, <1>11, <1>12, <1>13
<1>15. x + n <= Len(data) - f
  BY <1>2, <1>5, <1>14
<1> QED
  BY <1>10, <1>15

\* The shift: before the cut every other block is kept where the table will say.
LEMMA ShiftKeeps ==
    ASSUME IInv, OInv, KInv, Shift
    PROVE  KInv'
<1>1. TypeOK /\ OpOK /\ StepOK /\ KeptOK /\ SameOK
  BY DEF IInv, KInv
<1>2. /\ pc = "shift" /\ pc' = "truncate" /\ data' = Written(ShiftTo, Rest)
      /\ UNCHANGED <<misalign, header, disk_lut, lut, sectors, op, sizes, faults,
                     acked, suspect, torn, gapped, stopped>>
  BY DEF Shift, table, ghost
<1>3. Doubt = suspect \cup {op.slot} \cup op.behind /\ op.slot \in Slots /\ op.behind = Behind(lut, op.slot)
  BY <1>1, <1>2, UnderWay DEF Saving, StepOK
<1>4. /\ Sound' = Sound /\ Doubt' = Doubt /\ Behind(lut', op'.slot) = Behind(lut, op.slot)
      /\ Shrunk(lut', op'.slot, op'.freed) = Shrunk(lut, op.slot, op.freed)
  BY <1>2 DEF Sound, Doubt
<1>5. StepOK'
  BY <1>1, <1>2, <1>3, <1>4 DEF StepOK, Saving
<1>6. SameOK'
  BY <1>1, <1>2, <1>4 DEF SameOK
<1>7. /\ data \in Cells /\ Len(data) \in Nat /\ Rest \in Cells /\ ShiftTo \in Nat /\ op.freed * SectorSize \in Nat
      /\ lut \in [Slots -> Info] /\ Len(data') \in Nat /\ Len(data) <= Len(data')
  <2>1. data \in Cells /\ Len(data) \in Nat /\ Rest \in Cells /\ ShiftTo \in Nat /\ lut \in [Slots -> Info]
    BY <1>1, WriteTypes, LenProperties DEF TypeOK, Cells, OpOK
  <2> QED
    BY <1>2, <2>1, WrittenGrows, ShiftOffsets
<1>8. ASSUME Sound, ~gapped, NEW s \in Slots \ (suspect \cup {op.slot})
      PROVE  Kept(data', Len(data') - op.freed * SectorSize, Shrunk(lut, op.slot, op.freed)[s],
                  acked[s], sizes[acked[s]], misalign)
  <2>1. PICK n : n = sizes[acked[s]]
    OBVIOUS
  <2>2. Kept(data, Len(data), lut[s], acked[s], n, misalign)
    BY <1>1, <1>2, <1>8, <2>1 DEF KeptOK, Intact
  <2>3. acked[s] # 0 => n \in Nat /\ n > 0
    BY <2>1, LastSaved
  <2>4. CASE s \in Behind(lut, op.slot)
    <3>1. PICK d : d = [lut[s] EXCEPT !.index = @ - op.freed]
      OBVIOUS
    <3>2. Shrunk(lut, op.slot, op.freed)[s] = d
      BY <1>8, <2>4, <3>1 DEF Shrunk
    <3>3. d.index = lut[s].index - op.freed /\ d.count = lut[s].count /\ lut[s].count > 0
      <4>1. lut[s] \in Info /\ Present(lut, s)
        BY <1>7, <2>4 DEF Behind
      <4> QED
        BY <3>1, <4>1 DEF Info, Present
    <3>4. acked[s] # 0
      BY <2>2, <3>3 DEF Kept
    <3>5. ASSUME Clear(n, misalign)
          PROVE  /\ n <= d.count * SectorSize
                 /\ Stored(data', Len(data') - op.freed * SectorSize, d.index * SectorSize, acked[s], n)
      <4>1. n <= lut[s].count * SectorSize /\ Stored(data, Len(data), lut[s].index * SectorSize, acked[s], n)
        BY <2>2, <3>4, <3>5 DEF Kept
      <4>2. Stored(data', Len(data') - op.freed * SectorSize, (lut[s].index - op.freed) * SectorSize, acked[s], n)
        BY <1>2, <1>8, <2>3, <2>4, <3>4, <4>1, ShiftMoves
      <4> QED
        BY <3>3, <4>1, <4>2
    <3> QED
      BY <2>1, <3>2, <3>4, <3>5 DEF Kept
  <2>5. CASE s \notin Behind(lut, op.slot)
    <3>1. Shrunk(lut, op.slot, op.freed)[s] = lut[s] /\ s \in Slots \ Doubt
      BY <1>3, <1>8, <2>5, ShrunkElsewhere
    <3>2. ASSUME acked[s] # 0, Clear(n, misalign), n <= lut[s].count * SectorSize,
                 Stored(data, Len(data), lut[s].index * SectorSize, acked[s], n)
          PROVE  /\ lut[s].index * SectorSize + n <= Len(data') - op.freed * SectorSize
                 /\ \A i \in 1..n : data'[lut[s].index * SectorSize + i] = data[lut[s].index * SectorSize + i]
      <4>1. PICK x \in Nat : x = lut[s].index * SectorSize
        BY <1>7, Sectors, Product, Constants
      <4>2. x + n <= Len(data) - op.freed * SectorSize
        BY <1>2, <1>8, <2>3, <3>1, <3>2, <4>1, ShiftLeaves
      <4>3. x + n <= Len(data') - op.freed * SectorSize /\ x + n <= Len(data)
        BY <1>7, <2>3, <3>2, <4>2
      <4>4. Present(lut, s)
        BY <1>1, <1>7, <2>3, <3>2, ClearFits, Slack, Sectors DEF Present
      <4>5. End(lut, s) * SectorSize <= ShiftTo
        BY <1>2, <1>3, <1>8, <3>1, <4>4, WritesApart
      <4>6. x + n <= End(lut, s) * SectorSize
        <5>1. lut[s].index \in Nat /\ lut[s].count \in Nat /\ End(lut, s) = lut[s].index + lut[s].count
          BY <1>7, Sectors
        <5>2. End(lut, s) * SectorSize = x + lut[s].count * SectorSize /\ lut[s].count * SectorSize \in Nat
          BY <4>1, <5>1, Constants, Product
        <5> QED
          BY <2>3, <3>2, <4>1, <5>2
      <4>7. ASSUME NEW i \in 1..n
            PROVE  data'[x + i] = data[x + i]
        <5>1. End(lut, s) * SectorSize \in Nat
          BY <1>7, Sectors, Product, Constants
        <5>2. x + i \in 1..Len(data) /\ x + i <= ShiftTo
          BY <1>7, <2>3, <3>2, <4>3, <4>5, <4>6, <5>1
        <5> QED
          BY <1>2, <1>7, <5>2, WrittenCells
      <4> QED
        BY <4>1, <4>3, <4>7
    <3>3. Kept(data', Len(data') - op.freed * SectorSize, lut[s], acked[s], n, misalign)
      BY <2>2, <3>2, KeptStays
    <3> QED
      BY <2>1, <3>1, <3>3
  <2> QED
    BY <2>4, <2>5
<1>9. KeptOK'
  BY <1>2, <1>4, <1>8 DEF KeptOK, Intact
<1> QED
  BY <1>5, <1>6, <1>9 DEF KInv

\* The cut: what stands before it stays.
LEMMA TruncateKeeps ==
    ASSUME IInv, OInv, KInv, Truncate
    PROVE  KInv'
<1>1. TypeOK /\ OpOK /\ MemoryOK /\ StepOK /\ KeptOK /\ SameOK /\ pc = "truncate"
  BY DEF IInv, KInv, Truncate
<1>2. PICK length : length = Len(data) - op.freed * SectorSize
  OBVIOUS
<1>3. PICK new : new = Shrunk(lut, op.slot, op.freed)
  OBVIOUS
<1>4. PICK end : end = op.before.index + op.before.count
  OBVIOUS
<1>5. /\ data' = SubSeq(data, 1, length)
      /\ header' = IF length < 0 THEN "cut" ELSE header
      /\ disk_lut' = [s \in Slots |-> IF s > SlotCount + length THEN Empty ELSE disk_lut[s]]
      /\ torn' = (torn \/ length < 0)
      /\ UNCHANGED <<misalign, sizes, faults, acked, gapped>>
  BY <1>2 DEF Truncate
<1>6. \/ /\ lut' = new
         /\ pc' = IF new[op.slot].count = 0 THEN "append" ELSE "rewrite"
         /\ UNCHANGED <<op, suspect, stopped>>
      \/ ((\E s \in Slots : new[s].index < 0) \/ end > sectors) /\ Abort
  BY <1>3, <1>4 DEF Truncate
<1>7. /\ op.slot \in Slots /\ lut[op.slot] = op.before /\ op.freed \in Nat /\ op.freed > 0 /\ op.freed <= op.before.count
      /\ end = End(lut, op.slot) /\ op.before.count \in Nat /\ lut \in [Slots -> Info] /\ sectors \in Nat
      /\ op.freed * SectorSize \in Nat
  BY <1>1, <1>4, ShiftOffsets DEF TypeOK
<1>8. data \in Cells /\ Len(data) \in Nat /\ length \in Int /\ Len(sizes) \in Nat /\ stopped \in Nat
  BY <1>1, <1>2, <1>7, LenProperties DEF TypeOK, Cells
<1>9. header' # "none"
  BY <1>1, <1>5 DEF StepOK
<1>10. CASE Abort
  <2>1. pc' = "idle" /\ stopped' = StoppedAt(op.freed > 0)
    BY <1>10 DEF Abort
  <2>2. gapped
    <3> SUFFICES ASSUME ~gapped, (\E s \in Slots : new[s].index < 0) \/ end > sectors PROVE FALSE
      <4>1. CASE (\E s \in Slots : new[s].index < 0) \/ end > sectors
        BY <4>1
      <4>2. CASE pc' = IF new[op.slot].count = 0 THEN "append" ELSE "rewrite"
        BY <2>1, <4>2
      <4> QED
        BY <1>6, <4>1, <4>2
    <3>1. Tight(lut, sectors)
      BY <1>1 DEF MemoryOK
    <3>2. new \in [Slots -> Info] /\ end <= sectors
      BY <1>3, <1>7, <3>1, ShrinkTight
    <3>3. end \in Nat /\ \A s \in Slots : new[s].index \in Nat
      BY <1>7, <3>2, Sectors
    <3> QED
      BY <1>7, <3>2, <3>3
  <2>3. torn' /\ gapped'
    BY <1>1, <1>5, <2>2 DEF StepOK
  <2>4. stopped' <= Len(sizes) + 1
    <3>1. stopped' \in {stopped, Len(sizes) + 1} /\ stopped <= Len(sizes) + 1
      BY <1>1, <2>1 DEF StoppedAt, StepOK
    <3> QED
      BY <1>8, <3>1
  <2>5. StepOK'
    BY <1>1, <1>5, <1>9, <2>1, <2>3, <2>4 DEF StepOK, Saving
  <2>6. KeptOK' /\ SameOK'
    BY <2>3 DEF KeptOK, SameOK
  <2> QED
    BY <2>5, <2>6 DEF KInv
<1>11. CASE /\ lut' = new
            /\ pc' = IF new[op.slot].count = 0 THEN "append" ELSE "rewrite"
            /\ UNCHANGED <<op, suspect, stopped>>
  <2>1. pc' \in {"append", "rewrite"} /\ Sound' = Sound /\ Doubt' = Doubt
    BY <1>5, <1>11 DEF Sound, Doubt
  <2>2. Doubt = suspect \cup {op.slot} \cup op.behind /\ op.behind = Behind(lut, op.slot)
    BY <1>1, UnderWay DEF Saving, StepOK
  <2>3. StepOK'
    <3>1. stopped' <= Len(sizes')
      BY <1>1, <1>5, <1>11 DEF StepOK, Saving
    <3>2. stopped' <= Len(sizes') + 1 /\ \A s \in Slots : acked'[s] <= Len(sizes')
      BY <1>1, <1>5, <1>11 DEF StepOK
    <3>3. gapped' => torn'
      BY <1>1, <1>5 DEF StepOK
    <3>4. ASSUME pc' = "rewrite"
          PROVE  lut'[op.slot].index = op.before.index /\ lut'[op.slot].count = SectorsFor(sizes[op.save])
      <4>1. new[op.slot].count # 0
        BY <1>11, <3>4
      <4>2. new[op.slot] = IF lut[op.slot].count = op.freed THEN Empty ELSE [lut[op.slot] EXCEPT !.count = @ - op.freed]
        <5>1. op.slot \notin Behind(lut, op.slot)
          BY <1>7, Sectors DEF Behind
        <5> QED
          BY <1>3, <1>7, <5>1 DEF Shrunk
      <4>3. lut[op.slot].count # op.freed
        BY <4>1, <4>2 DEF Empty
      <4>4. lut[op.slot] \in Info
        BY <1>7
      <4>5. new[op.slot].index = lut[op.slot].index /\ new[op.slot].count = lut[op.slot].count - op.freed
        BY <4>2, <4>3, <4>4 DEF Info
      <4>6. op.before.count - op.freed = SectorsFor(sizes[op.save])
        BY <1>1, <1>7, <4>3 DEF StepOK
      <4> QED
        BY <1>7, <1>11, <4>5, <4>6
    <3> QED
      BY <1>5, <1>9, <1>11, <2>1, <3>1, <3>2, <3>3, <3>4 DEF StepOK
  <2>4. ASSUME Sound, ~gapped, NEW s \in Slots \ (suspect \cup {op.slot})
        PROVE  Kept(data', Len(data'), new[s], acked[s], sizes[acked[s]], misalign)
    <3>1. PICK n : n = sizes[acked[s]]
      OBVIOUS
    <3>2. Kept(data, length, new[s], acked[s], n, misalign)
      BY <1>1, <1>2, <1>3, <2>4, <3>1 DEF KeptOK, Intact
    <3>3. acked[s] # 0 => n \in Nat /\ n > 0
      BY <3>1, LastSaved
    <3>4. ASSUME acked[s] # 0, Stored(data, length, new[s].index * SectorSize, acked[s], n)
          PROVE  /\ new[s].index * SectorSize + n <= Len(data')
                 /\ \A i \in 1..n : data'[new[s].index * SectorSize + i] = data[new[s].index * SectorSize + i]
      <4>1. PICK x \in Nat : x = new[s].index * SectorSize
        <5>1. Tight(lut, sectors)
          BY <1>1, <2>4 DEF MemoryOK
        <5>2. new \in [Slots -> Info]
          BY <1>3, <1>7, <5>1, ShrinkTight
        <5> QED
          BY <5>2, Sectors, Product, Constants
      <4>2. x + n <= length /\ length \in Nat /\ length > 0 /\ length <= Len(data)
        BY <1>2, <1>7, <1>8, <3>3, <3>4, <4>1, SMTT(30) DEF Stored
      <4>3. Len(data') = length /\ \A i \in 1..length : data'[i] = data[i]
        <5>1. \A i \in 1..length : data[i] \in Save \X Nat
          BY <1>8, <4>2, ElementOfSeq DEF Cells
        <5>2. Len(data') = (length - 1) + 1 /\ \A i \in 1..((length - 1) + 1) : data'[i] = data[1 + i - 1]
          BY <1>5, <4>2, <5>1, SubSeqProperties
        <5>3. (length - 1) + 1 = length /\ \A i \in 1..length : 1 + i - 1 = i
          BY <4>2
        <5> QED
          BY <5>2, <5>3
      <4>4. \A i \in 1..n : x + i \in 1..length
        BY <3>3, <3>4, <4>2
      <4> QED
        BY <4>1, <4>2, <4>3, <4>4
    <3> QED
      BY <3>1, <3>2, <3>4, KeptStays
  <2>5. KeptOK'
    BY <1>5, <1>11, <2>1, <2>4 DEF KeptOK, Intact
  <2>6. ASSUME Sound, ~torn', NEW s \in Slots \ Doubt
        PROVE  disk_lut'[s] = lut'[s]
    <3>1. ~torn /\ length >= 0
      <4>1. ~(torn \/ length < 0)
        BY <1>5, <2>6
      <4>2. ~torn /\ ~(length < 0)
        BY <4>1
      <4> QED
        BY <1>8, <4>2
    <3>2. disk_lut'[s] = disk_lut[s]
      <4>1. s \in 1..SlotCount /\ SlotCount \in Nat
        BY Constants DEF Slots
      <4>2. ~ (s > SlotCount + length)
        BY <1>8, <3>1, <4>1
      <4> QED
        BY <1>5, <4>2
    <3>3. new[s] = lut[s]
      BY <1>3, <1>7, <2>2, ShrunkElsewhere
    <3> QED
      BY <1>1, <1>11, <2>6, <3>1, <3>2, <3>3 DEF SameOK
  <2>7. SameOK'
    BY <2>1, <2>6 DEF SameOK
  <2> QED
    BY <2>3, <2>5, <2>7 DEF KInv
<1> QED
  BY <1>6, <1>10, <1>11

\* A save writes its payload, at the end of the sectors or over the old one.
LEMMA PayloadKeeps ==
    ASSUME IInv, OInv, KInv, WritePayload \/ Rewrite
    PROVE  KInv'
<1>1. TypeOK /\ OpOK /\ StepOK /\ KeptOK /\ SameOK
  BY DEF IInv, KInv
<1>2. /\ pc \in {"append", "rewrite"} /\ header' \in {"whole", header}
      /\ UNCHANGED <<misalign, disk_lut, lut, sectors, op, sizes, faults, acked, suspect, torn, gapped, stopped>>
  BY DEF WritePayload, Rewrite, table, ghost
<1>3. op.save \in 1..Len(sizes) /\ op.slot \in Slots /\ Payload(op.save) \in Cells /\ sizes[op.save] \in Nat
  BY <1>1, <1>2, UnderWay, PayloadType DEF Saving
<1>4. PICK p : p = IF pc = "append" THEN sectors * SectorSize ELSE RewriteOffset
  OBVIOUS
<1>5. p \in Nat
  BY <1>1, <1>4, WriteTypes DEF OpOK
<1>6. data' = Written(p, Payload(op.save)) /\ pc' = IF pc = "append" THEN "pad" ELSE "header"
  BY <1>4 DEF WritePayload, Rewrite
<1>7. Sound' = Sound /\ Doubt' = Doubt
  BY <1>2 DEF Sound, Doubt
<1>8. StepOK'
  <2>1. header' # "none"
    BY <1>1, <1>2 DEF StepOK
  <2>2. pc \in {"rewrite", "append"} /\ pc' \in {"pad", "header"} /\ (pc' = "header" => pc = "rewrite")
    BY <1>2, <1>6
  <2> QED
    BY <1>1, <1>2, <2>1, <2>2 DEF StepOK, Saving
<1>9. SameOK'
  BY <1>1, <1>2, <1>6, <1>7 DEF SameOK
<1>10. ASSUME Sound, ~gapped, NEW s \in Slots \ (suspect \cup {op.slot})
       PROVE  Kept(data', Len(data'), lut[s], acked[s], sizes[acked[s]], misalign)
  <2>1. Intact(lut[s], s, Len(data))
    BY <1>1, <1>2, <1>10 DEF KeptOK
  <2>2. Len(Payload(op.save)) = sizes[op.save]
    BY <1>3 DEF Payload
  <2>3. \/ pc = "append" /\ p = sectors * SectorSize
        \/ pc = "rewrite" /\ p = RewriteOffset /\ Len(Payload(op.save)) <= sizes[op.save]
    BY <1>2, <1>3, <1>4, <2>2
  <2>4. Kept(Written(p, Payload(op.save)), Len(Written(p, Payload(op.save))), lut[s], acked[s], sizes[acked[s]], misalign)
    BY <1>2, <1>3, <1>5, <1>10, <2>1, <2>3, BesideKeeps
  <2> QED
    BY <1>6, <2>4
<1>11. Stored(data', Len(data'), p, op.save, sizes[op.save])
  BY <1>1, <1>3, <1>5, <1>6, StoredThere
<1>12. /\ pc' = "pad" => p = sectors * SectorSize
       /\ pc' = "header" => p = lut[op.slot].index * SectorSize
  BY <1>1, <1>2, <1>4, <1>6 DEF StepOK, RewriteOffset
<1>13. KeptOK'
  BY <1>2, <1>6, <1>7, <1>10, <1>11, <1>12 DEF KeptOK, Intact
<1> QED
  BY <1>8, <1>9, <1>13 DEF KInv

\* Padding, and the entry of the appended block.
LEMMA PadKeeps ==
    ASSUME IInv, OInv, KInv, Pad
    PROVE  KInv'
<1>1. TypeOK /\ OpOK /\ StepOK /\ KeptOK /\ SameOK /\ pc = "pad"
  BY DEF IInv, KInv, Pad
<1>2. PICK n : n = SectorsFor(sizes[op.save])
  OBVIOUS
<1>3. PICK p : p = sectors * SectorSize + sizes[op.save]
  OBVIOUS
<1>4. /\ data' = Written(p, PadCells)
      /\ \/ /\ lut' = [lut EXCEPT ![op.slot] = [index |-> sectors, count |-> n]]
            /\ pc' = "header"
            /\ UNCHANGED <<op, suspect, stopped>>
         \/ Abort /\ UNCHANGED <<lut, sectors>>
      /\ UNCHANGED <<misalign, header, disk_lut, sizes, faults, acked, torn, gapped>>
  BY <1>2, <1>3 DEF Pad, table
<1>5. /\ op.save \in 1..Len(sizes) /\ op.slot \in Slots /\ PadCells \in Cells
      /\ sizes[op.save] \in Nat /\ sizes[op.save] > 0 /\ n \in Nat
      /\ lut \in [Slots -> Info] /\ sectors * SectorSize \in Nat /\ Len(sizes) \in Nat /\ stopped \in Nat
      /\ Doubt = suspect \cup {op.slot} \cup op.behind
  <2>1. op.save \in 1..Len(sizes) /\ op.slot \in Slots /\ Doubt = suspect \cup {op.slot} \cup op.behind
    BY <1>1, UnderWay DEF Saving
  <2>2. PadCells \in Cells /\ sizes[op.save] \in Nat /\ sizes[op.save] > 0 /\ n \in Nat
    BY <1>1, <1>2, <2>1, PadCellsType, PayloadType, PayloadPositive
  <2> QED
    BY <1>1, <2>1, <2>2, WriteTypes, LenProperties DEF TypeOK, OpOK
<1>6. p \in Nat
  BY <1>3, <1>5
<1>7. ASSUME Sound, ~gapped, NEW s \in Slots \ (suspect \cup {op.slot})
      PROVE  Kept(data', Len(data'), lut[s], acked[s], sizes[acked[s]], misalign)
  <2>1. Intact(lut[s], s, Len(data))
    BY <1>1, <1>7 DEF KeptOK
  <2>2. Kept(Written(p, PadCells), Len(Written(p, PadCells)), lut[s], acked[s], sizes[acked[s]], misalign)
    BY <1>1, <1>3, <1>5, <1>6, <1>7, <2>1, BesideKeeps
  <2> QED
    BY <1>4, <2>2
<1>8. header' # "none" /\ (gapped' => torn')
  BY <1>1, <1>4 DEF StepOK
<1>9. CASE /\ lut' = [lut EXCEPT ![op.slot] = [index |-> sectors, count |-> n]]
           /\ pc' = "header"
           /\ UNCHANGED <<op, suspect, stopped>>
  <2>1. Sound' = Sound /\ Doubt' = Doubt
    BY <1>4, <1>9 DEF Sound, Doubt
  <2>2. /\ lut'[op.slot] = [index |-> sectors, count |-> n]
        /\ \A s \in Slots \ {op.slot} : lut'[s] = lut[s]
    BY <1>5, <1>9
  <2>3. StepOK'
    BY <1>1, <1>2, <1>4, <1>8, <1>9, <2>2 DEF StepOK, Saving
  <2>4. ASSUME Sound, ~gapped
        PROVE  Stored(data', Len(data'), sectors * SectorSize, op.save, sizes[op.save])
    <3>1. Stored(data, Len(data), sectors * SectorSize, op.save, sizes[op.save])
      BY <1>1, <2>4 DEF KeptOK
    <3>2. sectors * SectorSize + sizes[op.save] <= p
      BY <1>3, <1>6
    <3> QED
      BY <1>1, <1>4, <1>5, <1>6, <3>1, <3>2, StoredBefore
  <2>5. KeptOK'
    <3>1. ASSUME Sound', ~gapped', NEW s \in Slots \ (suspect' \cup {op'.slot})
          PROVE  Intact(lut[s], s, Len(data))'
      BY <1>4, <1>7, <1>9, <2>1, <2>2, <3>1 DEF Intact
    <3>2. Sound' /\ ~gapped' => Stored(data', Len(data'), lut'[op'.slot].index * SectorSize, op'.save, sizes'[op'.save])
      BY <1>4, <1>9, <2>1, <2>2, <2>4
    <3> QED
      BY <1>9, <3>1, <3>2 DEF KeptOK
  <2>6. SameOK'
    <3>1. ASSUME Sound, ~torn, NEW s \in Slots \ Doubt
          PROVE  disk_lut[s] = lut'[s]
      BY <1>1, <1>5, <2>2, <3>1 DEF SameOK
    <3> QED
      BY <1>4, <1>9, <2>1, <3>1 DEF SameOK
  <2> QED
    BY <2>3, <2>5, <2>6 DEF KInv
<1>10. CASE Abort /\ UNCHANGED <<lut, sectors>>
  <2>1. /\ pc' = "idle" /\ op' = NoOp /\ suspect' = Doubt /\ stopped' = StoppedAt(op.freed > 0)
        /\ lut' = lut
    BY <1>10 DEF Abort
  <2>2. stopped' \in {stopped, Len(sizes) + 1} /\ (stopped' = stopped \/ stopped = 0)
    BY <2>1 DEF StoppedAt
  <2>3. stopped' <= Len(sizes') + 1 /\ (Sound' => Sound)
    <3>1. stopped <= Len(sizes) + 1
      BY <1>1 DEF StepOK
    <3> QED
      BY <1>4, <1>5, <2>2, <3>1 DEF Sound
  <2>4. StepOK'
    BY <1>1, <1>4, <1>8, <2>1, <2>3 DEF StepOK, Saving
  <2>5. Doubt' = suspect'
    BY <2>1 DEF Doubt
  <2>6. SameOK'
    BY <1>1, <1>4, <2>1, <2>3, <2>5 DEF SameOK
  <2>7. ASSUME Sound', ~gapped', NEW s \in Slots \ suspect'
        PROVE  Intact(lut[s], s, Len(data))'
    <3>1. s \in Slots \ (suspect \cup {op.slot})
      BY <1>5, <2>1, <2>7
    <3> QED
      BY <1>4, <1>7, <2>1, <2>3, <2>7, <3>1 DEF Intact
  <2>8. KeptOK'
    BY <2>1, <2>7 DEF KeptOK
  <2> QED
    BY <2>4, <2>6, <2>8 DEF KInv
<1> QED
  BY <1>4, <1>9, <1>10

\* The header: the block that was saved is kept from now on.
LEMMA HeaderKeeps ==
    ASSUME IInv, OInv, KInv, SaveHeader
    PROVE  KInv'
<1>1. TypeOK /\ StepOK /\ KeptOK /\ pc = "header"
  BY DEF IInv, KInv, SaveHeader
<1>2. /\ disk_lut' = lut /\ header' = "whole" /\ torn' = gapped
      /\ pc' = "idle" /\ op' = NoOp
      /\ acked' = [acked EXCEPT ![op.slot] = op.save]
      /\ suspect' = IF gapped THEN suspect ELSE suspect \ {op.slot}
      /\ UNCHANGED <<misalign, data, lut, sectors, sizes, faults, gapped, stopped>>
  BY DEF SaveHeader, table
<1>3. /\ op.save \in 1..Len(sizes) /\ op.slot \in Slots /\ acked \in [Slots -> Save]
      /\ sizes[op.save] \in Nat /\ sizes[op.save] > 0 /\ Len(sizes) \in Nat /\ op.save # 0
  <2>1. op.save \in 1..Len(sizes) /\ op.slot \in Slots
    BY <1>1, UnderWay DEF Saving
  <2>2. sizes[op.save] \in Nat /\ sizes[op.save] > 0 /\ Len(sizes) \in Nat
    BY <1>1, <2>1, PayloadType, PayloadPositive, LenProperties DEF TypeOK
  <2> QED
    BY <1>1, <2>1, <2>2 DEF TypeOK
<1>4. acked'[op.slot] = op.save /\ \A s \in Slots \ {op.slot} : acked'[s] = acked[s]
  BY <1>2, <1>3
<1>5. StepOK'
  <2>1. \A s \in Slots : acked'[s] <= Len(sizes)
    BY <1>1, <1>3, <1>4 DEF StepOK
  <2>2. stopped <= Len(sizes) + 1
    BY <1>1 DEF StepOK
  <2> QED
    BY <1>2, <2>1, <2>2 DEF StepOK, Saving
<1>6. ASSUME Sound, ~gapped, NEW s \in Slots \ suspect'
      PROVE  Kept(data, Len(data), lut[s], acked'[s], sizes[acked'[s]], misalign)
  <2>1. CASE s = op.slot
    <3>1. lut[s].count = SectorsFor(sizes[op.save]) /\ sizes[op.save] <= SectorsFor(sizes[op.save]) * SectorSize
      BY <1>1, <1>3, <2>1, SectorsHold DEF StepOK
    <3>2. Stored(data, Len(data), lut[s].index * SectorSize, op.save, sizes[op.save])
      BY <1>1, <1>6, <2>1 DEF KeptOK
    <3> QED
      BY <1>3, <1>4, <2>1, <3>1, <3>2 DEF Kept
  <2>2. CASE s # op.slot
    <3>1. s \in Slots \ (suspect \cup {op.slot})
      BY <1>2, <1>6, <2>2
    <3> QED
      BY <1>1, <1>4, <1>6, <2>2, <3>1 DEF KeptOK, Intact
  <2> QED
    BY <2>1, <2>2
<1>7. Sound' = Sound
  BY <1>2 DEF Sound
<1>8. KeptOK'
  BY <1>2, <1>6, <1>7 DEF KeptOK, Intact
<1>9. SameOK'
  BY <1>2 DEF SameOK
<1> QED
  BY <1>5, <1>8, <1>9 DEF KInv

\* Opening reads the table of the file; creating and closing lose no block.
LEMMA OpenKeeps ==
    ASSUME IInv, OInv, KInv, Open \/ Create \/ FinishCreate \/ Close
    PROVE  KInv'
<1>1. TypeOK /\ StepOK /\ KeptOK /\ SameOK /\ IdleOK
  BY DEF IInv, OInv, KInv
<1>2. UNCHANGED <<misalign, data, op, sizes, faults, acked, suspect, torn, stopped>>
  BY DEF Open, Create, FinishCreate, Close, disk, ghost
<1>3. pc \in {"closed", "create", "idle"} /\ op = NoOp
  BY <1>1 DEF Open, Create, FinishCreate, Close, IdleOK
<1>4. Sound' = Sound /\ Doubt = suspect /\ Doubt' = suspect
  BY <1>2, <1>3 DEF Sound, Doubt
<1>5. (\A s \in Slots : acked'[s] <= Len(sizes')) /\ stopped' <= Len(sizes') + 1
  BY <1>1, <1>2 DEF StepOK
<1>6. CASE Open
  <2>1. /\ pc = "closed" /\ header = "whole" /\ lut' = disk_lut /\ pc' = "idle" /\ gapped' = torn
        /\ UNCHANGED <<header, disk_lut>>
    BY <1>6 DEF Open, Opens, disk
  <2>2. StepOK'
    BY <1>2, <1>5, <2>1 DEF StepOK, Saving
  <2>3. KeptOK'
    BY <1>1, <1>2, <1>4, <2>1 DEF SameOK, KeptOK, Intact
  <2>4. SameOK'
    BY <2>1 DEF SameOK
  <2> QED
    BY <2>2, <2>3, <2>4 DEF KInv
<1>7. CASE Create
  <2>1. /\ pc = "closed" /\ header = "none" /\ header' = "cut" /\ pc' = "create"
        /\ lut' = [s \in Slots |-> Empty] /\ UNCHANGED <<disk_lut, gapped>>
    BY <1>7 DEF Create, ghost
  <2>2. disk_lut = [s \in Slots |-> Empty] /\ acked = [s \in Slots |-> 0]
    BY <1>1, <2>1 DEF StepOK
  <2>3. StepOK'
    BY <1>1, <1>2, <1>5, <2>1, <2>2 DEF StepOK, Saving
  <2>4. \A s \in Slots : Kept(data', Len(data'), lut'[s], acked'[s], sizes'[acked'[s]], misalign')
    BY <1>2, <2>1, <2>2 DEF Kept, Empty
  <2>5. KeptOK'
    BY <2>1, <2>4 DEF KeptOK, Intact
  <2>6. SameOK'
    BY <2>1, <2>2 DEF SameOK
  <2> QED
    BY <2>3, <2>5, <2>6 DEF KInv
<1>8. CASE FinishCreate
  <2>1. /\ pc = "create" /\ header' = "whole" /\ disk_lut' = lut /\ pc' = "idle" /\ UNCHANGED <<lut, gapped>>
    BY <1>8 DEF FinishCreate, table, ghost
  <2>2. StepOK'
    BY <1>1, <1>2, <1>5, <2>1 DEF StepOK, Saving
  <2>3. KeptOK'
    BY <1>1, <1>2, <1>4, <2>1 DEF KeptOK, Intact
  <2>4. SameOK'
    BY <2>1 DEF SameOK
  <2> QED
    BY <2>2, <2>3, <2>4 DEF KInv
<1>9. CASE Close
  <2>1. pc = "idle" /\ pc' = "closed" /\ ~gapped' /\ UNCHANGED <<header, disk_lut>>
    BY <1>9 DEF Close, disk
  <2>2. StepOK'
    BY <1>1, <1>2, <1>5, <2>1 DEF StepOK, Saving
  <2>3. KeptOK'
    BY <2>1 DEF KeptOK
  <2>4. ASSUME Sound, ~torn, NEW s \in Slots \ suspect
        PROVE  Intact(disk_lut[s], s, Len(data))
    <3>1. ~gapped /\ disk_lut[s] = lut[s]
      BY <1>1, <1>4, <2>1, <2>4 DEF StepOK, SameOK
    <3> QED
      BY <1>1, <2>1, <2>4, <3>1 DEF KeptOK
  <2>5. SameOK'
    BY <1>2, <1>4, <2>1, <2>4 DEF SameOK, Intact
  <2> QED
    BY <2>2, <2>3, <2>5 DEF KInv
<1> QED
  BY <1>6, <1>7, <1>8, <1>9

\* Through every save, failed call, crash and reopening the blocks in no doubt
\* stand where the tables say.
THEOREM BlocksKept == Spec => []KInv
<1>1. Init => KInv
  <2> SUFFICES ASSUME Init PROVE KInv
    OBVIOUS
  <2>1. Len(sizes) = 0
    BY EmptySeq DEF Init
  <2>2. StepOK
    BY <2>1 DEF Init, StepOK, Saving
  <2>3. KeptOK
    BY DEF Init, KeptOK
  <2>4. SameOK
    BY DEF Init, SameOK, Intact, Kept, Empty
  <2> QED
    BY <2>2, <2>3, <2>4 DEF KInv
<1>2. IInv /\ OInv /\ KInv /\ [Next]_vars => KInv'
  <2> SUFFICES ASSUME IInv, OInv, KInv, [Next]_vars PROVE KInv'
    OBVIOUS
  <2>1. CASE UNCHANGED vars
    <3>1. UNCHANGED <<misalign, header, disk_lut, data, lut, sectors, pc, op, sizes, faults,
                      acked, suspect, torn, gapped, stopped>>
      BY <2>1 DEF vars, disk, table, ghost
    <3>2. StepOK /\ KeptOK /\ SameOK
      BY DEF KInv
    <3>3. StepOK'
      BY <3>1, <3>2 DEF StepOK, Saving, Behind, Present, End
    <3>4. KeptOK'
      BY <3>1, <3>2 DEF KeptOK, Sound, Intact, Shrunk, Behind, Present
    <3>5. SameOK'
      BY <3>1, <3>2 DEF SameOK, Sound, Doubt, Intact
    <3> QED
      BY <3>3, <3>4, <3>5 DEF KInv
  <2>2. CASE Refuse
    BY <2>1, <2>2 DEF Refuse
  <2>3. ASSUME NEW s \in Slots, NEW size \in Sizes, BeginSave(s, size)
        PROVE  KInv'
    BY <2>3, BeginKeeps
  <2> QED
    BY <2>1, <2>2, <2>3, OpenKeeps, ShiftKeeps, TruncateKeeps, PayloadKeeps, PadKeeps, HeaderKeeps, FaultKeeps DEF Next
<1> QED
  BY <1>1, <1>2, FileInvariant, FileLength, PTL DEF Spec

\* A payload that stands whole in the file is what load_block returns.
LEMMA ReadsBack ==
    ASSUME TypeOK, NEW s \in Slots, NEW v \in 1..Len(sizes), Present(lut, s),
           sizes[v] <= lut[s].count * SectorSize, Stored(data, Len(data), lut[s].index * SectorSize, v, sizes[v])
    PROVE  LoadBlock(lut, s) = v
<1>1. PICK begin \in Nat : begin = lut[s].index * SectorSize
  BY Sectors, Product, Constants DEF TypeOK
<1>2. PICK n : n = sizes[v]
  OBVIOUS
<1>3. n \in Nat /\ n > 0 /\ data \in Cells /\ Len(data) \in Nat /\ v # 0 /\ Len(sizes) \in Nat
  BY <1>2, PayloadType, PayloadPositive, LenProperties DEF TypeOK, Cells
<1>4. begin + n <= Len(data) /\ \A i \in 1..n : data[begin + i] = <<v, i>>
  BY <1>1, <1>2 DEF Stored
<1>5. data[begin + 1] = <<v, 1>>
  BY <1>3, <1>4
<1>6. data[begin + 1] # Zero /\ data[begin + 1][1] = v /\ data[begin + 1][2] = 1
  BY <1>3, <1>5 DEF Zero
<1>7. SubSeq(data, begin + 1, begin + n) = Payload(v)
  <2>1. \A i \in (begin + 1)..(begin + n) : data[i] \in Save \X Nat
    BY <1>1, <1>3, <1>4, ElementOfSeq, SMTT(30) DEF Cells
  <2>2. PICK m \in Nat : m = begin + 1
    BY <1>1
  <2>3. PICK k \in Nat : k = begin + n
    BY <1>1, <1>3
  <2>4. m <= k /\ (k - m) + 1 = n /\ \A i \in 1..n : m + i - 1 = begin + i
    <3>1. begin \in Nat /\ n \in Nat /\ n > 0 /\ m = begin + 1 /\ k = begin + n
      BY <1>1, <1>3, <2>2, <2>3
    <3> QED
      BY <3>1
  <2>5. /\ SubSeq(data, m, k) \in Cells /\ Len(SubSeq(data, m, k)) = (k - m) + 1
        /\ \A i \in 1..((k - m) + 1) : SubSeq(data, m, k)[i] = data[m + i - 1]
    BY <2>1, <2>2, <2>3, <2>4, SubSeqProperties DEF Cells
  <2>6. Len(SubSeq(data, m, k)) = n /\ \A i \in 1..n : SubSeq(data, m, k)[i] = <<v, i>>
    BY <1>4, <2>4, <2>5
  <2>7. Payload(v) \in Cells /\ Len(Payload(v)) = n /\ \A i \in 1..n : Payload(v)[i] = <<v, i>>
    <3>1. Payload(v) \in Cells
      BY PayloadType
    <3> QED
      BY <1>2, <1>3, <3>1 DEF Payload
  <2>8. SubSeq(data, m, k) = Payload(v)
    BY <2>5, <2>6, <2>7, SeqEqual DEF Cells
  <2> QED
    BY <2>2, <2>3, <2>8
<1>8. /\ Present(lut, s) /\ begin < Len(data)
      /\ data[begin + 1] # Zero /\ data[begin + 1][2] = 1
      /\ sizes[data[begin + 1][1]] <= lut[s].count * SectorSize
      /\ begin + sizes[data[begin + 1][1]] <= Len(data)
      /\ SubSeq(data, begin + 1, begin + sizes[data[begin + 1][1]]) = Payload(data[begin + 1][1])
  <2>1. begin \in Nat /\ n \in Nat /\ n > 0 /\ Len(data) \in Nat /\ begin + n <= Len(data)
    BY <1>1, <1>3, <1>4
  <2>2. begin < Len(data)
    BY <2>1
  <2> QED
    BY <1>2, <1>4, <1>6, <1>7, <2>2
<1> QED
  BY <1>1, <1>6, <1>8 DEF LoadBlock

\* What was saved is what is read: whatever saves of other blocks did, failed or
\* died in since, a block that no interrupted save has put in doubt reads back
\* as it was last saved, or as never saved, from the handle that is open.
THEOREM SavedAreReadBack == Spec => []SavedBlocksReadBack
<1>1. IInv /\ KInv => SavedBlocksReadBack
  <2> SUFFICES ASSUME IInv, KInv, pc = "idle", stopped \in {0, Len(sizes) + 1}, ~gapped,
                      NEW s \in Slots \ suspect, acked[s] = 0 \/ ClearOfPadding(s)
               PROVE  LoadBlock(lut, s) = acked[s]
    BY DEF SavedBlocksReadBack
  <2>1. TypeOK /\ Intact(lut[s], s, Len(data))
    BY DEF IInv, KInv, KeptOK, Sound
  <2>2. lut[s].count \in Nat /\ misalign \in 0..(SectorSize - 1)
    BY <2>1, Sectors, Slack DEF TypeOK
  <2>3. CASE acked[s] = 0
    <3>1. ~Present(lut, s)
      BY <2>1, <2>3 DEF Intact, Kept, Present
    <3> QED
      BY <2>3, <3>1 DEF LoadBlock
  <2>4. CASE acked[s] # 0
    <3>1. Clear(sizes[acked[s]], misalign)
      BY <2>4 DEF ClearOfPadding, Clear
    <3>2. /\ sizes[acked[s]] <= lut[s].count * SectorSize
          /\ Stored(data, Len(data), lut[s].index * SectorSize, acked[s], sizes[acked[s]])
      BY <2>1, <2>4, <3>1 DEF Intact, Kept
    <3>3. acked[s] \in 1..Len(sizes) /\ sizes[acked[s]] \in Nat /\ sizes[acked[s]] > 0
      <4>1. acked[s] \in 0..Len(sizes) /\ Len(sizes) \in Nat
        BY <2>1, LastSaved, LenProperties DEF TypeOK
      <4> QED
        BY <2>4, <4>1, LastSaved
    <3>4. Present(lut, s)
      BY <2>2, <3>1, <3>2, <3>3, ClearFits DEF Present
    <3> QED
      BY <2>1, <3>2, <3>3, <3>4, ReadsBack
  <2> QED
    BY <2>3, <2>4
<1> QED
  BY <1>1, FileInvariant, BlocksKept, PTL
=============================================================================
