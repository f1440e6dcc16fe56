-------------------------- MODULE SpatialLockProofs --------------------------
(***************************************************************************)
(* Machine-checked proofs about SpatialLock for any threads, boxes and     *)
(* requests: conflicting regions are never held together, the slab holds   *)
(* exactly what the guards stand for and loses no slot, and a thread       *)
(* sleeps only while somebody holds what it waits for.                     *)
(***************************************************************************)
EXTENDS SpatialLock, FiniteSetTheorems, SequenceTheorems, WellFoundedInduction, TLAPS

Slot == [entry : Requests \cup {NoRequest}, link : Nat]

Taken  == {s \in DOMAIN slots : slots[s].entry # NoRequest}

(* The types the argument needs. *)
Shape ==
    /\ slots \in Seq(Slot) /\ active_slots \in Seq(Nat) /\ first_free_slot \in Nat
    /\ pc \in [Threads -> PCs]
    /\ request \in [Threads -> Requests \cup {NoRequest}]
    /\ guard \in [Threads -> Nat]
    /\ \A t \in Threads : pc[t] # "idle" => request[t] \in Requests

(* active_slots and the links of the taken slots are inverse. *)
IndexOK ==
    /\ \A i \in DOMAIN active_slots :
         active_slots[i] \in Taken /\ slots[active_slots[i]].link = i
    /\ \A s \in Taken :
         slots[s].link \in DOMAIN active_slots /\ active_slots[slots[s].link] = s

(* The free list visits every vacant slot, and none twice. *)
FreeOK ==
    \E n \in Nat : \E walk \in [0..n -> VacantSlots \cup {0}] :
        /\ FreeWalk(walk, n)
        /\ \A i, j \in 0..n : walk[i] = walk[j] => i = j

(* No two entries conflict. *)
Apart == \A s, u \in Taken : s # u => ~Conflict(slots[s].entry, slots[u].entry)

(* Every holder has a slot of its own, and every taken slot its holder. *)
Owns(f) ==
    /\ \A t \in Holders : f[t] \in Taken /\ slots[f[t]].entry = request[t]
    /\ \A t \in Holders : guard[t] = IF request[t].mode = "WriteBatch" THEN f[t] ELSE 0
    /\ \A t, u \in Holders : f[t] = f[u] => t = u
    /\ \A s \in Taken : \E t \in Holders : f[t] = s
Owned == \E f \in [Holders -> Taken] : Owns(f)

(* What a guard remembers is a slot, and the boxes that are locked are counted. *)
CountOK ==
    /\ \A t \in Threads : guard[t] \in DOMAIN slots \cup {0}
    /\ IsFiniteSet(HeldBoxes) /\ locked_bounds = Cardinality(HeldBoxes)

Slab == Shape /\ IndexOK /\ FreeOK
IInv == Slab /\ Apart /\ Owned /\ CountOK /\ ParkedIsBlocked
-----------------------------------------------------------------------------
(* The slab *)

\* The free list starts at a vacant slot, if there is one.
LEMMA FreeHead ==
    ASSUME FreeOK
    PROVE  first_free_slot \in VacantSlots \cup {0}
<1>1. PICK n \in Nat : \E walk \in [0..n -> VacantSlots \cup {0}] : FreeWalk(walk, n)
  BY DEF FreeOK
<1> QED
  BY <1>1 DEF FreeWalk

\* A new entry takes a slot that no entry holds and leaves the others alone.
LEMMA InsertSlab ==
    ASSUME Slab, NEW r \in Requests, Insert(r)
    PROVE  /\ slots' \in Seq(Slot) /\ active_slots' \in Seq(Nat) /\ first_free_slot' \in Nat
           /\ NextSlot \in Nat /\ NextSlot \notin Taken
           /\ Taken' = Taken \cup {NextSlot}
           /\ slots'[NextSlot].entry = r /\ DOMAIN slots' = DOMAIN slots \cup {NextSlot}
           /\ \A s \in Taken : slots'[s] = slots[s]
           /\ IndexOK' /\ FreeOK'
<1> DEFINE n   == NextSlot
           new == Occupied(r, Len(active_slots) + 1)
<1>1. /\ Len(slots) \in Nat /\ DOMAIN slots = 1..Len(slots)
      /\ \A s \in DOMAIN slots : slots[s] \in Slot
      /\ Len(active_slots) \in Nat /\ DOMAIN active_slots = 1..Len(active_slots)
  BY LenProperties, ElementOfSeq DEF Slab, Shape
<1>2. new \in Slot /\ new.entry = r /\ new.link = Len(active_slots) + 1
  BY <1>1 DEF Occupied, Slot
<1>3. r # NoRequest
  BY RequestAssumption
<1>4. n \in Nat /\ n \notin Taken /\ first_free_slot \in Nat
      /\ (first_free_slot = 0 => n = Len(slots) + 1)
      /\ (first_free_slot # 0 => n = first_free_slot /\ n \in VacantSlots)
  BY <1>1, FreeHead DEF NextSlot, Taken, VacantSlots, Slab, Shape
<1>5. /\ slots' \in Seq(Slot) /\ DOMAIN slots' = DOMAIN slots \cup {n}
      /\ slots'[n] = new /\ \A s \in DOMAIN slots \ {n} : slots'[s] = slots[s]
  <2>1. CASE first_free_slot = 0
    <3>1. slots' = Append(slots, new)
      BY <2>1 DEF Insert
    <3> HIDE DEF new
    <3> QED
      BY <3>1, <2>1, <1>1, <1>2, <1>4, AppendProperties DEF Slab, Shape
  <2>2. CASE first_free_slot # 0
    <3>1. slots' = [slots EXCEPT ![n] = new] /\ n \in DOMAIN slots
      BY <2>2, <1>4 DEF Insert, VacantSlots
    <3>2. slots' \in [1..Len(slots) -> Slot]
      <4> HIDE DEF new
      <4> QED
        BY <3>1, <1>1, <1>2, ElementOfSeq, LenProperties DEF Slab, Shape
    <3>3. slots' \in Seq(Slot)
      BY <3>2, <1>1, SeqDef
    <3> QED
      BY <3>1, <3>2, <3>3, <1>1, Zenon
  <2> QED
    BY <2>1, <2>2
<1>6. Taken' = Taken \cup {n} /\ VacantSlots' = VacantSlots \ {n}
  BY <1>2, <1>3, <1>4, <1>5 DEF Taken, VacantSlots
<1>7. /\ active_slots' \in Seq(Nat) /\ DOMAIN active_slots' = 1..(Len(active_slots) + 1)
      /\ active_slots'[Len(active_slots) + 1] = n
      /\ \A i \in DOMAIN active_slots : active_slots'[i] = active_slots[i]
  <2>1. active_slots' = Append(active_slots, n)
    BY DEF Insert
  <2> QED
    BY <2>1, <1>1, <1>4, AppendProperties DEF Slab, Shape
<1>8. IndexOK'
  <2>1. \A s \in Taken : s # n /\ s \in DOMAIN slots
    BY <1>4 DEF Taken
  <2>2. \A i \in DOMAIN active_slots' :
          active_slots'[i] \in Taken' /\ slots'[active_slots'[i]].link = i
    BY <2>1, <1>1, <1>2, <1>5, <1>6, <1>7 DEF Slab, IndexOK
  <2>3. \A s \in Taken' :
          slots'[s].link \in DOMAIN active_slots' /\ active_slots'[slots'[s].link] = s
    BY <2>1, <1>1, <1>2, <1>5, <1>6, <1>7 DEF Slab, IndexOK
  <2> QED
    BY <2>2, <2>3 DEF IndexOK
<1>9. first_free_slot' \in Nat /\ FreeOK'
  <2>1. \A s \in VacantSlots' : s \in VacantSlots /\ slots'[s] = slots[s] /\ s # n
    BY <1>5, <1>6 DEF VacantSlots
  <2>2. CASE first_free_slot = 0
    <3>1. first_free_slot' = 0 /\ VacantSlots' = VacantSlots
      BY <2>2, <1>1, <1>4, <1>6 DEF Insert, VacantSlots
    <3>2. PICK k \in Nat : \E walk \in [0..k -> VacantSlots \cup {0}] :
            FreeWalk(walk, k) /\ \A i, j \in 0..k : walk[i] = walk[j] => i = j
      BY DEF Slab, FreeOK
    <3>3. PICK walk \in [0..k -> VacantSlots \cup {0}] : FreeWalk(walk, k)
      BY <3>2
    <3>4. k = 0
      <4>1. k # 0 => 1 \in 1..k /\ 1 - 1 = 0
        OBVIOUS
      <4> QED
        BY <2>2, <3>3, <4>1 DEF FreeWalk
    <3>5. FreeWalk(walk, 0)'
      BY <2>2, <3>1, <3>3, <3>4 DEF FreeWalk
    <3>6. \E w \in [0..0 -> VacantSlots' \cup {0}] :
            FreeWalk(w, 0)' /\ \A i, j \in 0..0 : w[i] = w[j] => i = j
      BY <3>1, <3>3, <3>4, <3>5
    <3>7. FreeOK'
      BY <3>6 DEF FreeOK
    <3> QED
      BY <3>1, <3>7
  <2>3. CASE first_free_slot # 0
    <3>1. first_free_slot' = slots[n].link /\ n \in VacantSlots /\ slots[n].link \in Nat /\ n = first_free_slot
      BY <2>3, <1>1, <1>4 DEF Insert, Slot, VacantSlots
    <3>2. PICK k \in Nat : \E walk \in [0..k -> VacantSlots \cup {0}] :
            FreeWalk(walk, k) /\ \A i, j \in 0..k : walk[i] = walk[j] => i = j
      BY DEF Slab, FreeOK
    <3>3. PICK walk \in [0..k -> VacantSlots \cup {0}] :
            FreeWalk(walk, k) /\ \A i, j \in 0..k : walk[i] = walk[j] => i = j
      BY <3>2
    <3>4. PICK m \in Nat : k = m + 1
      <4>1. k # 0
        BY <2>3, <3>3 DEF FreeWalk
      <4>2. k - 1 \in Nat /\ k = (k - 1) + 1
        BY <4>1
      <4> QED
        BY <4>2
    <3>5. PICK rest : rest = [i \in 0..m |-> walk[i + 1]]
      OBVIOUS
    <3>6. ASSUME NEW i \in 0..m
          PROVE  /\ i + 1 \in 1..k /\ i + 1 \in 0..k /\ rest[i] = walk[i + 1] /\ rest[i] # n
                 /\ rest[i] \in VacantSlots' \cup {0}
      <4>1. i + 1 \in 1..k /\ i + 1 \in 0..k /\ 0 \in 0..k /\ i + 1 # 0
        BY <3>4
      <4>2. rest[i] = walk[i + 1]
        BY <3>5
      <4>3. walk[i + 1] # walk[0] /\ walk[0] = n /\ walk[i + 1] \in VacantSlots \cup {0}
        BY <3>1, <3>3, <4>1 DEF FreeWalk
      <4> QED
        BY <1>6, <4>1, <4>2, <4>3
    <3>7. rest \in [0..m -> VacantSlots' \cup {0}]
      BY <3>5, <3>6
    <3>8. rest[0] = first_free_slot' /\ rest[m] = 0
      <4>1. walk[1] = slots[walk[0]].link /\ walk[0] = n /\ walk[m + 1] = 0
        BY <3>1, <3>3, <3>4 DEF FreeWalk
      <4> QED
        BY <3>1, <3>6, <4>1
    <3>9. ASSUME NEW i \in 1..m
          PROVE  rest[i - 1] # 0 /\ rest[i] = slots'[rest[i - 1]].link
      <4>1. i - 1 \in 0..m /\ i \in 0..m /\ (i - 1) + 1 = i /\ i + 1 \in 1..k /\ (i + 1) - 1 = i
        BY <3>4
      <4>2. rest[i - 1] = walk[i] /\ rest[i] = walk[i + 1]
        BY <3>6, <4>1
      <4>3. walk[i] # 0 /\ walk[i + 1] = slots[walk[i]].link
        BY <3>3, <4>1 DEF FreeWalk
      <4>4. rest[i - 1] \in VacantSlots'
        BY <3>6, <4>1, <4>2, <4>3
      <4> QED
        BY <2>1, <4>2, <4>3, <4>4
    <3>10. ASSUME NEW s \in VacantSlots'
           PROVE  \E i \in 0..m : rest[i] = s
      <4>1. s \in VacantSlots /\ s # n
        BY <2>1
      <4>2. PICK j \in 0..k : walk[j] = s
        BY <3>3, <4>1 DEF FreeWalk
      <4>3. j # 0
        BY <3>1, <3>3, <4>1, <4>2 DEF FreeWalk
      <4>4. PICK i \in 0..m : j = i + 1
        <5>1. j - 1 \in 0..m /\ j = (j - 1) + 1
          BY <3>4, <4>3
        <5> QED
          BY <5>1
      <4> QED
        BY <3>6, <4>2, <4>4
    <3>11. \A i, j \in 0..m : rest[i] = rest[j] => i = j
      <4>1. ASSUME NEW i \in 0..m, NEW j \in 0..m, rest[i] = rest[j]
            PROVE  i = j
        <5>1. walk[i + 1] = walk[j + 1] /\ i + 1 \in 0..k /\ j + 1 \in 0..k
          BY <3>6, <4>1
        <5>2. i + 1 = j + 1
          BY <3>3, <5>1
        <5> QED
          BY <5>2
      <4> QED
        BY <4>1
    <3>12. FreeWalk(rest, m)'
      BY <3>8, <3>9, <3>10 DEF FreeWalk
    <3>13. \E w \in [0..m -> VacantSlots' \cup {0}] :
              FreeWalk(w, m)' /\ \A i, j \in 0..m : w[i] = w[j] => i = j
      BY <3>7, <3>11, <3>12
    <3>14. FreeOK'
      BY <3>13 DEF FreeOK
    <3> QED
      BY <3>1, <3>14
  <2> QED
    BY <2>2, <2>3
<1> QED
  BY <1>2, <1>4, <1>5, <1>6, <1>7, <1>8, <1>9 DEF Taken

\* Removing an entry frees its slot, closes the gap in the index with the last
\* active slot and leaves every other entry alone.
LEMMA RemoveSlab ==
    ASSUME Slab, NEW s \in Taken, RemoveSlot(s)
    PROVE  /\ slots' \in Seq(Slot) /\ active_slots' \in Seq(Nat) /\ first_free_slot' \in Nat
           /\ Taken' = Taken \ {s} /\ DOMAIN slots' = DOMAIN slots
           /\ \A u \in Taken \ {s} : slots'[u].entry = slots[u].entry
           /\ IndexOK' /\ FreeOK'
<1> DEFINE i == slots[s].link
           L == Len(active_slots)
           m == active_slots[L]
<1>1. /\ Len(slots) \in Nat /\ DOMAIN slots = 1..Len(slots)
      /\ \A u \in DOMAIN slots : slots[u] \in Slot
      /\ L \in Nat /\ DOMAIN active_slots = 1..L /\ active_slots \in Seq(Nat)
      /\ \A j \in 1..L : active_slots[j] \in Nat
      /\ first_free_slot \in Nat
  BY LenProperties, ElementOfSeq DEF Slab, Shape
<1>a. \A j \in 1..(L - 1) : j \in 1..L /\ j # L
  <2>1. L \in Nat
    BY <1>1
  <2> HIDE DEF L
  <2> QED
    BY <2>1
<1>2. /\ i \in 1..L /\ active_slots[i] = s
      /\ L \in 1..L /\ m \in Taken /\ slots[m].link = L
      /\ i # L => m # s
  <2>1. i \in 1..L /\ active_slots[i] = s
    BY <1>1 DEF Slab, IndexOK
  <2>2. L \in 1..L
    BY <1>1, <2>1
  <2>3. m \in Taken /\ slots[m].link = L
    BY <1>1, <2>2 DEF Slab, IndexOK
  <2> QED
    BY <2>1, <2>2, <2>3
<1>3. /\ active_slots' \in Seq(Nat) /\ DOMAIN active_slots' = 1..(L - 1)
      /\ \A j \in 1..(L - 1) : active_slots'[j] = IF j = i THEN m ELSE active_slots[j]
  <2>1. active_slots' = SwapRemove(active_slots, i)
    BY DEF RemoveSlot
  <2>2. CASE i = L
    <3>1. active_slots' = SubSeq(active_slots, 1, L - 1)
      BY <2>1, <2>2 DEF SwapRemove, Front
    <3>2. \A j \in 1..(L - 1) : active_slots[j] \in Nat /\ j # i
      BY <2>2, <1>1, <1>a, Zenon
    <3>3. L - 1 \in Nat
      <4> HIDE DEF L, i
      <4> QED
        BY <1>1, <1>2
    <3>4. /\ active_slots' \in Seq(Nat) /\ DOMAIN active_slots' = 1..(L - 1)
          /\ \A j \in 1..(L - 1) : active_slots'[j] = active_slots[j]
      <4> HIDE DEF L, i
      <4> QED
        BY <3>1, <3>2, <3>3, SubSeqProperties
    <3> QED
      BY <3>2, <3>4
  <2>3. CASE i # L
    <3> DEFINE e == [active_slots EXCEPT ![i] = m]
    <3>1. /\ e \in Seq(Nat) /\ Len(e) = L
          /\ \A j \in 1..L : e[j] = IF j = i THEN m ELSE active_slots[j]
      BY <1>1, <1>2, ExceptSeq
    <3>2. active_slots' = SubSeq(e, 1, L - 1)
      BY <2>1, <2>3, <3>1 DEF SwapRemove, Front, Last
    <3>3. \A j \in 1..(L - 1) : j \in 1..L /\ e[j] \in Nat
      BY <3>1, <1>1, <1>2, <1>a, Zenon
    <3>4. L - 1 \in Nat
      <4> HIDE DEF L, i, e
      <4> QED
        BY <1>1, <1>2
    <3>5. /\ active_slots' \in Seq(Nat) /\ DOMAIN active_slots' = 1..(L - 1)
          /\ \A j \in 1..(L - 1) : active_slots'[j] = e[j]
      <4> HIDE DEF L, i, m, e
      <4> QED
        BY <3>2, <3>3, <3>4, SubSeqProperties
    <3> HIDE DEF L, i, m, e
    <3> QED
      BY <3>1, <3>3, <3>5
  <2> QED
    BY <2>2, <2>3
<1>4. /\ DOMAIN slots' = DOMAIN slots
      /\ slots'[s] = Vacant(first_free_slot)
      /\ \A u \in DOMAIN slots \ {s} :
           /\ slots'[u].entry = slots[u].entry
           /\ slots'[u].link = IF i # L /\ u = m THEN i ELSE slots[u].link
           /\ slots'[u] \in Slot
  <2>1. \A u \in DOMAIN slots : slots'[u] =
          IF u = s THEN Vacant(first_free_slot)
          ELSE IF i # L /\ u = m THEN [slots[u] EXCEPT !.link = i] ELSE slots[u]
    BY <1>1, <1>2 DEF RemoveSlot, Moved, Last
  <2>2. DOMAIN slots' = DOMAIN slots /\ s \in DOMAIN slots
    BY DEF RemoveSlot, Taken
  <2>3. i \in Nat
    BY <1>1, <1>2
  <2> QED
    BY <1>1, <2>1, <2>2, <2>3 DEF Slot
<1>5. Vacant(first_free_slot) \in Slot /\ Vacant(first_free_slot).entry = NoRequest
      /\ Vacant(first_free_slot).link = first_free_slot
  BY <1>1 DEF Vacant, Slot
<1>6. slots' \in Seq(Slot)
  <2>1. slots' \in [1..Len(slots) -> Slot]
    <3>1. \A u \in 1..Len(slots) : slots'[u] \in Slot
      BY <1>1, <1>4, <1>5
    <3>2. slots' = [u \in 1..Len(slots) |-> slots'[u]]
      BY <1>1 DEF RemoveSlot
    <3> QED
      BY <3>1, <3>2
  <2> QED
    BY <2>1, <1>1, SeqDef
<1>7. Taken' = Taken \ {s} /\ VacantSlots' = VacantSlots \cup {s} /\ s \notin VacantSlots
  BY <1>4, <1>5 DEF Taken, VacantSlots
<1>8. IndexOK'
  <2>1. ASSUME NEW j \in 1..(L - 1)
        PROVE  active_slots'[j] \in Taken' /\ slots'[active_slots'[j]].link = j
    <3>1. CASE j = i
      <4>1. i # L /\ active_slots'[j] = m
        BY <3>1, <1>1, <1>2, <1>3
      <4>2. m \in DOMAIN slots \ {s}
        BY <4>1, <1>2 DEF Taken
      <4> QED
        BY <3>1, <4>1, <4>2, <1>2, <1>4, <1>7
    <3>2. CASE j # i
      <4>1. j \in 1..L /\ j # L /\ active_slots'[j] = active_slots[j]
        <5>1. j \in 1..L /\ j # L
          BY <1>a
        <5>2. active_slots'[j] = active_slots[j]
          BY <3>2, <1>3
        <5> QED
          BY <5>1, <5>2
      <4>2. active_slots[j] \in Taken /\ slots[active_slots[j]].link = j
        BY <4>1, <1>1 DEF Slab, IndexOK
      <4>3. active_slots[j] # s /\ active_slots[j] # m
        BY <3>2, <4>1, <4>2, <1>2
      <4> QED
        BY <4>1, <4>2, <4>3, <1>4, <1>7 DEF Taken
    <3> QED
      BY <3>1, <3>2
  <2>2. ASSUME NEW u \in Taken'
        PROVE  slots'[u].link \in 1..(L - 1) /\ active_slots'[slots'[u].link] = u
    <3>1. u \in Taken /\ u # s /\ u \in DOMAIN slots
      BY <1>7 DEF Taken
    <3>2. slots[u].link \in 1..L /\ active_slots[slots[u].link] = u
      BY <3>1, <1>1 DEF Slab, IndexOK
    <3>3. slots[u].link # i
      BY <3>1, <3>2, <1>2
    <3>4. CASE i # L /\ u = m
      <4>1. slots'[u].link = i
        BY <3>1, <3>4, <1>4
      <4>2. i \in 1..(L - 1)
        BY <3>4, <1>1, <1>2
      <4> QED
        BY <3>4, <4>1, <4>2, <1>3
    <3>5. CASE ~(i # L /\ u = m)
      <4>1. slots'[u].link = slots[u].link
        BY <3>1, <3>5, <1>4
      <4>2. slots[u].link # L
        BY <3>2, <3>3, <3>5
      <4>3. slots[u].link \in 1..(L - 1)
        BY <3>2, <4>2, <1>1
      <4> QED
        BY <4>1, <4>3, <3>2, <3>3, <1>3
    <3> QED
      BY <3>4, <3>5
  <2> QED
    BY <2>1, <2>2, <1>3 DEF IndexOK
<1>9. first_free_slot' \in Nat /\ FreeOK'
  <2>1. first_free_slot' = s /\ s \in Nat
    BY <1>1 DEF RemoveSlot, Taken
  <2>2. slots'[s].link = first_free_slot
    BY <1>4, <1>5
  <2>3. \A u \in VacantSlots : u \in DOMAIN slots \ {s} /\ u # m /\ slots'[u].link = slots[u].link
    BY <1>2, <1>4, <1>7 DEF Taken, VacantSlots
  <2>0. PICK k \in Nat : \E walk \in [0..k -> VacantSlots \cup {0}] :
            FreeWalk(walk, k) /\ \A x, y \in 0..k : walk[x] = walk[y] => x = y
    BY DEF Slab, FreeOK
  <2>4. PICK walk \in [0..k -> VacantSlots \cup {0}] :
            FreeWalk(walk, k) /\ \A x, y \in 0..k : walk[x] = walk[y] => x = y
    BY <2>0
  <2>5. PICK longer : longer = [x \in 0..(k + 1) |-> IF x = 0 THEN s ELSE walk[x - 1]]
    OBVIOUS
  <2>6. longer[0] = s /\ 0 \in 0..(k + 1) /\ s # 0
    BY <1>1, <2>5 DEF Taken
  <2>7. ASSUME NEW x \in 0..k
        PROVE  x + 1 \in 0..(k + 1) /\ longer[x + 1] = walk[x] /\ walk[x] \in VacantSlots \cup {0} /\ walk[x] # s
    <3>1. x + 1 \in 0..(k + 1) /\ x + 1 # 0 /\ (x + 1) - 1 = x
      OBVIOUS
    <3>2. walk[x] \in VacantSlots \cup {0}
      BY <2>4
    <3> QED
      BY <1>7, <2>5, <2>6, <3>1, <3>2
  <2>8. ASSUME NEW y \in 0..(k + 1), y # 0
        PROVE  \E x \in 0..k : y = x + 1
    <3>1. y - 1 \in 0..k /\ y = (y - 1) + 1
      BY <2>8
    <3> QED
      BY <3>1
  <2>9. longer \in [0..(k + 1) -> VacantSlots' \cup {0}]
    <3>1. ASSUME NEW y \in 0..(k + 1), y # 0 PROVE longer[y] \in VacantSlots \cup {0}
      <4>1. PICK x \in 0..k : y = x + 1
        BY <2>8, <3>1
      <4> QED
        BY <2>7, <4>1
    <3>2. \A y \in 0..(k + 1) : longer[y] \in VacantSlots' \cup {0}
      BY <1>7, <2>6, <3>1
    <3> QED
      BY <2>5, <3>2
  <2>10. longer[k + 1] = 0
    <3>1. walk[k] = 0 /\ k \in 0..k
      BY <2>4 DEF FreeWalk
    <3> QED
      BY <2>7, <3>1
  <2>11. ASSUME NEW y \in 1..(k + 1)
         PROVE  longer[y - 1] # 0 /\ longer[y] = slots'[longer[y - 1]].link
    <3>1. CASE y = 1
      <4>1. 0 \in 0..k /\ 0 + 1 = 1 /\ 1 - 1 = 0
        OBVIOUS
      <4>2. longer[1] = first_free_slot
        BY <2>4, <2>7, <4>1 DEF FreeWalk
      <4> QED
        BY <2>2, <2>6, <3>1, <4>1, <4>2
    <3>2. CASE y # 1
      <4>1. PICK x \in 1..k : y = x + 1
        <5>1. y - 1 \in 1..k /\ y = (y - 1) + 1
          BY <3>2
        <5> QED
          BY <5>1
      <4>2. x \in 0..k /\ x - 1 \in 0..k /\ (x - 1) + 1 = x /\ y - 1 = x
        BY <4>1
      <4>3. longer[y] = walk[x] /\ longer[y - 1] = walk[x - 1]
        BY <2>7, <4>1, <4>2
      <4>4. walk[x - 1] # 0 /\ walk[x] = slots[walk[x - 1]].link
        BY <2>4, <4>1 DEF FreeWalk
      <4>5. walk[x - 1] \in VacantSlots
        BY <2>7, <4>2, <4>4
      <4> QED
        BY <2>3, <4>3, <4>4, <4>5
    <3> QED
      BY <3>1, <3>2
  <2>12. ASSUME NEW u \in VacantSlots'
         PROVE  \E y \in 0..(k + 1) : longer[y] = u
    <3>1. CASE u = s
      BY <2>6, <3>1
    <3>2. CASE u # s
      <4>1. PICK x \in 0..k : walk[x] = u
        BY <1>7, <2>4, <3>2 DEF FreeWalk
      <4> QED
        BY <2>7, <4>1
    <3> QED
      BY <3>1, <3>2
  <2>13. ASSUME NEW y \in 0..(k + 1), NEW z \in 0..(k + 1), longer[y] = longer[z]
         PROVE  y = z
    <3>1. CASE y = 0 /\ z = 0
      BY <3>1
    <3>2. CASE y # 0 /\ z # 0
      <4>1. PICK x \in 0..k : y = x + 1
        BY <2>8, <3>2
      <4>2. PICK w \in 0..k : z = w + 1
        BY <2>8, <3>2
      <4>3. longer[y] = walk[x] /\ longer[z] = walk[w]
        BY <2>7, <4>1, <4>2
      <4>4. x = w
        BY <2>4, <2>13, <4>3
      <4> QED
        BY <4>1, <4>2, <4>4
    <3>3. CASE y = 0 /\ z # 0
      <4>1. PICK x \in 0..k : z = x + 1
        BY <2>8, <3>3
      <4>2. longer[z] # s
        BY <2>7, <4>1
      <4> QED
        BY <2>6, <2>13, <3>3, <4>2
    <3>4. CASE y # 0 /\ z = 0
      <4>1. PICK x \in 0..k : y = x + 1
        BY <2>8, <3>4
      <4>2. longer[y] # s
        BY <2>7, <4>1
      <4> QED
        BY <2>6, <2>13, <3>4, <4>2
    <3> QED
      BY <3>1, <3>2, <3>3, <3>4
  <2>14. FreeWalk(longer, k + 1)'
    <3>1. k + 1 \in Nat /\ longer[0] = first_free_slot'
      BY <2>1, <2>6
    <3> QED
      BY <2>10, <2>11, <2>12, <3>1 DEF FreeWalk
  <2>15. k + 1 \in Nat /\ \A y, z \in 0..(k + 1) : longer[y] = longer[z] => y = z
    BY <2>13
  <2> QED
    BY <2>1, <2>9, <2>14, <2>15 DEF FreeOK
<1> QED
  BY <1>3, <1>4, <1>6, <1>7, <1>8, <1>9 DEF Taken

-----------------------------------------------------------------------------
(* Entries and their holders *)

\* Conflict does not depend on the order of its arguments.
LEMMA ConflictSymmetric ==
    ASSUME NEW r \in Requests, NEW s \in Requests, Conflict(r, s)
    PROVE  Conflict(s, r)
<1>1. r.boxes \subseteq Boxes /\ s.boxes \subseteq Boxes
  BY RequestAssumption
<1>2. PICK a \in r.boxes, b \in s.boxes : <<a, b>> \in Overlapping
  BY DEF Conflict
<1>3. <<b, a>> \in Overlapping
  BY <1>1, <1>2, BoxAssumption
<1> QED
  BY <1>2, <1>3 DEF Conflict

\* The taken slots hold requests.
LEMMA TakenEntries ==
    ASSUME Shape
    PROVE  \A s \in Taken : slots[s].entry \in Requests
<1>1. \A s \in DOMAIN slots : slots[s] \in Slot
  BY ElementOfSeq, LenProperties DEF Shape
<1> QED
  BY <1>1 DEF Taken, Slot

\* Scanning active_slots is scanning the taken slots.
LEMMA CanAcquireTaken ==
    ASSUME IndexOK, NEW r
    PROVE  CanAcquire(r) <=> \A s \in Taken : ~Conflict(r, slots[s].entry)
<1>1. ASSUME CanAcquire(r), NEW s \in Taken PROVE ~Conflict(r, slots[s].entry)
  BY <1>1 DEF CanAcquire, Entry, IndexOK
<1>2. ASSUME \A s \in Taken : ~Conflict(r, slots[s].entry) PROVE CanAcquire(r)
  BY <1>2 DEF CanAcquire, Entry, IndexOK
<1> QED
  BY <1>1, <1>2

\* A guard gives back a slot that holds exactly its own request, and a batch
\* guard the slot that is its own.
LEMMA ReleasedSlot ==
    ASSUME Slab, NEW t \in Holders, NEW f, Owns(f)
    PROVE  /\ Released(t) \in Taken /\ slots[Released(t)].entry = request[t]
           /\ request[t].mode = "WriteBatch" => Released(t) = f[t]
<1>1. f[t] \in Taken /\ slots[f[t]].entry = request[t]
  BY DEF Owns
<1>2. CASE request[t].mode = "WriteBatch"
  BY <1>1, <1>2 DEF Released, Owns
<1>3. CASE request[t].mode # "WriteBatch"
  <2> DEFINE M == {i \in DOMAIN active_slots : Entry(i) = request[t]}
  <2>1. M \subseteq Nat /\ M # {}
    <3>1. DOMAIN active_slots \subseteq Nat
      BY LenProperties DEF Slab, Shape
    <3>2. slots[f[t]].link \in M
      BY <1>1 DEF Slab, IndexOK, Entry
    <3> QED
      BY <3>1, <3>2
  <2>2. PICK i \in M : \A j \in M : ~(<<j, i>> \in OpToRel(<, Nat))
    <3> HIDE DEF M
    <3> QED
      BY <2>1, NatLessThanWellFounded, WFMin
  <2>3. i \in M /\ \A j \in M : i <= j
    <3> HIDE DEF M
    <3>1. ASSUME NEW j \in M PROVE i <= j
      <4>1. j \in Nat /\ i \in Nat
        BY <2>1, <2>2
      <4>2. ~(<<j, i>> \in OpToRel(<, Nat))
        BY <2>2
      <4>3. ~(j < i)
        BY <4>1, <4>2 DEF OpToRel
      <4> QED
        BY <4>1, <4>3
    <3> QED
      BY <2>2, <3>1
  <2>4. FirstMatch(request[t]) \in DOMAIN active_slots /\ Entry(FirstMatch(request[t])) = request[t]
    BY <2>3 DEF FirstMatch
  <2> QED
    BY <1>3, <2>4 DEF Released, Entry, Slab, IndexOK
<1> QED
  BY <1>2, <1>3

\* The boxes of one more holder.
LEMMA HeldMore ==
    ASSUME NEW H, IsFiniteSet(H), NEW t, NEW B, IsFiniteSet(B), H \cap ({t} \X B) = {}
    PROVE  /\ IsFiniteSet(H \cup ({t} \X B))
           /\ Cardinality(H \cup ({t} \X B)) = Cardinality(H) + Cardinality(B)
<1>1. IsFiniteSet({t}) /\ Cardinality({t}) = 1
  BY FS_Singleton
<1>2. Cardinality(B) \in Nat /\ Cardinality(H) \in Nat /\ Cardinality({}) = 0
  BY FS_CardinalityType, FS_EmptySet
<1>3. IsFiniteSet({t} \X B) /\ Cardinality({t} \X B) = Cardinality({t}) * Cardinality(B)
  BY <1>1, FS_Product
<1>4. Cardinality({t} \X B) = Cardinality(B)
  BY <1>1, <1>2, <1>3
<1>5. /\ IsFiniteSet(H \cup ({t} \X B))
      /\ Cardinality(H \cup ({t} \X B))
           = Cardinality(H) + Cardinality({t} \X B) - Cardinality(H \cap ({t} \X B))
  BY <1>3, FS_Union
<1>6. Cardinality(H \cap ({t} \X B)) = 0
  BY <1>2
<1>7. ASSUME NEW m \in Nat, NEW k \in Nat PROVE m + k - 0 = m + k
  OBVIOUS
<1>8. Cardinality(H) + Cardinality(B) - 0 = Cardinality(H) + Cardinality(B)
  BY <1>2, <1>7
<1>9. Cardinality(H \cup ({t} \X B)) = Cardinality(H) + Cardinality(B) - 0
  BY <1>4, <1>5, <1>6
<1> QED
  BY <1>5, <1>8, <1>9
-----------------------------------------------------------------------------
(* The steps *)

\* Nothing is locked at the start.
LEMMA InitHolds == Init => IInv
<1> SUFFICES ASSUME Init PROVE IInv
  OBVIOUS
<1>1. slots = <<>> /\ active_slots = <<>> /\ Taken = {} /\ VacantSlots = {} /\ Holders = {}
  BY DEF Init, Taken, VacantSlots, Holders
<1>2. Shape
  BY <1>1 DEF Init, Shape, PCs
<1>3. IndexOK /\ FreeOK
  <2>1. PICK walk : walk = [i \in 0..0 |-> 0]
    OBVIOUS
  <2>2. FreeWalk(walk, 0) /\ walk \in [0..0 -> VacantSlots \cup {0}]
    BY <1>1, <2>1 DEF Init, FreeWalk
  <2>3. \A i, j \in 0..0 : walk[i] = walk[j] => i = j
    OBVIOUS
  <2>4. FreeOK
    BY <2>2, <2>3 DEF FreeOK
  <2> QED
    BY <1>1, <2>4 DEF Init, IndexOK
<1>4. Apart /\ ParkedIsBlocked
  BY <1>1 DEF Init, Apart, ParkedIsBlocked
<1>5. Owned
  <2>1. [x \in {} |-> 0] \in [Holders -> Taken] /\ Owns([x \in {} |-> 0])
    BY <1>1 DEF Owns
  <2> QED
    BY <2>1 DEF Owned
<1>6. CountOK
  <2>1. HeldBoxes = {}
    BY <1>1 DEF HeldBoxes
  <2> QED
    BY <2>1, FS_EmptySet DEF Init, CountOK
<1> QED
  BY <1>2, <1>3, <1>4, <1>5, <1>6 DEF IInv, Slab

\* A step that leaves the registry and the holders alone keeps what is said
\* about them.
LEMMA QuietStep ==
    ASSUME IInv, UNCHANGED <<registry, guard>>, Shape',
           Holders' = Holders, \A t \in Holders : request'[t] = request[t]
    PROVE  Slab' /\ Apart' /\ Owned' /\ CountOK'
<1>1. Taken' = Taken /\ VacantSlots' = VacantSlots
  BY DEF registry, Taken, VacantSlots
<1>2. IndexOK' /\ FreeOK' /\ Apart'
  BY <1>1 DEF IInv, Slab, IndexOK, FreeOK, FreeWalk, Apart, registry
<1>3. Owned'
  <2>1. PICK f \in [Holders -> Taken] : Owns(f)
    BY DEF IInv, Owned
  <2>2. Owns(f)'
    BY <2>1, <1>1 DEF Owns, registry
  <2> QED
    BY <2>1, <2>2, <1>1 DEF Owned
<1>4. CountOK'
  <2>1. HeldBoxes' = HeldBoxes
    BY DEF HeldBoxes
  <2> QED
    BY <2>1 DEF IInv, CountOK, registry
<1> QED
  BY <1>2, <1>3, <1>4 DEF Slab

\* Granting a request that conflicts with no entry: its slot is the new one.
LEMMA GrantStep ==
    ASSUME IInv, NEW t \in Threads, NEW r \in Requests,
           pc[t] \in {"idle", "trying"}, Grant(t, r)
    PROVE  IInv'
<1> DEFINE n == NextSlot
<1>1. CanAcquire(r) /\ Insert(r) /\ Slab
  BY DEF Grant, IInv
<1>2. /\ slots' \in Seq(Slot) /\ active_slots' \in Seq(Nat) /\ first_free_slot' \in Nat
      /\ n \in Nat /\ n \notin Taken
      /\ Taken' = Taken \cup {n}
      /\ slots'[n].entry = r /\ DOMAIN slots' = DOMAIN slots \cup {n}
      /\ \A s \in Taken : slots'[s] = slots[s]
      /\ IndexOK' /\ FreeOK'
  BY <1>1, InsertSlab
<1>3. /\ pc' = [pc EXCEPT ![t] = "holding"] /\ request' = [request EXCEPT ![t] = r]
      /\ guard' = [guard EXCEPT ![t] = IF r.mode = "WriteBatch" THEN n ELSE 0]
      /\ pc \in [Threads -> PCs] /\ request \in [Threads -> Requests \cup {NoRequest}]
      /\ guard \in [Threads -> Nat]
  BY DEF Grant, IInv, Slab, Shape
<1>4. Holders' = Holders \cup {t} /\ t \notin Holders
  BY <1>3 DEF Holders
<1>5. \A u \in Threads \ {t} :
        pc'[u] = pc[u] /\ request'[u] = request[u] /\ guard'[u] = guard[u]
  BY <1>3
<1>6. /\ pc'[t] = "holding" /\ request'[t] = r
      /\ guard'[t] = IF r.mode = "WriteBatch" THEN n ELSE 0
  BY <1>3
<1>7. Slab'
  <2>1. pc' \in [Threads -> PCs] /\ request' \in [Threads -> Requests \cup {NoRequest}]
    BY <1>3 DEF PCs
  <2>2. guard' \in [Threads -> Nat]
    BY <1>2, <1>3
  <2>3. \A u \in Threads : pc'[u] # "idle" => request'[u] \in Requests
    BY <1>5, <1>6 DEF IInv, Slab, Shape
  <2> QED
    BY <1>2, <2>1, <2>2, <2>3 DEF Slab, Shape
<1>8. \A s \in Taken : slots[s].entry \in Requests /\ ~Conflict(r, slots[s].entry)
  BY <1>1, TakenEntries, CanAcquireTaken DEF Slab
<1>9. Apart'
  <2>1. \A s \in Taken : ~Conflict(slots[s].entry, r)
    BY <1>8, ConflictSymmetric
  <2> QED
    BY <2>1, <1>2, <1>8 DEF Apart, IInv
<1>10. Owned'
  <2>1. PICK f \in [Holders -> Taken] : Owns(f)
    BY DEF IInv, Owned
  <2>2. PICK g : g = [u \in Holders \cup {t} |-> IF u = t THEN n ELSE f[u]]
    OBVIOUS
  <2>3. g[t] = n /\ \A u \in Holders : g[u] = f[u] /\ f[u] \in Taken /\ u # t /\ u \in Threads
    BY <2>1, <2>2, <1>4 DEF Holders
  <2>4. g \in [Holders' -> Taken']
    BY <2>1, <2>2, <1>2, <1>4
  <2>5. \A u \in Holders' : g[u] \in Taken' /\ slots'[g[u]].entry = request'[u]
    BY <2>1, <2>3, <1>2, <1>4, <1>5, <1>6 DEF Owns
  <2>6. \A u \in Holders' : guard'[u] = IF request'[u].mode = "WriteBatch" THEN g[u] ELSE 0
    BY <2>1, <2>3, <1>4, <1>5, <1>6 DEF Owns
  <2>7. \A u, v \in Holders' : g[u] = g[v] => u = v
    BY <2>1, <2>3, <1>2, <1>4 DEF Owns
  <2>8. \A s \in Taken' : \E u \in Holders' : g[u] = s
    BY <2>1, <2>3, <1>2, <1>4 DEF Owns
  <2>9. Owns(g)'
    BY <2>5, <2>6, <2>7, <2>8 DEF Owns
  <2> QED
    BY <2>4, <2>9 DEF Owned
<1>11. ParkedIsBlocked'
  <2>1. ASSUME NEW u \in Threads, pc'[u] = "parked" PROVE ~CanAcquire(request[u])'
    <3>1. u # t /\ pc[u] = "parked" /\ request'[u] = request[u]
      BY <2>1, <1>5, <1>6
    <3>2. ~CanAcquire(request[u])
      BY <3>1 DEF IInv, ParkedIsBlocked
    <3>3. PICK s \in Taken : Conflict(request[u], slots[s].entry)
      BY <3>2, <1>1, CanAcquireTaken DEF Slab
    <3>4. PICK i \in DOMAIN active_slots' : active_slots'[i] = s
      BY <1>2 DEF IndexOK
    <3> QED
      BY <3>1, <3>3, <3>4, <1>2 DEF CanAcquire, Entry
  <2> QED
    BY <2>1 DEF ParkedIsBlocked
<1>12. CountOK'
  <2>1. \A u \in Threads : guard'[u] \in DOMAIN slots' \cup {0}
    BY <1>2, <1>5, <1>6 DEF IInv, CountOK
  <2>2. r.boxes \subseteq Boxes /\ IsFiniteSet(r.boxes)
    <3>1. r.boxes \subseteq Boxes
      BY RequestAssumption
    <3> QED
      BY <3>1, BoxAssumption, FS_Subset
  <2>3. HeldBoxes' = HeldBoxes \cup ({t} \X r.boxes)
    BY <1>4, <1>5, <1>6, <2>2 DEF HeldBoxes, Holders
  <2>4. HeldBoxes \cap ({t} \X r.boxes) = {}
    BY <1>4 DEF HeldBoxes
  <2>5. /\ IsFiniteSet(HeldBoxes \cup ({t} \X r.boxes))
        /\ Cardinality(HeldBoxes \cup ({t} \X r.boxes)) = Cardinality(HeldBoxes) + Cardinality(r.boxes)
    <3>1. IsFiniteSet(HeldBoxes)
      BY DEF IInv, CountOK
    <3> QED
      BY <2>2, <2>4, <3>1, HeldMore
  <2>6. locked_bounds' = locked_bounds + Cardinality(r.boxes)
    BY <1>1 DEF Insert
  <2> QED
    BY <2>1, <2>3, <2>5, <2>6 DEF IInv, CountOK
<1> QED
  BY <1>7, <1>9, <1>10, <1>11, <1>12 DEF IInv

\* Giving a slot back: a guard whose entry went with it takes over the slot of
\* the guard that gave it back, for the two entries are equal.
LEMMA ReleaseStep ==
    ASSUME IInv, NEW t \in Threads, Release(t)
    PROVE  IInv'
<1> DEFINE s == Released(t)
<1>1. PICK f \in [Holders -> Taken] : Owns(f)
  BY DEF IInv, Owned
<1>2. t \in Holders /\ Slab
  BY DEF Release, Holders, IInv
<1>3. /\ s \in Taken /\ slots[s].entry = request[t]
      /\ request[t].mode = "WriteBatch" => s = f[t]
  BY <1>1, <1>2, ReleasedSlot
<1>4. /\ slots' \in Seq(Slot) /\ active_slots' \in Seq(Nat) /\ first_free_slot' \in Nat
      /\ Taken' = Taken \ {s} /\ DOMAIN slots' = DOMAIN slots
      /\ \A u \in Taken \ {s} : slots'[u].entry = slots[u].entry
      /\ IndexOK' /\ FreeOK'
  <2>1. RemoveSlot(s)
    BY DEF Release
  <2> HIDE DEF s
  <2> QED
    BY <2>1, <1>2, <1>3, RemoveSlab
<1>5. /\ pc' = Notified(t) /\ request' = [request EXCEPT ![t] = NoRequest]
      /\ guard' = [guard EXCEPT ![t] = 0] /\ pc[t] = "holding"
      /\ pc \in [Threads -> PCs] /\ request \in [Threads -> Requests \cup {NoRequest}]
      /\ guard \in [Threads -> Nat]
      /\ \A u \in Threads : pc[u] # "idle" => request[u] \in Requests
  BY DEF Release, IInv, Slab, Shape
<1>6. /\ DOMAIN pc' = Threads /\ pc'[t] = "idle"
      /\ \A u \in Threads \ {t} : pc'[u] = IF pc[u] = "parked" THEN "trying" ELSE pc[u]
      /\ pc' = [u \in Threads |-> pc'[u]]
  BY <1>5 DEF Notified
<1>7. Holders' = Holders \ {t}
  BY <1>5, <1>6 DEF Holders
<1>8. \A u \in Threads \ {t} : request'[u] = request[u] /\ guard'[u] = guard[u]
  BY <1>5
<1>9. Slab'
  <2>1. pc' \in [Threads -> PCs]
    <3>1. \A u \in Threads : pc'[u] \in PCs
      BY <1>5, <1>6 DEF PCs
    <3> QED
      BY <3>1, <1>6
  <2>2. request' \in [Threads -> Requests \cup {NoRequest}] /\ guard' \in [Threads -> Nat]
    BY <1>5
  <2>3. \A u \in Threads : pc'[u] # "idle" => request'[u] \in Requests
    BY <1>5, <1>6, <1>8
  <2> QED
    BY <1>4, <2>1, <2>2, <2>3 DEF Slab, Shape
<1>10. Apart'
  BY <1>4 DEF Apart, IInv
<1>11. Owned'
  <2>1. PICK g : g = [u \in Holders \ {t} |-> IF f[u] = s THEN f[t] ELSE f[u]]
    OBVIOUS
  <2>2. /\ f[t] \in Taken /\ slots[f[t]].entry = request[t]
        /\ \A u \in Holders \ {t} :
             /\ f[u] \in Taken /\ slots[f[u]].entry = request[u] /\ f[u] # f[t]
             /\ request'[u] = request[u] /\ guard'[u] = guard[u]
             /\ guard[u] = IF request[u].mode = "WriteBatch" THEN f[u] ELSE 0
             /\ g[u] = IF f[u] = s THEN f[t] ELSE f[u]
    BY <1>1, <1>2, <1>8, <2>1 DEF Owns, Holders
  <2>3. \A u \in Holders \ {t} :
          /\ g[u] \in Taken \ {s} /\ slots[g[u]].entry = request[u]
          /\ request[u].mode = "WriteBatch" => g[u] = f[u]
    BY <1>3, <2>2
  <2>4. g \in [Holders' -> Taken']
    BY <2>1, <2>3, <1>4, <1>7
  <2>5. \A u \in Holders' : g[u] \in Taken' /\ slots'[g[u]].entry = request'[u]
    BY <2>2, <2>3, <1>4, <1>7
  <2>6. \A u \in Holders' : guard'[u] = IF request'[u].mode = "WriteBatch" THEN g[u] ELSE 0
    BY <2>2, <2>3, <1>7
  <2>7. \A u, v \in Holders' : g[u] = g[v] => u = v
    <3>1. \A u, v \in Holders : f[u] = f[v] => u = v
      BY <1>1 DEF Owns
    <3> QED
      BY <3>1, <2>2, <1>2, <1>7
  <2>8. ASSUME NEW x \in Taken'
        PROVE  \E u \in Holders' : g[u] = x
    <3>1. x \in Taken /\ x # s
      BY <1>4
    <3>2. PICK u \in Holders : f[u] = x
      BY <1>1, <3>1 DEF Owns
    <3>3. CASE u # t
      BY <1>7, <2>2, <3>1, <3>2, <3>3
    <3>4. CASE u = t
      <4>1. PICK v \in Holders : f[v] = s
        BY <1>1, <1>3 DEF Owns
      <4>2. v # t
        BY <3>1, <3>2, <3>4, <4>1
      <4> QED
        BY <1>7, <2>2, <3>2, <3>4, <4>1, <4>2
    <3> QED
      BY <3>3, <3>4
  <2>9. Owns(g)'
    BY <2>5, <2>6, <2>7, <2>8 DEF Owns
  <2> QED
    BY <2>4, <2>9 DEF Owned
<1>12. CountOK'
  <2>1. \A u \in Threads : guard'[u] \in DOMAIN slots' \cup {0}
    <3>1. guard'[t] = 0
      BY <1>5
    <3> QED
      BY <1>4, <1>8, <3>1 DEF IInv, CountOK
  <2>2. PICK B : B = request[t].boxes
    OBVIOUS
  <2>3. B \subseteq Boxes /\ IsFiniteSet(B)
    <3>1. B \subseteq Boxes
      BY <1>5, <2>2, RequestAssumption
    <3> QED
      BY <3>1, BoxAssumption, FS_Subset
  <2>4. HeldBoxes = HeldBoxes' \cup ({t} \X B)
    BY <1>2, <1>7, <1>8, <2>2, <2>3 DEF HeldBoxes, Holders
  <2>5. HeldBoxes' \cap ({t} \X B) = {}
    BY <1>7 DEF HeldBoxes
  <2>6. IsFiniteSet(HeldBoxes')
    BY <2>4, FS_Subset DEF IInv, CountOK
  <2>7. Cardinality(HeldBoxes) = Cardinality(HeldBoxes') + Cardinality(B)
    BY <2>3, <2>4, <2>5, <2>6, HeldMore
  <2>8. locked_bounds' = locked_bounds - Cardinality(B)
    <3>1. RemoveSlot(Released(t))
      BY DEF Release
    <3> QED
      BY <1>3, <2>2, <3>1 DEF RemoveSlot
  <2>9. Cardinality(HeldBoxes') \in Nat /\ Cardinality(B) \in Nat
    BY <2>3, <2>6, FS_CardinalityType
  <2> QED
    BY <2>1, <2>6, <2>7, <2>8, <2>9 DEF IInv, CountOK
<1>13. ParkedIsBlocked'
  <2>1. \A u \in Threads : pc'[u] # "parked"
    BY <1>6
  <2> QED
    BY <2>1 DEF ParkedIsBlocked
<1> QED
  BY <1>9, <1>10, <1>11, <1>12, <1>13 DEF IInv

\* Every step keeps the invariant.
LEMMA StepHolds == IInv /\ [Next]_vars => IInv'
<1> SUFFICES ASSUME IInv, [Next]_vars PROVE IInv'
  OBVIOUS
<1>1. /\ pc \in [Threads -> PCs] /\ request \in [Threads -> Requests \cup {NoRequest}]
      /\ \A u \in Threads : pc[u] # "idle" => request[u] \in Requests
      /\ ParkedIsBlocked
  BY DEF IInv, Slab, Shape
<1>2. ASSUME NEW t \in Threads, NEW r \in Requests, Ask(t, r) PROVE IInv'
  <2>1. /\ UNCHANGED <<registry, guard>> /\ pc[t] = "idle"
        /\ pc' = [pc EXCEPT ![t] = "trying"] /\ request' = [request EXCEPT ![t] = r]
    BY <1>2 DEF Ask
  <2>2. \A u \in Threads \ {t} : pc'[u] = pc[u] /\ request'[u] = request[u]
    BY <1>1, <2>1
  <2>3. pc'[t] = "trying" /\ request'[t] = r
    BY <1>1, <2>1
  <2>4. Shape'
    BY <1>1, <2>1, <2>2, <2>3 DEF IInv, Slab, Shape, registry, PCs
  <2>5. Holders' = Holders /\ \A u \in Holders : request'[u] = request[u]
    BY <2>1, <2>2, <2>3 DEF Holders
  <2>6. ParkedIsBlocked'
    BY <1>1, <2>1, <2>2, <2>3 DEF ParkedIsBlocked, CanAcquire, Entry, registry
  <2> QED
    BY <2>1, <2>4, <2>5, <2>6, QuietStep DEF IInv
<1>3. ASSUME NEW t \in Threads, NEW r \in Requests, TryAcquire(t, r) PROVE IInv'
  BY <1>3, GrantStep DEF TryAcquire
<1>4. ASSUME NEW t \in Threads, Acquire(t) PROVE IInv'
  <2>1. pc[t] = "trying" /\ Grant(t, request[t]) /\ request[t] \in Requests
    BY <1>1, <1>4 DEF Acquire
  <2> QED
    BY <2>1, GrantStep
<1>5. ASSUME NEW t \in Threads, Park(t) PROVE IInv'
  <2>1. /\ UNCHANGED <<registry, guard, request>> /\ pc[t] = "trying"
        /\ pc' = [pc EXCEPT ![t] = "parked"] /\ ~CanAcquire(request[t])
    BY <1>5 DEF Park
  <2>2. pc'[t] = "parked" /\ \A u \in Threads \ {t} : pc'[u] = pc[u]
    BY <1>1, <2>1
  <2>3. Shape'
    BY <1>1, <2>1, <2>2 DEF IInv, Slab, Shape, registry, PCs
  <2>4. Holders' = Holders /\ \A u \in Holders : request'[u] = request[u]
    BY <2>1, <2>2 DEF Holders
  <2>5. ParkedIsBlocked'
    BY <1>1, <2>1, <2>2 DEF ParkedIsBlocked, CanAcquire, Entry, registry
  <2> QED
    BY <2>1, <2>3, <2>4, <2>5, QuietStep DEF IInv
<1>6. ASSUME NEW t \in Threads, ReservationFails(t) PROVE IInv'
  <2>1. /\ UNCHANGED <<registry, guard>> /\ pc[t] = "trying"
        /\ pc' = [pc EXCEPT ![t] = "idle"] /\ request' = [request EXCEPT ![t] = NoRequest]
    BY <1>6 DEF ReservationFails
  <2>2. pc'[t] = "idle"
        /\ \A u \in Threads \ {t} : pc'[u] = pc[u] /\ request'[u] = request[u]
    BY <1>1, <2>1
  <2>3. Shape'
    BY <1>1, <2>1, <2>2 DEF IInv, Slab, Shape, registry, PCs
  <2>4. Holders' = Holders /\ \A u \in Holders : request'[u] = request[u]
    BY <2>1, <2>2 DEF Holders
  <2>5. ParkedIsBlocked'
    BY <1>1, <2>1, <2>2 DEF ParkedIsBlocked, CanAcquire, Entry, registry
  <2> QED
    BY <2>1, <2>3, <2>4, <2>5, QuietStep DEF IInv
<1>7. CASE UNCHANGED vars
  <2>1. UNCHANGED <<registry, guard, pc, request>>
    BY <1>7 DEF vars
  <2>2. Shape' /\ ParkedIsBlocked' /\ Holders' = Holders
    BY <2>1 DEF IInv, Slab, Shape, ParkedIsBlocked, CanAcquire, Entry, registry, Holders
  <2> QED
    BY <2>1, <2>2, QuietStep DEF IInv
<1> QED
  BY <1>2, <1>3, <1>4, <1>5, <1>6, <1>7, ReleaseStep DEF Next
-----------------------------------------------------------------------------
(* The theorems *)

\* The inductive invariant: the slab is sound, no two entries conflict, every
\* holder has an entry of its own, and whoever sleeps is blocked.
THEOREM Invariance == Spec => []IInv
BY InitHolds, StepHolds, PTL DEF Spec

\* Two threads never hold conflicting regions, although a guard of one box may
\* give back the slot that an equal guard was given (lock_*, unlock).
THEOREM MutualExclusion == Spec => []Exclusion
<1>1. IInv => Exclusion
  <2> SUFFICES ASSUME IInv, NEW t \in Holders, NEW u \in Holders, t # u
               PROVE  ~Conflict(request[t], request[u])
    BY DEF Exclusion
  <2>1. PICK f \in [Holders -> Taken] : Owns(f)
    BY DEF IInv, Owned
  <2>2. f[t] \in Taken /\ f[u] \in Taken /\ f[t] # f[u]
        /\ slots[f[t]].entry = request[t] /\ slots[f[u]].entry = request[u]
    BY <2>1 DEF Owns
  <2> QED
    BY <2>2 DEF IInv, Apart
<1> QED
  BY <1>1, Invariance, PTL

\* A one-to-one map of a finite set onto another counts it.
LEMMA Counted ==
    ASSUME NEW S, NEW T, IsFiniteSet(S), NEW f \in [S -> T],
           \A x, y \in S : f[x] = f[y] => x = y, \A z \in T : \E x \in S : f[x] = z
    PROVE  Cardinality(T) = Cardinality(S)
<1>1. f \in Bijection(S, T)
  BY DEF Bijection, Injection, IsInjective, Surjection
<1> QED
  BY <1>1, FS_Bijection DEF ExistsBijection

\* The slab holds exactly what the guards stand for, after any order of
\* releases, and its free list reaches every slot that is not taken.
THEOREM SlabIsGuards == Spec => []SlabMatchesGuards
<1>1. IInv => SlabMatchesGuards
  <2> SUFFICES ASSUME IInv PROVE SlabMatchesGuards
    OBVIOUS
  <2>1. Shape /\ IndexOK /\ FreeOK /\ CountOK
    BY DEF IInv, Slab
  <2>2. /\ slots \in Seq(Slot) /\ active_slots \in Seq(Nat)
        /\ Len(slots) \in Nat /\ DOMAIN slots = 1..Len(slots)
        /\ Len(active_slots) \in Nat /\ DOMAIN active_slots = 1..Len(active_slots)
    BY <2>1, LenProperties DEF Shape
  <2>3. TypeOK
    <3>1. active_slots \in Seq(DOMAIN slots)
      <4>1. active_slots \in [1..Len(active_slots) -> DOMAIN slots]
        <5>1. \A i \in 1..Len(active_slots) : active_slots[i] \in DOMAIN slots
          BY <2>1, <2>2 DEF IndexOK, Taken
        <5>2. active_slots = [i \in 1..Len(active_slots) |-> active_slots[i]]
          BY <2>2, LenProperties
        <5> QED
          BY <5>1, <5>2
      <4> QED
        BY <2>2, <4>1, SeqDef
    <3>2. first_free_slot \in 0..Len(slots)
      BY <2>1, <2>2, FreeHead DEF VacantSlots
    <3>3. locked_bounds \in Nat
      BY <2>1, FS_CardinalityType DEF CountOK
    <3>4. guard \in [Threads -> 0..Len(slots)]
      <4>1. \A t \in Threads : guard[t] \in 0..Len(slots)
        BY <2>1, <2>2 DEF CountOK
      <4> QED
        BY <2>1, <4>1 DEF Shape
    <3> QED
      BY <2>1, <2>2, <3>1, <3>2, <3>3, <3>4 DEF TypeOK, Shape, Slot
  <2>4. SlabSound
    <3>1. \A i \in DOMAIN active_slots : Entry(i) # NoRequest /\ slots[active_slots[i]].link = i
      BY <2>1 DEF IndexOK, Taken, Entry
    <3>2. \A s \in DOMAIN slots \ VacantSlots : \E i \in DOMAIN active_slots : active_slots[i] = s
      BY <2>1 DEF IndexOK, Taken, VacantSlots
    <3>3. PICK n \in Nat : \E walk \in [0..n -> VacantSlots \cup {0}] :
            FreeWalk(walk, n) /\ \A i, j \in 0..n : walk[i] = walk[j] => i = j
      BY <2>1 DEF FreeOK
    <3>4. PICK walk \in [0..n -> VacantSlots \cup {0}] :
            FreeWalk(walk, n) /\ \A i, j \in 0..n : walk[i] = walk[j] => i = j
      BY <3>3
    <3>5. Cardinality(VacantSlots) = n
      <4>1. PICK f : f = [i \in 1..n |-> walk[i - 1]]
        OBVIOUS
      <4>2. \A i \in 1..n : i - 1 \in 0..n /\ f[i] = walk[i - 1]
        BY <4>1
      <4>3. \A i \in 1..n : f[i] \in VacantSlots
        BY <3>4, <4>2 DEF FreeWalk
      <4>4. f \in [1..n -> VacantSlots]
        BY <4>1, <4>3
      <4>5. ASSUME NEW i \in 1..n, NEW j \in 1..n, f[i] = f[j]
            PROVE  i = j
        <5>1. i - 1 = j - 1
          BY <3>4, <4>2, <4>5
        <5> QED
          BY <5>1
      <4>6. ASSUME NEW s \in VacantSlots
            PROVE  \E i \in 1..n : f[i] = s
        <5>1. PICK j \in 0..n : walk[j] = s
          BY <3>4 DEF FreeWalk
        <5>2. s # 0
          BY <2>2 DEF VacantSlots
        <5>3. j # n
          BY <3>4, <5>1, <5>2 DEF FreeWalk
        <5>4. j + 1 \in 1..n /\ (j + 1) - 1 = j
          BY <5>3
        <5> QED
          BY <4>2, <5>1, <5>4
      <4>7. IsFiniteSet(1..n) /\ Cardinality(1..n) = n
        BY FS_Interval
      <4> QED
        BY <4>4, <4>5, <4>6, <4>7, Counted
    <3> QED
      BY <3>1, <3>2, <3>4, <3>5 DEF SlabSound
  <2>5. PICK f \in [Holders -> Taken] : Owns(f)
    BY DEF IInv, Owned
  <2>6. ASSUME NEW r \in Requests
        PROVE  Cardinality({i \in DOMAIN active_slots : Entry(i) = r}) = Cardinality({t \in Holders : request[t] = r})
    <3>1. PICK H : H = {t \in Holders : request[t] = r}
      OBVIOUS
    <3>2. PICK I : I = {i \in DOMAIN active_slots : Entry(i) = r}
      OBVIOUS
    <3>3. IsFiniteSet(H)
      <4>1. H \in SUBSET Threads
        BY <3>1 DEF Holders
      <4> QED
        BY <4>1, BoxAssumption, FS_Subset
    <3>4. PICK g : g = [t \in H |-> slots[f[t]].link]
      OBVIOUS
    <3>5. ASSUME NEW t \in H
          PROVE  g[t] \in I /\ active_slots[g[t]] = f[t] /\ t \in Holders
      <4>1. t \in Holders /\ request[t] = r /\ f[t] \in Taken /\ slots[f[t]].entry = r
        BY <2>5, <3>1 DEF Owns
      <4>2. g[t] \in DOMAIN active_slots /\ active_slots[g[t]] = f[t]
        BY <2>1, <3>4, <4>1 DEF IndexOK
      <4> QED
        BY <3>2, <4>1, <4>2 DEF Entry
    <3>6. g \in [H -> I]
      BY <3>4, <3>5
    <3>7. \A t, u \in H : g[t] = g[u] => t = u
      BY <2>5, <3>5 DEF Owns
    <3>8. ASSUME NEW i \in I
          PROVE  \E t \in H : g[t] = i
      <4>1. i \in DOMAIN active_slots /\ slots[active_slots[i]].entry = r
        BY <3>2 DEF Entry
      <4>2. active_slots[i] \in Taken /\ slots[active_slots[i]].link = i
        BY <2>1, <4>1 DEF IndexOK
      <4>3. PICK t \in Holders : f[t] = active_slots[i]
        BY <2>5, <4>2 DEF Owns
      <4>4. t \in H
        BY <2>5, <3>1, <4>1, <4>3 DEF Owns
      <4> QED
        BY <3>4, <4>2, <4>3, <4>4
    <3>9. Cardinality(I) = Cardinality(H)
      BY <3>3, <3>6, <3>7, <3>8, Counted
    <3> QED
      BY <3>1, <3>2, <3>9
  <2>7. ASSUME NEW t \in Holders, request[t].mode = "WriteBatch"
        PROVE  /\ slots[guard[t]].entry = request[t]
               /\ \A u \in Holders : guard[u] = guard[t] => u = t
    <3>1. guard[t] = f[t] /\ f[t] \in Taken /\ slots[f[t]].entry = request[t]
      BY <2>5, <2>7 DEF Owns
    <3>2. f[t] # 0
      BY <2>2, <3>1 DEF Taken
    <3> QED
      BY <2>5, <3>1, <3>2 DEF Owns
  <2>8. GuardsMatchEntries
    BY <2>1, <2>6, <2>7 DEF GuardsMatchEntries, CountOK
  <2> QED
    BY <2>3, <2>4, <2>8 DEF SlabMatchesGuards
<1> QED
  BY <1>1, Invariance, PTL

\* A thread sleeps on the condition variable only while an entry conflicts with
\* its request: notify_all at every release misses nobody.
THEOREM NoneAsleep == Spec => []ParkedIsBlocked
<1>1. IInv => ParkedIsBlocked
  BY DEF IInv
<1> QED
  BY <1>1, Invariance, PTL

\* The slab, its free list and the condition variable implement what RegionLock
\* promises, for any threads, boxes and requests; the shared voxel data builds
\* on that promise.
THEOREM SlabImplementsRegions == Spec => ImplementsRegionLock
<1> DEFINE held == [t \in Threads |-> IF pc[t] = "holding" THEN request[t] ELSE NoRequest]
<1>1. Init => Region!Init
  BY DEF Init, Region!Init
<1>2. IInv /\ [Next]_vars => [Region!Next]_held
  <2> SUFFICES ASSUME IInv, [Next]_vars PROVE [Region!Next]_held
    OBVIOUS
  <2>1. /\ pc \in [Threads -> PCs] /\ request \in [Threads -> Requests \cup {NoRequest}]
        /\ \A u \in Threads : pc[u] # "idle" => request[u] \in Requests
    BY DEF IInv, Slab, Shape
  <2>2. ASSUME NEW t \in Threads, NEW r \in Requests, pc[t] # "holding", Grant(t, r)
        PROVE  Region!Next
    <3>1. /\ pc' = [pc EXCEPT ![t] = "holding"] /\ request' = [request EXCEPT ![t] = r]
          /\ CanAcquire(r)
      BY <2>2 DEF Grant
    <3>2. held[t] = NoRequest
      BY <2>2
    <3>3. held' = [held EXCEPT ![t] = r]
      BY <2>1, <2>2, <3>1
    <3>4. ASSUME NEW u \in Threads, held[u] # NoRequest PROVE ~Conflict(held[u], r)
      <4>1. u \in Holders /\ held[u] = request[u]
        BY <3>4 DEF Holders
      <4>2. PICK f \in [Holders -> Taken] : Owns(f)
        BY DEF IInv, Owned
      <4>3. f[u] \in Taken /\ slots[f[u]].entry = request[u]
        BY <4>1, <4>2 DEF Owns
      <4>4. ~Conflict(r, request[u])
        BY <3>1, <4>3, CanAcquireTaken DEF IInv, Slab
      <4>5. request[u] \in Requests
        BY <2>1, <4>1 DEF Holders
      <4> HIDE DEF held
      <4> QED
        BY <4>1, <4>4, <4>5, ConflictSymmetric
    <3>5. Region!Acquire(t, r)
      BY <3>2, <3>3, <3>4 DEF Region!Acquire
    <3> QED
      BY <3>5 DEF Region!Next
  <2>3. ASSUME NEW t \in Threads, NEW r \in Requests, Ask(t, r) \/ TryAcquire(t, r)
        PROVE  [Region!Next]_held
    <3>1. CASE Ask(t, r)
      <4>1. /\ pc[t] = "idle" /\ pc' = [pc EXCEPT ![t] = "trying"]
            /\ request' = [request EXCEPT ![t] = r]
        BY <3>1 DEF Ask
      <4>2. held' = held
        BY <2>1, <4>1
      <4> QED
        BY <4>2
    <3>2. CASE TryAcquire(t, r)
      BY <2>2, <3>2 DEF TryAcquire
    <3> QED
      BY <2>3, <3>1, <3>2
  <2>4. ASSUME NEW t \in Threads, Acquire(t) PROVE [Region!Next]_held
    <3>1. pc[t] = "trying" /\ request[t] \in Requests /\ Grant(t, request[t])
      BY <2>1, <2>4 DEF Acquire
    <3>2. PICK r \in Requests : r = request[t]
      BY <3>1
    <3> QED
      BY <2>2, <3>1, <3>2 DEF Grant
  <2>5. ASSUME NEW t \in Threads, Park(t) \/ ReservationFails(t) PROVE [Region!Next]_held
    <3>1. /\ pc[t] = "trying" /\ pc' \in {[pc EXCEPT ![t] = "parked"], [pc EXCEPT ![t] = "idle"]}
          /\ request' = request \/ request' = [request EXCEPT ![t] = NoRequest]
      BY <2>5 DEF Park, ReservationFails
    <3>2. held' = held
      BY <2>1, <3>1
    <3> QED
      BY <3>2
  <2>6. ASSUME NEW t \in Threads, Release(t) PROVE [Region!Next]_held
    <3>1. pc[t] = "holding" /\ pc' = Notified(t) /\ request' = [request EXCEPT ![t] = NoRequest]
      BY <2>6 DEF Release
    <3>2. pc'[t] = "idle" /\ \A u \in Threads \ {t} :
            request'[u] = request[u] /\ (pc'[u] = "holding" <=> pc[u] = "holding")
      BY <2>1, <3>1 DEF Notified
    <3>3. held[t] # NoRequest
      BY <2>1, <3>1, RequestAssumption
    <3>4. held' = [held EXCEPT ![t] = NoRequest]
      BY <3>2
    <3>5. Region!Release(t)
      BY <3>3, <3>4 DEF Region!Release
    <3> QED
      BY <3>5 DEF Region!Next
  <2>7. CASE UNCHANGED vars
    BY <2>7 DEF vars
  <2> QED
    BY <2>3, <2>4, <2>5, <2>6, <2>7 DEF Next
<1> QED
  BY <1>1, <1>2, Invariance, PTL DEF Spec, ImplementsRegionLock, Region!Spec
=============================================================================
