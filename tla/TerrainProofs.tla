------------------------------ MODULE TerrainProofs -------------------------------
(***************************************************************************)
(* Machine-checked proofs about TerrainPaging and TerrainMeshing for any   *)
(* locations, halos and limits of retries: every viewer of a block of this *)
(* terrain is counted exactly once, every load in flight has exactly its   *)
(* own request, meshing leaves the paging of the blocks to itself, and a   *)
(* mesh that comes to rest shows the blocks of this terrain as they are.   *)
(***************************************************************************)
EXTENDS TerrainMeshing, TLAPS

-----------------------------------------------------------------------------
(* Paging: the viewers of a block and the loads under way *)


(* The strengthening of EveryViewCounted.  A block in storage that paging    *)
(* does not recognise came from a server, and nobody counts on it there.     *)
CountOK(k) ==
    /\ Local(k) => ~Mismatch(k)
    /\ ~Mismatch(k) => views[k] = IF Present(k) THEN tracked[k] ELSE Refs(k)
    /\ Present(k) /\ Mismatch(k) => block[k].viewers = 0
    /\ loading[k] # None => tracked[k] = None

(* The strengthening of NoLoadLost: generations in use are in the past, and *)
(* an entry past its last retry waits for no answer.                         *)
LoadOK(k) ==
    loading[k] # None =>
        /\ loading[k].gen < generation
        /\ loading[k].state = "InFlight" <=> Asked(k)
        /\ loading[k].retries <= MaxLoadRetries \/ loading[k].state = "Exhausted"

IssuedBefore == \A r \in requests : r.gen < generation

IInv ==
    /\ TypeOK
    /\ \A k \in Locations : CountOK(k)
    /\ \A k \in Locations : LoadOK(k)
    /\ IssuedBefore

-----------------------------------------------------------------------------
\* What a location shows when no action touched it.
LEMMA Untouched ==
    ASSUME NEW k \in Locations, CountOK(k),
           views'[k] = views[k], block'[k] = block[k],
           tracked'[k] = tracked[k], loading'[k] = loading[k]
    PROVE  CountOK(k)'
BY DEF CountOK, Local, Mismatch, Present, Absent, Refs

LEMMA LoadUntouched ==
    ASSUME NEW k \in Locations, LoadOK(k), loading'[k] = loading[k],
           TypeOK, generation' \in Nat, generation' >= generation,
           Asked(k)' <=> Asked(k)
    PROVE  LoadOK(k)'
<1>1. CASE loading[k] = None BY <1>1 DEF LoadOK
<1>2. CASE loading[k] # None
  <2>1. loading[k].gen \in Nat /\ generation \in Nat BY <1>2 DEF TypeOK, Entries
  <2>2. QED BY <1>2, <2>1 DEF LoadOK
<1>3. QED BY <1>1, <1>2

LEMMA ViewStep ==
    ASSUME PagingAssumption, IInv, NEW l \in Locations, View(l) PROVE IInv'
<1>1. ~Mismatch(l) /\ views' = [views EXCEPT ![l] = @ + 1] BY DEF View, Set
<1>2. TypeOK /\ views[l] \in Nat /\ generation \in Nat /\ CountOK(l) /\ LoadOK(l) BY DEF IInv, TypeOK
<1>3. CASE Present(l) /\ SetResident(l, tracked[l] + 1)
  <2>1. tracked[l] \in Nat /\ block[l] \in Blocks /\ loading[l] = None
    BY <1>1, <1>2, <1>3 DEF Mismatch, Present, Absent, TypeOK
  <2>2. /\ tracked' = [tracked EXCEPT ![l] = tracked[l] + 1]
        /\ block' = [block EXCEPT ![l].viewers = tracked[l] + 1]
        /\ UNCHANGED <<loading, requests, generation>>
    BY <1>3 DEF SetResident, Set
  <2>3. block'[l] = [block[l] EXCEPT !.viewers = tracked[l] + 1] /\ block'[l] \in Blocks
    BY <1>2, <2>1, <2>2 DEF TypeOK, Blocks
  <2>4. TypeOK'
    BY <1>1, <1>2, <2>1, <2>2, <2>3 DEF TypeOK
  <2>5. CountOK(l)'
    BY <1>1, <1>2, <1>3, <2>1, <2>2, <2>3, PagingAssumption
    DEF CountOK, Mismatch, Present, Absent, TypeOK, Blocks, PagingAssumption, Local
  <2>6. \A k \in Locations : CountOK(k)'
    <3> SUFFICES ASSUME NEW k \in Locations, k # l PROVE CountOK(k)' BY <2>5
    <3>1. QED BY <1>1, <1>2, <2>2, Untouched DEF IInv, TypeOK
  <2>7. \A k \in Locations : LoadOK(k)'
    BY <1>2, <2>2 DEF LoadOK, IInv, Asked
  <2>8. QED BY <2>2, <2>4, <2>6, <2>7 DEF IInv, IssuedBefore
<1>4. CASE Absent(l) /\ OnItsWay(l) /\ Join(l, Refs(l) + 1)
  <2>1. loading[l] \in Entries /\ loading[l] # None /\ Refs(l) \in Nat
    BY <1>2, <1>4 DEF OnItsWay, TypeOK, Refs, Entries
  <2>2. loading' = [loading EXCEPT ![l].refs = Refs(l) + 1] /\ UNCHANGED <<block, tracked, requests, generation>>
    BY <1>4 DEF Join
  <2>3. loading'[l] = [loading[l] EXCEPT !.refs = Refs(l) + 1] /\ loading'[l] \in Entries /\ loading'[l] # None
    BY <1>2, <2>1, <2>2, PagingAssumption DEF TypeOK, Entries, PagingAssumption
  <2>4. TypeOK' BY <1>1, <1>2, <2>2, <2>3 DEF TypeOK
  <2>5. CountOK(l)'
    BY <1>1, <1>2, <1>4, <2>1, <2>2, <2>3
    DEF CountOK, Mismatch, Present, Absent, TypeOK, Entries, Refs, Local
  <2>6. LoadOK(l)'
    BY <1>2, <2>1, <2>2, <2>3 DEF LoadOK, Asked, Entries
  <2>7. \A k \in Locations : CountOK(k)' /\ LoadOK(k)'
    <3> SUFFICES ASSUME NEW k \in Locations, k # l PROVE CountOK(k)' /\ LoadOK(k)' BY <2>5, <2>6
    <3>0. loading'[k] = loading[k] /\ views'[k] = views[k] BY <1>1, <1>2, <2>2 DEF TypeOK
    <3>1. CountOK(k)' BY <3>0, <2>2, Untouched DEF IInv
    <3>2. LoadOK(k)' BY <1>2, <3>0, <2>2 DEF IInv, LoadOK, Asked
    <3>3. QED BY <3>1, <3>2
  <2>8. QED BY <2>2, <2>4, <2>7 DEF IInv, IssuedBefore
<1>5. CASE Absent(l) /\ ~OnItsWay(l) /\ Request(l, Refs(l) + 1)
  <2>1. Refs(l) \in Nat BY <1>2 DEF TypeOK, Refs, Entries
  <2>2. /\ generation < MaxGeneration /\ generation' = generation + 1
        /\ loading' = [loading EXCEPT ![l] = Entry(Refs(l) + 1, 0, generation, "Queued")]
        /\ UNCHANGED <<block, tracked, requests>>
    BY <1>5 DEF Request, Set
  <2> DEFINE new == Entry(Refs(l) + 1, 0, generation, "Queued")
  <2>3. loading'[l] = new BY <1>2, <2>2 DEF TypeOK
  <2>4. /\ new \in Entries /\ new # None
        /\ new.refs = Refs(l) + 1 /\ new.gen = generation /\ new.state = "Queued" /\ new.retries = 0
    BY <1>2, <2>1, PagingAssumption DEF Entry, Entries, Outstanding, PagingAssumption, TypeOK
  <2> HIDE DEF new
  <2>5. TypeOK'
    BY <1>1, <1>2, <2>2, <2>3, <2>4, PagingAssumption DEF TypeOK, PagingAssumption
  <2>6. CountOK(l)'
    BY <1>1, <1>2, <1>5, <2>1, <2>2, <2>3, <2>4
    DEF CountOK, Mismatch, Present, Absent, TypeOK, Refs, Local
  <2>7. ~Asked(l)' BY <2>2, <2>3, <2>4, <1>2 DEF Asked, IInv, IssuedBefore, TypeOK
  <2>8. LoadOK(l)' BY <1>2, <2>2, <2>3, <2>4, <2>7, PagingAssumption DEF LoadOK, PagingAssumption
  <2>9. \A k \in Locations : CountOK(k)' /\ LoadOK(k)'
    <3> SUFFICES ASSUME NEW k \in Locations, k # l PROVE CountOK(k)' /\ LoadOK(k)' BY <2>6, <2>8
    <3>0. loading'[k] = loading[k] /\ views'[k] = views[k] BY <1>1, <1>2, <2>2 DEF TypeOK
    <3>1. CountOK(k)' BY <3>0, <2>2, Untouched DEF IInv
    <3>2. Asked(k)' <=> Asked(k) BY <3>0, <2>2 DEF Asked
    <3>3. LoadOK(k)' BY <1>2, <3>0, <3>2, <2>2, LoadUntouched DEF IInv
    <3>4. QED BY <3>1, <3>3
  <2>10. IssuedBefore' BY <1>2, <2>2 DEF IInv, IssuedBefore, TypeOK
  <2>11. QED BY <2>5, <2>9, <2>10 DEF IInv
<1>6. QED BY <1>3, <1>4, <1>5 DEF View

LEMMA UnviewStep ==
    ASSUME PagingAssumption, IInv, NEW l \in Locations, Unview(l) PROVE IInv'
<1>1. ~Mismatch(l) /\ views' = [views EXCEPT ![l] = @ - 1] /\ views[l] > 0 BY DEF Unview, Set
<1>2. /\ TypeOK /\ views[l] \in Nat /\ generation \in Nat /\ CountOK(l) /\ LoadOK(l)
      /\ views[l] = IF Present(l) THEN tracked[l] ELSE Refs(l)
  BY <1>1 DEF IInv, TypeOK, CountOK
<1>3. CASE Present(l) /\ tracked[l] > 1 /\ SetResident(l, tracked[l] - 1)
  <2>1. tracked[l] \in Nat /\ block[l] \in Blocks /\ loading[l] = None
    BY <1>1, <1>2, <1>3 DEF Mismatch, Present, Absent, TypeOK
  <2>2. /\ tracked' = [tracked EXCEPT ![l] = tracked[l] - 1]
        /\ block' = [block EXCEPT ![l].viewers = tracked[l] - 1]
        /\ UNCHANGED <<loading, requests, generation>>
    BY <1>3 DEF SetResident, Set
  <2>3. block'[l] = [block[l] EXCEPT !.viewers = tracked[l] - 1] /\ block'[l] \in Blocks
    BY <1>2, <1>3, <2>1, <2>2 DEF TypeOK, Blocks
  <2>4. TypeOK'
    BY <1>1, <1>2, <1>3, <2>1, <2>2, <2>3 DEF TypeOK
  <2>5. CountOK(l)'
    BY <1>1, <1>2, <1>3, <2>1, <2>2, <2>3, PagingAssumption
    DEF CountOK, Mismatch, Present, Absent, TypeOK, Blocks, PagingAssumption, Local
  <2>6. \A k \in Locations : CountOK(k)'
    <3> SUFFICES ASSUME NEW k \in Locations, k # l PROVE CountOK(k)' BY <2>5
    <3>1. QED BY <1>1, <1>2, <2>2, Untouched DEF IInv, TypeOK
  <2>7. \A k \in Locations : LoadOK(k)'
    BY <1>2, <2>2 DEF LoadOK, IInv, Asked
  <2>8. QED BY <2>2, <2>4, <2>6, <2>7 DEF IInv, IssuedBefore
<1>4. CASE Present(l) /\ tracked[l] = 1 /\ Remove(l)
  <2>1. /\ tracked' = [tracked EXCEPT ![l] = None] /\ block' = [block EXCEPT ![l] = None]
        /\ UNCHANGED <<loading, requests, generation>>
    BY <1>4 DEF Remove, Set
  <2>2. TypeOK' BY <1>1, <1>2, <2>1 DEF TypeOK
  <2>3. CountOK(l)'
    BY <1>1, <1>2, <1>4, <2>1 DEF CountOK, Mismatch, Present, Absent, Local, Refs, TypeOK
  <2>4. \A k \in Locations : CountOK(k)'
    <3> SUFFICES ASSUME NEW k \in Locations, k # l PROVE CountOK(k)' BY <2>3
    <3>1. QED BY <1>1, <1>2, <2>1, Untouched DEF IInv, TypeOK
  <2>5. \A k \in Locations : LoadOK(k)' BY <2>1 DEF LoadOK, IInv, Asked
  <2>6. QED BY <2>1, <2>2, <2>4, <2>5 DEF IInv, IssuedBefore
<1>5. CASE Absent(l) /\ Refs(l) > 1 /\ Join(l, Refs(l) - 1)
  <2>1. loading[l] \in Entries /\ loading[l] # None /\ Refs(l) \in Nat
    BY <1>2, <1>5 DEF TypeOK, Refs, Entries
  <2>2. loading' = [loading EXCEPT ![l].refs = Refs(l) - 1] /\ UNCHANGED <<block, tracked, requests, generation>>
    BY <1>5 DEF Join
  <2>3. loading'[l] = [loading[l] EXCEPT !.refs = Refs(l) - 1] /\ loading'[l] \in Entries /\ loading'[l] # None
    BY <1>2, <1>5, <2>1, <2>2, PagingAssumption DEF TypeOK, Entries, PagingAssumption
  <2>4. TypeOK' BY <1>1, <1>2, <2>2, <2>3 DEF TypeOK
  <2>5. CountOK(l)'
    BY <1>1, <1>2, <1>5, <2>1, <2>2, <2>3
    DEF CountOK, Mismatch, Present, Absent, TypeOK, Entries, Refs, Local
  <2>6. LoadOK(l)' BY <1>2, <2>1, <2>2, <2>3 DEF LoadOK, Asked, Entries
  <2>7. \A k \in Locations : CountOK(k)' /\ LoadOK(k)'
    <3> SUFFICES ASSUME NEW k \in Locations, k # l PROVE CountOK(k)' /\ LoadOK(k)' BY <2>5, <2>6
    <3>0. loading'[k] = loading[k] /\ views'[k] = views[k] BY <1>1, <1>2, <2>2 DEF TypeOK
    <3>1. CountOK(k)' BY <3>0, <2>2, Untouched DEF IInv
    <3>2. LoadOK(k)' BY <1>2, <3>0, <2>2 DEF IInv, LoadOK, Asked
    <3>3. QED BY <3>1, <3>2
  <2>8. QED BY <2>2, <2>4, <2>7 DEF IInv, IssuedBefore
<1>6. CASE Absent(l) /\ Refs(l) = 1 /\ Abandon(l)
  <2>1. loading' = [loading EXCEPT ![l] = None] /\ UNCHANGED <<block, tracked, requests, generation>>
    BY <1>6 DEF Abandon, Set
  <2>2. TypeOK' BY <1>1, <1>2, <2>1 DEF TypeOK
  <2>3. CountOK(l)'
    BY <1>1, <1>2, <1>6, <2>1 DEF CountOK, Mismatch, Present, Absent, Local, Refs, TypeOK
  <2>4. LoadOK(l)' BY <1>2, <2>1 DEF LoadOK, TypeOK
  <2>5. \A k \in Locations : CountOK(k)' /\ LoadOK(k)'
    <3> SUFFICES ASSUME NEW k \in Locations, k # l PROVE CountOK(k)' /\ LoadOK(k)' BY <2>3, <2>4
    <3>0. loading'[k] = loading[k] /\ views'[k] = views[k] BY <1>1, <1>2, <2>1 DEF TypeOK
    <3>1. CountOK(k)' BY <3>0, <2>1, Untouched DEF IInv
    <3>2. LoadOK(k)' BY <1>2, <3>0, <2>1 DEF IInv, LoadOK, Asked
    <3>3. QED BY <3>1, <3>2
  <2>6. QED BY <2>1, <2>2, <2>5 DEF IInv, IssuedBefore
<1>7. QED BY <1>3, <1>4, <1>5, <1>6 DEF Unview

LEMMA DispatchStep ==
    ASSUME PagingAssumption, IInv, Dispatch PROVE IInv'
<1> DEFINE queued == {l \in Locations : loading[l] # None /\ loading[l].state = "Queued"}
<1>1. TypeOK /\ generation \in Nat BY DEF IInv, TypeOK
<1>2. /\ loading' = [l \in Locations |->
                      IF l \in queued THEN [loading[l] EXCEPT !.state = "InFlight"] ELSE loading[l]]
      /\ requests' = requests \cup {[loc |-> l, gen |-> loading[l].gen] : l \in queued}
      /\ UNCHANGED <<views, block, tracked, generation>>
  BY DEF Dispatch
<1>3. ASSUME NEW l \in queued
      PROVE  /\ l \in Locations /\ loading[l] \in Entries /\ loading[l].state = "Queued"
             /\ loading'[l] = [loading[l] EXCEPT !.state = "InFlight"]
             /\ loading'[l] \in Entries /\ loading'[l] # None
  BY <1>1, <1>2, PagingAssumption DEF TypeOK, Entries, Outstanding, PagingAssumption
<1> HIDE DEF queued
<1>4. ASSUME NEW l \in Locations, l \notin queued PROVE loading'[l] = loading[l]
  BY <1>2, <1>4
<1>5. TypeOK'
  <2>1. loading' \in [Locations -> {None} \cup Entries]
    BY <1>1, <1>2, <1>3, <1>4 DEF TypeOK
  <2>2. requests' \in SUBSET [loc : Locations, gen : Nat]
    <3>1. ASSUME NEW l \in queued PROVE [loc |-> l, gen |-> loading[l].gen] \in [loc : Locations, gen : Nat]
      BY <1>3 DEF Entries
    <3>2. requests \subseteq [loc : Locations, gen : Nat] BY <1>1 DEF TypeOK
    <3>3. QED BY <1>2, <3>1, <3>2
  <2>3. QED BY <1>1, <1>2, <2>1, <2>2 DEF TypeOK
<1>6. \A k \in Locations : CountOK(k)'
  <2> SUFFICES ASSUME NEW k \in Locations PROVE CountOK(k)' OBVIOUS
  <2>1. CASE k \in queued
    <3>1. loading[k] # None /\ loading'[k].refs = loading[k].refs /\ loading'[k] # None
      BY <2>1, <1>3, PagingAssumption DEF Entries, PagingAssumption
    <3>2. QED BY <3>1, <1>2 DEF IInv, CountOK, Local, Mismatch, Present, Absent, Refs
  <2>2. CASE k \notin queued BY <2>2, <1>4, <1>2, Untouched DEF IInv
  <2>3. QED BY <2>1, <2>2
<1>7. \A k \in Locations : LoadOK(k)'
  <2> SUFFICES ASSUME NEW k \in Locations PROVE LoadOK(k)' OBVIOUS
  <2>1. CASE k \in queued
    <3>1. /\ loading'[k].state = "InFlight" /\ loading'[k].gen = loading[k].gen
          /\ loading'[k].retries = loading[k].retries
          /\ loading[k] # None /\ loading[k].state = "Queued"
      BY <2>1, <1>3, PagingAssumption DEF Entries, PagingAssumption
    <3>2. Asked(k)' BY <2>1, <1>2, <3>1 DEF Asked
    <3>3. QED BY <3>1, <3>2, <1>2 DEF LoadOK, IInv
  <2>2. CASE k \notin queued
    <3>1. loading'[k] = loading[k] BY <2>2, <1>4
    <3>2. Asked(k)' <=> Asked(k) BY <2>2, <3>1, <1>2 DEF Asked
    <3>3. QED BY <1>1, <1>2, <3>1, <3>2, LoadUntouched DEF IInv
  <2>3. QED BY <2>1, <2>2
<1>8. IssuedBefore'
  <2> SUFFICES ASSUME NEW r \in requests' PROVE r.gen < generation' BY DEF IssuedBefore
  <2>1. CASE r \in requests BY <2>1, <1>2 DEF IInv, IssuedBefore
  <2>2. CASE \E l \in queued : r = [loc |-> l, gen |-> loading[l].gen]
    <3>1. PICK l \in queued : r = [loc |-> l, gen |-> loading[l].gen] BY <2>2
    <3>2. loading[l] # None /\ l \in Locations BY <1>3, PagingAssumption DEF PagingAssumption
    <3>3. QED BY <3>1, <3>2, <1>2 DEF IInv, LoadOK
  <2>3. QED BY <2>1, <2>2, <1>2
<1>9. QED BY <1>5, <1>6, <1>7, <1>8 DEF IInv

\* Taking an answer leaves every other location's request alone.
LEMMA TakeElsewhere ==
    ASSUME NEW r \in requests, requests' = requests \ {r}, NEW k \in Locations,
           loading'[k] = loading[k], k # r.loc \/ loading[k].gen # r.gen
    PROVE  Asked(k)' <=> Asked(k)
BY DEF Asked

LEMMA StaleStep ==
    ASSUME PagingAssumption, IInv, NEW r \in requests, Stale(r) PROVE IInv'
<1>1. /\ requests' = requests \ {r} /\ UNCHANGED <<views, block, tracked, loading, generation>>
      /\ TypeOK /\ generation \in Nat
  BY DEF Stale, Take, IInv, TypeOK
<1>2. TypeOK' BY <1>1 DEF TypeOK
<1>3. ASSUME NEW k \in Locations PROVE CountOK(k)' BY <1>1, Untouched DEF IInv
<1>4. ASSUME NEW k \in Locations PROVE LoadOK(k)'
  <2>1. CASE loading[k] = None BY <2>1, <1>1 DEF LoadOK
  <2>2. CASE loading[k] # None
    <3>1. k # r.loc \/ loading[k].gen # r.gen BY <2>2 DEF Stale, Current
    <3>2. Asked(k)' <=> Asked(k) BY <3>1, <1>1, TakeElsewhere
    <3>3. QED BY <1>1, <3>2, LoadUntouched DEF IInv
  <2>3. QED BY <2>1, <2>2
<1>5. QED BY <1>1, <1>2, <1>3, <1>4 DEF IInv, IssuedBefore

LEMMA LoadedStep ==
    ASSUME PagingAssumption, IInv, NEW r \in requests, Loaded(r) PROVE IInv'
<1> DEFINE l == r.loc
<1>1. /\ requests' = requests \ {r} /\ UNCHANGED <<views, generation>> /\ Current(r)
      /\ loading' = [loading EXCEPT ![l] = None]
      /\ TypeOK /\ generation \in Nat /\ l \in Locations
  BY DEF Loaded, Take, IInv, TypeOK, Set
<1>2. loading[l] # None /\ loading[l] \in Entries /\ loading'[l] = None /\ CountOK(l) /\ tracked[l] = None
  BY <1>1 DEF Current, TypeOK, IInv, CountOK
<1>3. Refs(l) \in Nat /\ Refs(l) = loading[l].refs BY <1>2 DEF Refs, Entries
<1>4. \A k \in Locations : LoadOK(k)'
  <2> SUFFICES ASSUME NEW k \in Locations PROVE LoadOK(k)' OBVIOUS
  <2>1. CASE k = l BY <2>1, <1>2 DEF LoadOK
  <2>2. CASE k # l
    <3>1. loading'[k] = loading[k] BY <2>2, <1>1 DEF TypeOK
    <3>2. Asked(k)' <=> Asked(k) BY <2>2, <3>1, <1>1, TakeElsewhere
    <3>3. QED BY <1>1, <3>1, <3>2, LoadUntouched DEF IInv
  <2>3. QED BY <2>1, <2>2
<1>5. CASE Present(l)
  <2>1. UNCHANGED <<block, tracked>> BY <1>5 DEF Loaded
  <2>2. TypeOK' BY <1>1, <2>1 DEF TypeOK
  <2>3. CountOK(l)'
    BY <1>2, <1>5, <2>1 DEF CountOK, Local, Mismatch, Present, Absent
  <2>4. ASSUME NEW k \in Locations, k # l PROVE CountOK(k)'
    BY <2>1, <2>4, <1>1, Untouched DEF IInv, TypeOK
  <2>5. QED BY <1>1, <1>4, <2>2, <2>3, <2>4 DEF IInv, IssuedBefore
<1>6. CASE Absent(l)
  <2>1. /\ block' = [block EXCEPT ![l] = Stored(Refs(l), 0)]
        /\ tracked' = [tracked EXCEPT ![l] = Refs(l)]
    BY <1>6 DEF Loaded, Set, Present
  <2>2. Stored(Refs(l), 0) \in Blocks /\ Stored(Refs(l), 0).viewers = Refs(l)
        /\ Stored(Refs(l), 0) # None
    BY <1>3, PagingAssumption DEF Stored, Blocks, PagingAssumption
  <2>3. TypeOK' BY <1>1, <1>3, <2>1, <2>2 DEF TypeOK
  <2>4. block'[l] = Stored(Refs(l), 0) /\ tracked'[l] = Refs(l) BY <1>1, <2>1 DEF TypeOK
  <2>5. ~Mismatch(l)' /\ Present(l)'
    BY <1>2, <1>3, <2>2, <2>4, PagingAssumption DEF Mismatch, Present, Absent, PagingAssumption
  <2>6. views[l] = Refs(l)
    BY <1>2, <1>6 DEF CountOK, Mismatch, Present, Local
  <2>7. CountOK(l)' BY <1>1, <1>2, <2>4, <2>5, <2>6 DEF CountOK, Present, Absent
  <2>8. ASSUME NEW k \in Locations, k # l PROVE CountOK(k)'
    BY <2>1, <2>8, <1>1, Untouched DEF IInv, TypeOK
  <2>9. QED BY <1>1, <1>4, <2>3, <2>7, <2>8 DEF IInv, IssuedBefore
<1>7. QED BY <1>5, <1>6 DEF Present

LEMMA DroppedStep ==
    ASSUME PagingAssumption, IInv, NEW r \in requests, Dropped(r) PROVE IInv'
<1> DEFINE l == r.loc
           e == loading[l]
<1>1. /\ requests' = requests \ {r} /\ UNCHANGED <<views, block, tracked>> /\ Current(r)
      /\ TypeOK /\ generation \in Nat /\ l \in Locations
      /\ MaxLoadRetries \in Nat /\ MaxGeneration \in Nat
  BY DEF Dropped, Take, IInv, TypeOK, PagingAssumption
<1>2. /\ e # None /\ e \in Entries /\ CountOK(l) /\ LoadOK(l) /\ r.gen = e.gen /\ r.gen \in Nat
  BY <1>1 DEF Current, TypeOK, IInv
<1>3. /\ e.refs \in Nat \ {0} /\ e.retries \in 0..MaxLoadRetries + 1 /\ e.gen \in Nat
  BY <1>2 DEF Entries
<1>4. e.retries <= MaxLoadRetries
  <2>1. r = [loc |-> l, gen |-> e.gen] BY <1>1, <1>2 DEF TypeOK
  <2>2. Asked(l) BY <2>1 DEF Asked
  <2>3. QED BY <2>2, <1>2 DEF LoadOK
<1>5. \E new \in Entries, g \in Nat :
        /\ loading' = [loading EXCEPT ![l] = new]
        /\ new.refs = e.refs
        /\ new.retries <= MaxLoadRetries \/ new.state = "Exhausted"
        /\ new.state # "InFlight" /\ new.gen < g
        /\ new.gen = generation \/ new.gen = e.gen
        /\ generation' = g /\ g >= generation /\ g <= MaxGeneration
  <2>1. CASE /\ e.retries < MaxLoadRetries /\ generation < MaxGeneration
             /\ generation' = generation + 1
             /\ Set(loading, l, Entry(e.refs, e.retries + 1, generation, "Queued"))
    <3> DEFINE new == Entry(e.refs, e.retries + 1, generation, "Queued")
    <3>1. new \in Entries BY <1>1, <1>3, <2>1 DEF Entries, Entry, Outstanding
    <3>2. /\ new.refs = e.refs /\ new.retries = e.retries + 1 /\ new.state = "Queued"
          /\ new.gen = generation
      BY DEF Entry
    <3>3. loading' = [loading EXCEPT ![l] = new] BY <2>1 DEF Set
    <3> HIDE DEF new
    <3>4. generation + 1 \in Nat BY <1>1
    <3>5. WITNESS new \in Entries, generation + 1 \in Nat
    <3>6. QED BY <1>1, <1>3, <2>1, <3>2, <3>3
  <2>2. CASE /\ e.retries >= MaxLoadRetries
             /\ Set(loading, l, Entry(e.refs, e.retries + 1, e.gen, "Exhausted"))
             /\ UNCHANGED generation
    <3> DEFINE new == Entry(e.refs, e.retries + 1, e.gen, "Exhausted")
    <3>1. new \in Entries BY <1>1, <1>3, <1>4, <2>2 DEF Entries, Entry, Ended
    <3>2. /\ new.refs = e.refs /\ new.state = "Exhausted" /\ new.gen = e.gen
      BY DEF Entry
    <3>3. loading' = [loading EXCEPT ![l] = new] BY <2>2 DEF Set
    <3> HIDE DEF new
    <3>4. e.gen < generation BY <1>2 DEF LoadOK
    <3>5. generation <= MaxGeneration BY <1>1 DEF TypeOK
    <3> USE <1>1
    <3>6. WITNESS new \in Entries, generation \in Nat
    <3>7. QED BY <1>1, <1>3, <2>2, <3>2, <3>3, <3>4, <3>5
  <2>3. QED BY <2>1, <2>2 DEF Dropped
<1>6. PICK new \in Entries, g \in Nat :
        /\ loading' = [loading EXCEPT ![l] = new]
        /\ new.refs = e.refs
        /\ new.retries <= MaxLoadRetries \/ new.state = "Exhausted"
        /\ new.state # "InFlight" /\ new.gen < g
        /\ new.gen = generation \/ new.gen = e.gen
        /\ generation' = g /\ g >= generation /\ g <= MaxGeneration
  BY <1>5
<1>7. loading'[l] = new /\ new # None BY <1>1, <1>6, PagingAssumption DEF TypeOK, PagingAssumption
<1>8. TypeOK' BY <1>1, <1>6 DEF TypeOK
<1>9. CountOK(l)'
  <2>1. Refs(l)' = Refs(l) BY <1>2, <1>6, <1>7 DEF Refs
  <2>2. /\ Mismatch(l)' <=> Mismatch(l)
        /\ Present(l)' <=> Present(l)
        /\ Local(l)' <=> Local(l)
        /\ loading[l] # None
    BY <1>1, <1>2, <1>7 DEF Mismatch, Present, Absent, Local
  <2>3. QED BY <1>1, <1>2, <2>1, <2>2 DEF CountOK
<1>10. LoadOK(l)'
  <2>1. ~Asked(l)'
    <3>1. CASE new.gen = e.gen
      BY <3>1, <1>1, <1>2, <1>7 DEF Asked, TypeOK
    <3>2. CASE new.gen = generation
      BY <3>2, <1>1, <1>7 DEF Asked, IInv, IssuedBefore
    <3>3. QED BY <3>1, <3>2, <1>6
  <2>2. QED BY <2>1, <1>6, <1>7 DEF LoadOK
<1>11. ASSUME NEW k \in Locations, k # l PROVE CountOK(k)' /\ LoadOK(k)'
  <2>1. loading'[k] = loading[k] BY <1>11, <1>1, <1>6 DEF TypeOK
  <2>2. Asked(k)' <=> Asked(k) BY <1>11, <2>1, <1>1, TakeElsewhere
  <2>3. LoadOK(k)' BY <1>1, <1>6, <2>1, <2>2, LoadUntouched DEF IInv
  <2>4. CountOK(k)' BY <1>1, <2>1, Untouched DEF IInv
  <2>5. QED BY <2>3, <2>4
<1>12. IssuedBefore' BY <1>1, <1>6 DEF IInv, IssuedBefore, TypeOK
<1>13. QED BY <1>8, <1>9, <1>10, <1>11, <1>12 DEF IInv

LEMMA NotFoundStep ==
    ASSUME PagingAssumption, IInv, NEW r \in requests, NotFound(r) PROVE IInv'
<1> DEFINE l == r.loc
<1>1. /\ requests' = requests \ {r} /\ UNCHANGED <<views, block, tracked, generation>> /\ Current(r)
      /\ TypeOK /\ generation \in Nat /\ l \in Locations
      /\ loading' = [loading EXCEPT ![l].state = "NotFound"]
  BY DEF NotFound, Take, IInv, TypeOK
<1>2. loading[l] # None /\ loading[l] \in Entries /\ CountOK(l) /\ LoadOK(l) /\ r.gen = loading[l].gen
  BY <1>1 DEF Current, TypeOK, IInv
<1>3. /\ loading'[l] = [loading[l] EXCEPT !.state = "NotFound"] /\ loading'[l] \in Entries
      /\ loading'[l] # None /\ loading'[l].state = "NotFound" /\ loading'[l].refs = loading[l].refs
      /\ loading'[l].gen = loading[l].gen /\ loading'[l].retries = loading[l].retries
  BY <1>1, <1>2, PagingAssumption DEF TypeOK, Entries, Ended, PagingAssumption
<1>4. TypeOK' BY <1>1, <1>3 DEF TypeOK
<1>5. CountOK(l)' BY <1>1, <1>2, <1>3 DEF CountOK, Local, Mismatch, Present, Absent, Refs
<1>6. r = [loc |-> l, gen |-> loading[l].gen] BY <1>1, <1>2 DEF TypeOK
<1>7. Asked(l) /\ ~Asked(l)' BY <1>1, <1>3, <1>6 DEF Asked
<1>8. LoadOK(l)' BY <1>1, <1>2, <1>3, <1>7 DEF LoadOK
<1>9. ASSUME NEW k \in Locations, k # l PROVE CountOK(k)' /\ LoadOK(k)'
  <2>1. loading'[k] = loading[k] BY <1>9, <1>1 DEF TypeOK
  <2>2. Asked(k)' <=> Asked(k) BY <1>9, <2>1, <1>1, TakeElsewhere
  <2>3. LoadOK(k)' BY <1>1, <2>1, <2>2, LoadUntouched DEF IInv
  <2>4. CountOK(k)' BY <1>1, <2>1, Untouched DEF IInv
  <2>5. QED BY <2>3, <2>4
<1>10. QED BY <1>1, <1>4, <1>5, <1>8, <1>9 DEF IInv, IssuedBefore

LEMMA EditStep ==
    ASSUME PagingAssumption, IInv, NEW l \in Locations, Edit(l) PROVE IInv'
<1>1. /\ UNCHANGED <<views, requests, generation>> /\ Absent(l)
      /\ block' = [block EXCEPT ![l] = Stored(Refs(l), 0)]
      /\ tracked' = [tracked EXCEPT ![l] = Refs(l)]
      /\ loading' = [loading EXCEPT ![l] = None]
      /\ TypeOK /\ generation \in Nat /\ CountOK(l)
  BY DEF Edit, Set, IInv, TypeOK
<1>2. Refs(l) \in Nat BY <1>1 DEF TypeOK, Refs, Entries
<1>3. Stored(Refs(l), 0) \in Blocks /\ Stored(Refs(l), 0).viewers = Refs(l) /\ Stored(Refs(l), 0) # None
  BY <1>2, PagingAssumption DEF Stored, Blocks, PagingAssumption
<1>4. TypeOK' BY <1>1, <1>2, <1>3 DEF TypeOK
<1>5. block'[l] = Stored(Refs(l), 0) /\ tracked'[l] = Refs(l) /\ loading'[l] = None BY <1>1 DEF TypeOK
<1>6. ~Mismatch(l)' /\ Present(l)'
  BY <1>2, <1>3, <1>5, PagingAssumption DEF Mismatch, Present, Absent, PagingAssumption
<1>7. views[l] = Refs(l) BY <1>1 DEF CountOK, Mismatch, Present, Local
<1>8. CountOK(l)' /\ LoadOK(l)'
  BY <1>1, <1>5, <1>6, <1>7 DEF CountOK, LoadOK, Present, Absent
<1>9. ASSUME NEW k \in Locations, k # l PROVE CountOK(k)' /\ LoadOK(k)'
  <2>1. loading'[k] = loading[k] /\ block'[k] = block[k] /\ tracked'[k] = tracked[k]
    BY <1>9, <1>1 DEF TypeOK
  <2>2. CountOK(k)' BY <1>1, <2>1, Untouched DEF IInv
  <2>3. LoadOK(k)' BY <1>1, <2>1 DEF IInv, LoadOK, Asked
  <2>4. QED BY <2>2, <2>3
<1>10. QED BY <1>1, <1>4, <1>8, <1>9 DEF IInv, IssuedBefore

LEMMA InstallRemoteStep ==
    ASSUME PagingAssumption, IInv, NEW l \in Locations, NEW v \in Nat \ {0}, InstallRemote(l, v)
    PROVE  IInv'
<1>1. /\ UNCHANGED <<views, tracked, loading, requests, generation>>
      /\ block' = [block EXCEPT ![l] = Stored(0, v)]
      /\ TypeOK /\ CountOK(l)
  BY DEF InstallRemote, Set, IInv
<1>2. /\ Stored(0, v) \in Blocks /\ Stored(0, v).viewers = 0 /\ Stored(0, v).voxels = v
      /\ Stored(0, v) # None
  BY PagingAssumption DEF Stored, Blocks, PagingAssumption
<1>3. TypeOK' BY <1>1, <1>2 DEF TypeOK
<1>4. block'[l] = Stored(0, v) BY <1>1 DEF TypeOK
<1>5. CountOK(l)'
  <2>1. Present(l)' /\ ~Local(l)' /\ block'[l].viewers = 0
    BY <1>2, <1>4 DEF Present, Absent, Local
  <2>2. ASSUME ~Mismatch(l)' PROVE views[l] = tracked[l]
    <3>1. loading[l] = None /\ tracked[l] = 0
      BY <2>1, <2>2, <1>1 DEF Mismatch, Present, Absent
    <3>2. Present(l)
      BY <3>1, <1>1, PagingAssumption DEF CountOK, Local, Mismatch, Present, PagingAssumption
    <3>3. ~Mismatch(l)
      BY <3>1, <3>2, <1>1, PagingAssumption DEF CountOK, Mismatch, Present, PagingAssumption
    <3>4. QED BY <3>2, <3>3, <1>1 DEF CountOK
  <2>3. QED BY <2>1, <2>2, <1>1 DEF CountOK
<1>6. ASSUME NEW k \in Locations, k # l PROVE CountOK(k)'
  BY <1>6, <1>1, Untouched DEF IInv, TypeOK
<1>7. ASSUME NEW k \in Locations PROVE LoadOK(k)'
  BY <1>1 DEF IInv, LoadOK, Asked
<1>8. QED BY <1>1, <1>3, <1>5, <1>6, <1>7 DEF IInv, IssuedBefore

-----------------------------------------------------------------------------
(* The theorems *)

LEMMA InitHolds == PagingAssumption /\ Init => IInv
BY DEF PagingAssumption, Init, IInv, TypeOK, CountOK, LoadOK, IssuedBefore,
       Local, Mismatch, Present, Absent, Refs

LEMMA StepHolds == PagingAssumption /\ IInv /\ [Next]_vars => IInv'
<1> SUFFICES ASSUME PagingAssumption, IInv, [Next]_vars PROVE IInv' OBVIOUS
<1>1. CASE UNCHANGED vars
  BY <1>1 DEF vars, IInv, TypeOK, CountOK, LoadOK, IssuedBefore,
              Local, Mismatch, Present, Absent, Refs, Asked
<1>2. CASE \E l \in Locations : View(l) \/ Unview(l) \/ Edit(l)
  BY <1>2, ViewStep, UnviewStep, EditStep
<1>3. CASE \E l \in Locations, v \in Nat \ {0} : InstallRemote(l, v)
  BY <1>3, InstallRemoteStep
<1>4. CASE \E r \in requests : Stale(r) \/ Loaded(r) \/ Dropped(r) \/ NotFound(r)
  BY <1>4, StaleStep, LoadedStep, DroppedStep, NotFoundStep
<1>5. CASE Dispatch BY <1>5, DispatchStep
<1>6. QED BY <1>1, <1>2, <1>3, <1>4, <1>5 DEF Next

LEMMA Inductive == PagingAssumption => (Spec => []IInv)
<1> SUFFICES ASSUME PagingAssumption PROVE Spec => []IInv OBVIOUS
<1>1. Init => IInv BY InitHolds
<1>2. IInv /\ [Next]_vars => IInv' BY StepHolds
<1>3. QED BY <1>1, <1>2, PTL DEF Spec

\* The type invariant, for any limit of retries and of generations.
THEOREM PagingTypes == PagingAssumption => (Spec => []TypeOK)
<1>1. IInv => TypeOK BY DEF IInv
<1>2. QED BY <1>1, Inductive, PTL

\* Whatever the order of views, unviews, edits, replicated blocks, dispatches
\* and answers, the viewers of a block of this terrain are counted exactly once.
THEOREM ViewersAreCounted == PagingAssumption => (Spec => []EveryViewCounted)
<1>1. IInv => EveryViewCounted BY DEF IInv, CountOK, EveryViewCounted, Counted
<1>2. QED BY <1>1, Inductive, PTL

\* An entry is in flight exactly as long as its own request is under way, in
\* whatever order retries, abandoned requests and their late answers mix.
THEOREM LoadsAreAnswered == PagingAssumption => (Spec => []NoLoadLost)
<1>1. IInv => NoLoadLost BY DEF IInv, LoadOK, NoLoadLost
<1>2. QED BY <1>1, Inductive, PTL

-----------------------------------------------------------------------------
(* Meshing, over the paging of the blocks *)


allMeshing == <<vars, meshing>>

\* A task whose answer the entry of m would accept.
Pending(m) == \E t \in mesh_tasks : t.loc = m /\ Awaited(t)

\* Nothing is asked for, nothing was given up.
Settled(m) ==
    /\ mesh[m].requested # None /\ mesh[m].request = None
    /\ ~mesh[m].queued /\ mesh[m].retries <= MaxMeshRetries

(* The strengthening of MeshesCatchUp.  A request is queued or has its task; *)
(* a task and a mesh have a halo that viewers keep; an awaited task has not  *)
(* read a block that changed since; a settled entry has all it asked for.    *)
MeshOK(m) ==
    Meshed(m) =>
        /\ \A k \in Halo[m] : views[k] > 0
        /\ mesh[m].request # None => mesh[m].request < issued
        /\ mesh[m].requested = None =>
             mesh[m].request = None /\ mesh[m].asked = {} /\ mesh[m].needs = {} /\ mesh[m].shown = "Nothing"
        /\ mesh[m].request # None /\ ~mesh[m].queued => Pending(m)
        /\ Pending(m) \/ mesh[m].shown # "Nothing" => HaloReady(m)
        /\ Settled(m) =>
             mesh[m].asked \subseteq mesh[m].built /\ mesh[m].needs \subseteq mesh[m].built
             /\ mesh[m].shown # "Nothing"
        /\ Settled(m) /\ OwnHalo(m) => mesh[m].shown = "Fresh"
        /\ OwnHalo(m) => \A t \in mesh_tasks : t.loc = m /\ Awaited(t) => t.read # "Old"

MInv ==
    /\ MeshTypeOK
    /\ \A t \in mesh_tasks : t.id < issued
    /\ \A m \in Meshes : MeshOK(m)

-----------------------------------------------------------------------------
(* Paging *)

\* Whatever the meshes do, the blocks are paged as by TerrainPaging alone.
LEMMA PagingStep == [MeshingNext]_allMeshing => [Next]_vars
<1> SUFFICES ASSUME [MeshingNext]_allMeshing PROVE [Next]_vars OBVIOUS
<1>1. CASE UNCHANGED allMeshing BY <1>1 DEF allMeshing
<1>2. ASSUME NEW l \in Locations, View(l) \/ UnviewUnmeshed(l) \/ EditAndRemesh(l) PROVE [Next]_vars
  BY <1>2 DEF UnviewUnmeshed, EditAndRemesh, Edited, Next
<1>3. ASSUME NEW l \in Locations, NEW v \in Nat \ {0}, InstallAndRemesh(l, v) PROVE [Next]_vars
  BY <1>3 DEF InstallAndRemesh, Next
<1>4. ASSUME NEW r \in requests, LoadedAndMeshed(r) \/ Stale(r) \/ Dropped(r) \/ NotFound(r) PROVE [Next]_vars
  BY <1>4 DEF LoadedAndMeshed, Next
<1>5. CASE Dispatch BY <1>5 DEF Next
<1>6. ASSUME NEW m, Forget(m) \/ \E features : Demand(m, features) PROVE UNCHANGED vars
  BY <1>6 DEF Forget, Demand
<1>7. CASE DispatchMeshes BY <1>7 DEF DispatchMeshes
<1>8. ASSUME NEW t, Gather(t) \/ MeshAnswered(t) PROVE UNCHANGED vars
  BY <1>8 DEF Gather, MeshAnswered, MeshStale, MeshBuilt, MeshRefused, MeshDied, TakeMesh
<1>9. QED BY <1>1, <1>2, <1>3, <1>4, <1>5, <1>6, <1>7, <1>8 DEF MeshingNext

\* Meshing implements paging: what is proved of TerrainPaging holds here too.
THEOREM MeshingPages == MeshingSpec => Spec
<1>1. MeshingInit => Init BY DEF MeshingInit
<1>2. QED BY <1>1, PagingStep, PTL DEF MeshingSpec, Spec, allMeshing

\* The inductive invariant of paging, beside the meshes.
LEMMA PagingInvariance == MeshingAssumption => (MeshingSpec => []IInv)
<1>1. MeshingAssumption => PagingAssumption BY DEF MeshingAssumption
<1>2. PagingAssumption => (Spec => []IInv) BY Inductive
<1>3. QED BY <1>1, <1>2, MeshingPages

-----------------------------------------------------------------------------
(* What leaves a mesh as it was *)

\* The halo of m keeps its viewers, and if it is complete its blocks.
HaloKept(m) ==
    /\ \A k \in Halo[m] : views[k] > 0 => views'[k] > 0
    /\ HaloReady(m) => HaloReady(m)'
    /\ HaloReady(m) /\ OwnHalo(m)' => OwnHalo(m)

LEMMA MeshKept ==
    ASSUME NEW m \in Meshes, MeshOK(m), MeshTypeOK, mesh'[m] = mesh[m], issued' \in Nat, issued' >= issued,
           Meshed(m) => HaloKept(m),
           Meshed(m) => \A t : t.loc = m => (t \in mesh_tasks' <=> t \in mesh_tasks)
    PROVE  MeshOK(m)'
<1> SUFFICES ASSUME Meshed(m) PROVE MeshOK(m)' BY DEF MeshOK, Meshed
<1>1. \A t : t.loc = m => (Awaited(t)' <=> Awaited(t)) BY DEF Awaited, Meshed
<1>2. Pending(m)' <=> Pending(m) BY <1>1 DEF Pending
<1>3. Settled(m)' <=> Settled(m) BY DEF Settled
<1>4. mesh[m].request # None => mesh[m].request \in Nat BY DEF MeshTypeOK, MeshEntries, Meshed
<1>5. mesh[m].request # None => mesh'[m].request < issued' BY <1>4 DEF MeshOK, MeshTypeOK
<1>6. ASSUME OwnHalo(m)', NEW t \in mesh_tasks', t.loc = m, Awaited(t)' PROVE t.read # "Old"
  <2>1. t \in mesh_tasks /\ Awaited(t) BY <1>1, <1>6
  <2>2. Pending(m) BY <1>6, <2>1 DEF Pending
  <2>3. HaloReady(m) BY <2>2 DEF MeshOK
  <2>4. OwnHalo(m) BY <1>6, <2>3 DEF HaloKept
  <2>5. QED BY <1>6, <2>1, <2>4 DEF MeshOK
<1>7. Settled(m) => HaloReady(m) BY DEF MeshOK
<1>8. Settled(m)' /\ OwnHalo(m)' => mesh'[m].shown = "Fresh" BY <1>3, <1>7 DEF MeshOK, HaloKept
<1>9. QED BY <1>2, <1>3, <1>5, <1>6, <1>8 DEF MeshOK, HaloKept

\* A step of paging that the meshes take no part in.
LEMMA PagingKeeps ==
    ASSUME MInv, UNCHANGED meshing, \A m \in Meshes : Meshed(m) => HaloKept(m) PROVE MInv'
<1>1. MeshTypeOK' /\ MeshTypeOK /\ issued' = issued /\ issued \in Nat
  BY DEF MInv, meshing, MeshTypeOK
<1>2. ASSUME NEW m \in Meshes PROVE MeshOK(m)' BY <1>1, MeshKept DEF MInv, meshing
<1>3. QED BY <1>1, <1>2 DEF MInv, meshing

LEMMA HaloOfSameBlocks ==
    ASSUME MeshingAssumption, NEW m \in Meshes, \A k \in Halo[m] : views[k] > 0 => views'[k] > 0,
           \A k \in Halo[m] : (Present(k)' <=> Present(k)) /\ (Local(k)' <=> Local(k))
    PROVE  HaloKept(m)
BY DEF HaloKept, HaloReady, OwnHalo

LEMMA UnchangedVars ==
    ASSUME UNCHANGED vars, NEW m PROVE HaloKept(m)
BY DEF HaloKept, vars, HaloReady, OwnHalo, Present, Absent, Local

\* Another count of viewers leaves the voxels of a block alone.
LEMMA SameVoxels ==
    ASSUME MeshingAssumption, TypeOK, NEW l \in Locations, Present(l), \E n \in Nat : SetResident(l, n),
           NEW k \in Locations
    PROVE  (Present(k)' <=> Present(k)) /\ (Local(k)' <=> Local(k))
<1>0. PICK n \in Nat : SetResident(l, n) OBVIOUS
<1>1. block' = [block EXCEPT ![l].viewers = n] BY <1>0 DEF SetResident
<1>2. k # l => block'[k] = block[k] BY <1>1 DEF TypeOK
<1>3. block[l] \in Blocks BY DEF TypeOK, Present, Absent
<1>4. block'[l] = [block[l] EXCEPT !.viewers = n] BY <1>1 DEF TypeOK
<1>5. block'[l] \in Blocks /\ block'[l].voxels = block[l].voxels BY <1>3, <1>4 DEF Blocks
<1>6. block'[l] # None BY <1>5 DEF MeshingAssumption, PagingAssumption
<1>7. QED BY <1>2, <1>5, <1>6 DEF Present, Absent, Local

LEMMA ViewMeshed ==
    ASSUME MeshingAssumption, IInv, MInv, NEW l \in Locations, View(l), UNCHANGED meshing PROVE MInv'
<1>1. ASSUME NEW m \in Meshes PROVE HaloKept(m)
  <2>1. Halo[m] \subseteq Locations BY DEF MeshingAssumption
  <2>2. ASSUME NEW k \in Halo[m] PROVE views[k] > 0 => views'[k] > 0
    BY <2>1 DEF View, Set, IInv, TypeOK
  <2>3. ASSUME NEW k \in Halo[m] PROVE (Present(k)' <=> Present(k)) /\ (Local(k)' <=> Local(k))
    <3>1. CASE Present(l) /\ SetResident(l, tracked[l] + 1)
      <4>0. tracked[l] + 1 \in Nat BY <3>1 DEF View, Mismatch, IInv, TypeOK, Present
      <4>1. \E n \in Nat : SetResident(l, n) BY <3>1, <4>0 DEF SetResident
      <4>2. k \in Locations /\ TypeOK BY <2>1 DEF IInv
      <4>3. QED BY <3>1, <4>1, <4>2, SameVoxels
    <3>2. CASE UNCHANGED block BY <3>2 DEF Present, Absent, Local
    <3>3. QED BY <3>1, <3>2 DEF View, Join, Request
  <2>4. QED BY <2>2, <2>3, HaloOfSameBlocks
<1>2. QED BY <1>1, PagingKeeps

\* The last viewer of a block leaves after the meshes around it.
LEMMA UnviewMeshed ==
    ASSUME MeshingAssumption, IInv, MInv, NEW l \in Locations, UnviewUnmeshed(l) PROVE MInv'
<1>1. Unview(l) /\ UNCHANGED meshing /\ (views[l] = 1 => Around(l) = {}) BY DEF UnviewUnmeshed
<1>2. ASSUME NEW m \in Meshes, Meshed(m), l \in Halo[m] PROVE views[l] > 1
  BY <1>1, <1>2 DEF Around, Sampling, Unview, IInv, TypeOK
<1>3. ASSUME NEW m \in Meshes, Meshed(m) PROVE HaloKept(m)
  <2>1. Halo[m] \subseteq Locations BY DEF MeshingAssumption
  <2>2. ASSUME NEW k \in Halo[m] PROVE views[k] > 0 => views'[k] > 0
    <3>1. views' = [views EXCEPT ![l] = views[l] - 1] /\ views \in [Locations -> Nat]
      BY <1>1 DEF Unview, Set, IInv, TypeOK
    <3>2. k = l => views[l] > 1 BY <1>2, <1>3
    <3>3. QED BY <2>1, <3>1, <3>2
  <2>3. ASSUME NEW k \in Halo[m] PROVE (Present(k)' <=> Present(k)) /\ (Local(k)' <=> Local(k))
    <3>1. CASE Present(l) /\ tracked[l] > 1 /\ SetResident(l, tracked[l] - 1)
      <4>0. tracked[l] - 1 \in Nat BY <1>1, <3>1 DEF Unview, Mismatch, IInv, TypeOK, Present
      <4>1. \E n \in Nat : SetResident(l, n) BY <3>1, <4>0 DEF SetResident
      <4>2. k \in Locations /\ TypeOK BY <2>1 DEF IInv
      <4>3. QED BY <3>1, <4>1, <4>2, SameVoxels
    <3>2. CASE Present(l) /\ tracked[l] = 1 /\ Remove(l)
      <4>1. views[l] = 1 BY <1>1, <3>2 DEF Unview, IInv, CountOK
      <4>2. k # l BY <4>1, <1>2, <1>3
      <4>3. block'[k] = block[k] BY <2>1, <3>2, <4>2 DEF Remove, Set, IInv, TypeOK
      <4>4. QED BY <4>3 DEF Present, Absent, Local
    <3>3. CASE UNCHANGED block BY <3>3 DEF Present, Absent, Local
    <3>4. QED BY <1>1, <3>1, <3>2, <3>3 DEF Unview, Join, Abandon
  <2>4. QED BY <2>2, <2>3, HaloOfSameBlocks
<1>4. QED BY <1>1, <1>3, PagingKeeps

LEMMA AnswersMeshed ==
    ASSUME MInv, UNCHANGED <<views, block>>, UNCHANGED meshing PROVE MInv'
<1>1. ASSUME NEW m PROVE HaloKept(m) BY DEF HaloKept, HaloReady, OwnHalo, Present, Absent, Local
<1>2. QED BY <1>1, PagingKeeps

-----------------------------------------------------------------------------
(* What a changed block does to the meshes *)

LEMMA TasksOutdated ==
    ASSUME MeshTypeOK, NEW near, OutdateTasks(near)
    PROVE  /\ mesh_tasks' \subseteq MeshTasks
           /\ \A t \in mesh_tasks' : \E s \in mesh_tasks : s.loc = t.loc /\ s.rev = t.rev /\ s.id = t.id
           /\ \A t : t.loc \notin near => (t \in mesh_tasks' <=> t \in mesh_tasks)
<1> DEFINE Now(s) == IF s.loc \in near THEN [s EXCEPT !.read = Aged(s.read)] ELSE s
<1>1. mesh_tasks' = {Now(s) : s \in mesh_tasks} BY DEF OutdateTasks
<1>2. ASSUME NEW s \in mesh_tasks
      PROVE  /\ Now(s) \in MeshTasks
             /\ Now(s).loc = s.loc /\ Now(s).rev = s.rev /\ Now(s).id = s.id
             /\ s.loc \notin near => Now(s) = s
  <2>1. s \in MeshTasks /\ Aged(s.read) \in Knowledge BY DEF MeshTypeOK, MeshTasks, Aged, Knowledge
  <2>2. QED BY <2>1 DEF MeshTasks
<1> HIDE DEF Now
<1>3. QED BY <1>1, <1>2

\* Nothing of the halo of m changes but what was not there.
HaloGrows(m) == \A k \in Halo[m] : block'[k] = block[k] \/ (Absent(k) /\ Present(k)')

\* A mesh that does not look at what has changed is left as it was.
LEMMA MeshElsewhere ==
    ASSUME MInv, NEW near, OutdateTasks(near), UNCHANGED views, issued' \in Nat, issued' >= issued,
           NEW m \in Meshes, Meshed(m) => m \notin near /\ HaloGrows(m), mesh'[m] = mesh[m]
    PROVE  MeshOK(m)'
<1>1. MeshTypeOK /\ MeshOK(m) BY DEF MInv
<1>2. ASSUME Meshed(m) PROVE HaloKept(m)
  BY <1>2 DEF HaloGrows, HaloKept, HaloReady, OwnHalo, Present, Absent, Local
<1>3. ASSUME Meshed(m) PROVE \A t : t.loc = m => (t \in mesh_tasks' <=> t \in mesh_tasks)
  BY <1>1, <1>3, TasksOutdated
<1>4. QED BY <1>1, <1>2, <1>3, MeshKept

\* No task answers a request that has just been issued.
LEMMA NewRequest ==
    ASSUME MInv, NEW m \in Meshes, mesh'[m].request = issued,
           \A t \in mesh_tasks' : \E s \in mesh_tasks : s.id = t.id
    PROVE  \A t \in mesh_tasks' : t.loc = m => ~Awaited(t)'
<1>1. ASSUME NEW t \in mesh_tasks', t.loc = m, Awaited(t)' PROVE FALSE
  <2>1. PICK s \in mesh_tasks : s.id = t.id OBVIOUS
  <2>2. s.id < issued /\ s.id \in Nat /\ issued \in Nat BY DEF MInv, MeshTypeOK, MeshTasks
  <2>3. t.id = issued BY <1>1 DEF Awaited
  <2>4. QED BY <2>1, <2>2, <2>3
<1>2. QED BY <1>1

\* An entry that was given a new request has nothing to show for it yet.
LEMMA MeshRenewed ==
    ASSUME MInv, NEW m \in Meshes, Meshed(m), UNCHANGED views, issued' = issued + 1,
           mesh'[m] # None, mesh'[m].request = issued, mesh'[m].requested # None, mesh'[m].queued,
           mesh'[m].shown # "Nothing" => mesh[m].shown # "Nothing", HaloReady(m) => HaloReady(m)', None \notin Nat,
           \A t \in mesh_tasks' : \E s \in mesh_tasks : s.id = t.id
    PROVE  MeshOK(m)'
<1>1. ~Pending(m)' /\ \A t \in mesh_tasks' : t.loc = m => ~Awaited(t)' BY NewRequest DEF Pending
<1>2. ~Settled(m)' BY DEF Settled
<1>3. issued \in Nat /\ mesh'[m].request < issued' BY DEF MInv, MeshTypeOK
<1>4. mesh'[m].shown # "Nothing" => HaloReady(m)' BY DEF MInv, MeshOK
<1>5. \A k \in Halo[m] : views'[k] > 0 BY DEF MInv, MeshOK
<1>6. QED BY <1>1, <1>2, <1>3, <1>4, <1>5 DEF MeshOK

\* An entry that goes on waiting for its request, which nobody was to answer yet
\* or a block that is not of this terrain has become part of.
LEMMA MeshQueued ==
    ASSUME MeshingAssumption, MInv, NEW m \in Meshes, Meshed(m), UNCHANGED views, issued' \in Nat, issued' >= issued,
           mesh'[m] # None, mesh'[m].request = mesh[m].request, mesh'[m].requested = mesh[m].requested,
           mesh'[m].asked = mesh[m].asked, mesh'[m].needs = mesh[m].needs, mesh'[m].queued,
           mesh'[m].shown = "Nothing" <=> mesh[m].shown = "Nothing", HaloReady(m) => HaloReady(m)',
           ~Pending(m) \/ ~OwnHalo(m)',
           \A t \in mesh_tasks' : \E s \in mesh_tasks : s.loc = t.loc /\ s.rev = t.rev /\ s.id = t.id
    PROVE  MeshOK(m)'
<1>1. MeshOK(m) /\ ~Settled(m)' /\ issued \in Nat BY DEF MInv, MeshTypeOK, Settled
<1>2. ASSUME NEW t \in mesh_tasks', t.loc = m, Awaited(t)' PROVE \E s \in mesh_tasks : s.loc = m /\ Awaited(s)
  <2>1. PICK s \in mesh_tasks : s.loc = t.loc /\ s.rev = t.rev /\ s.id = t.id OBVIOUS
  <2>2. s.loc = m /\ Awaited(s) BY <1>2, <2>1 DEF Awaited, Meshed
  <2>3. QED BY <2>2
<1>3. Pending(m)' => Pending(m) BY <1>2 DEF Pending
<1>4. mesh[m].request # None => mesh[m].request \in Nat BY DEF MInv, MeshTypeOK, MeshEntries, Meshed
<1>5. mesh'[m].request # None => mesh'[m].request < issued' BY <1>1, <1>4 DEF MeshOK
<1>6. OwnHalo(m)' => \A t \in mesh_tasks' : t.loc = m => ~Awaited(t)' BY <1>2 DEF Pending
<1>7. \A k \in Halo[m] : views'[k] > 0 BY <1>1 DEF MeshOK
<1>8. QED BY <1>1, <1>3, <1>5, <1>6, <1>7 DEF MeshOK

\* What ageing, queueing and asking again do to an entry.
LEMMA OutdatedEntry ==
    \A e \in MeshEntries :
        /\ Outdated(e) \in MeshEntries
        /\ Outdated(e).shown = "Nothing" <=> e.shown = "Nothing"
        /\ Outdated(e).request = e.request /\ Outdated(e).requested = e.requested
        /\ Outdated(e).asked = e.asked /\ Outdated(e).needs = e.needs /\ Outdated(e).queued = e.queued
<1>1. ASSUME NEW e \in MeshEntries PROVE Aged(e.shown) \in Knowledge /\ (Aged(e.shown) = "Nothing" <=> e.shown = "Nothing")
  BY DEF MeshEntries, Knowledge, Aged
<1>2. QED BY <1>1 DEF Outdated, MeshEntries

LEMMA QueuedEntry ==
    \A e \in MeshEntries :
        /\ Queued(e) \in MeshEntries /\ Queued(e).queued /\ Queued(e).shown = e.shown
        /\ Queued(e).request = e.request /\ Queued(e).requested = e.requested
        /\ Queued(e).asked = e.asked /\ Queued(e).needs = e.needs
BY DEF Queued, MeshEntries

LEMMA RenewedEntry ==
    ASSUME issued \in Nat
    PROVE  \A e \in MeshEntries :
             /\ Revised(e) \in MeshEntries /\ Revised(e).queued /\ Revised(e).shown = e.shown
             /\ Revised(e).request = issued /\ Revised(e).requested = issued
             /\ Demanded(e) \in MeshEntries /\ Demanded(e).queued /\ Demanded(e).shown = e.shown
             /\ Demanded(e).request = issued /\ Demanded(e).requested = issued
BY DEF Revised, Demanded, MeshEntries

LEMMA MeshedEntry ==
    ASSUME MeshTypeOK, NEW m \in Meshes, Meshed(m) PROVE mesh[m] \in MeshEntries
BY DEF MeshTypeOK, Meshed

\* A step that changes blocks types the meshes, and keeps those that do not look.
LEMMA RemeshHolds ==
    ASSUME MInv, UNCHANGED views, issued' \in Nat, issued' >= issued,
           NEW near, OutdateTasks(near), mesh' = [m \in Meshes |-> mesh'[m]],
           \A m \in Meshes : ~(m \in near /\ Meshed(m)) => mesh'[m] = mesh[m],
           \A m \in Meshes \ near : Meshed(m) => HaloGrows(m),
           \A m \in near : Meshed(m) => mesh'[m] \in MeshEntries /\ MeshOK(m)'
    PROVE  MInv'
<1>1. MeshTypeOK BY DEF MInv
<1>2. MeshTypeOK' /\ \A t \in mesh_tasks' : t.id < issued'
  <2>1. mesh' \in [Meshes -> {None} \cup MeshEntries] BY <1>1 DEF MeshTypeOK
  <2>2. ASSUME NEW t \in mesh_tasks' PROVE t.id < issued'
    <3>1. PICK s \in mesh_tasks : s.id = t.id BY <1>1, TasksOutdated
    <3>2. s.id < issued /\ s.id \in Nat /\ issued \in Nat BY DEF MInv, MeshTypeOK, MeshTasks
    <3>3. QED BY <3>1, <3>2
  <2>3. QED BY <1>1, <2>1, <2>2, TasksOutdated DEF MeshTypeOK
<1>3. ASSUME NEW m \in Meshes PROVE MeshOK(m)' BY MeshElsewhere
<1>4. QED BY <1>2, <1>3 DEF MInv

LEMMA EditMeshed ==
    ASSUME MeshingAssumption, IInv, MInv, NEW l \in Locations, EditAndRemesh(l) PROVE MInv'
<1>1. PICK near \in Reach(l) : Remesh(near, [m \in Around(l) |-> Revised(mesh[m])]) /\ IssueFor(near)
  BY DEF EditAndRemesh
<1>2. /\ UNCHANGED views /\ OutdateTasks(near) /\ MeshTypeOK /\ issued \in Nat /\ None \notin Nat /\ None \notin MeshEntries
      /\ near \subseteq Sampling(l)
  BY <1>1 DEF EditAndRemesh, Edited, Edit, vars, Remesh, MInv, MeshTypeOK, MeshingAssumption, PagingAssumption, Reach
<1>3. issued' \in Nat /\ issued' >= issued /\ \A m \in near : Meshed(m) => issued' = issued + 1
  BY <1>1, <1>2 DEF IssueFor
<1>4. \A k \in Locations : block'[k] = block[k] \/ (Absent(k) /\ Present(k)')
  BY DEF EditAndRemesh, Edited, Edit, vars, Set, IInv, TypeOK, Present, Absent, Stored, Blocks, MeshingAssumption, PagingAssumption
<1>5. ASSUME NEW m \in Meshes PROVE HaloGrows(m) BY <1>4 DEF HaloGrows, MeshingAssumption
<1>6. /\ mesh' = [m \in Meshes |-> mesh'[m]]
      /\ \A m \in Meshes : ~(m \in near /\ Meshed(m)) => mesh'[m] = mesh[m]
      /\ \A m \in near : Meshed(m) => m \in Meshes /\ mesh'[m] = Outdated(Revised(mesh[m]))
  BY <1>1, <1>2 DEF Remesh, Around, Sampling
<1>7. ASSUME NEW m \in near, Meshed(m) PROVE mesh'[m] \in MeshEntries /\ MeshOK(m)'
  <2>1. m \in Meshes /\ mesh[m] \in MeshEntries BY <1>2, <1>6, <1>7, MeshedEntry
  <2>2. /\ mesh'[m] \in MeshEntries /\ mesh'[m].request = issued /\ mesh'[m].requested = issued
        /\ mesh'[m].queued /\ (mesh'[m].shown = "Nothing" <=> mesh[m].shown = "Nothing")
    BY <1>2, <1>6, <1>7, <2>1, OutdatedEntry, RenewedEntry
  <2>3. HaloReady(m) => HaloReady(m)' BY <1>5, <2>1 DEF HaloGrows, HaloReady, Present, Absent
  <2>4. \A t \in mesh_tasks' : \E s \in mesh_tasks : s.id = t.id BY <1>2, TasksOutdated
  <2>5. QED BY <1>2, <1>3, <1>7, <2>1, <2>2, <2>3, <2>4, MeshRenewed
<1>8. QED BY <1>2, <1>3, <1>5, <1>6, <1>7, RemeshHolds

LEMMA InstallMeshed ==
    ASSUME MeshingAssumption, IInv, MInv, NEW l \in Locations, NEW v \in Nat \ {0}, InstallAndRemesh(l, v)
    PROVE  MInv'
<1>1. /\ UNCHANGED views /\ OutdateTasks(Sampling(l)) /\ MeshTypeOK /\ issued' = issued /\ issued \in Nat
      /\ block' = [block EXCEPT ![l] = Stored(0, v)]
  BY DEF InstallAndRemesh, InstallRemote, Set, Remesh, MInv, MeshTypeOK
<1>2. Stored(0, v) # None /\ Stored(0, v).voxels # 0
  BY DEF Stored, Blocks, MeshingAssumption, PagingAssumption
<1>3. \A k \in Locations \ {l} : block'[k] = block[k] BY <1>1 DEF IInv, TypeOK
<1>4. block'[l] = Stored(0, v) BY <1>1 DEF IInv, TypeOK
<1>5. Present(l)' /\ ~Local(l)' BY <1>2, <1>4 DEF Present, Absent, Local
<1>6. /\ mesh' = [m \in Meshes |-> mesh'[m]]
      /\ \A m \in Meshes : ~(m \in Sampling(l) /\ Meshed(m)) => mesh'[m] = mesh[m]
      /\ \A m \in Sampling(l) : Meshed(m) => m \in Meshes /\ mesh'[m] = Outdated(Queued(mesh[m]))
  BY DEF InstallAndRemesh, Remesh, Around, Sampling
<1>7. ASSUME NEW m \in Sampling(l), Meshed(m) PROVE mesh'[m] \in MeshEntries /\ MeshOK(m)'
  <2>1. Meshed(m) /\ m \in Meshes /\ l \in Halo[m] /\ mesh[m] \in MeshEntries
    BY <1>1, <1>7, MeshedEntry DEF Sampling
  <2>2. /\ mesh'[m] \in MeshEntries /\ mesh'[m].queued
        /\ mesh'[m].request = mesh[m].request /\ mesh'[m].requested = mesh[m].requested
        /\ mesh'[m].asked = mesh[m].asked /\ mesh'[m].needs = mesh[m].needs
        /\ (mesh'[m].shown = "Nothing" <=> mesh[m].shown = "Nothing")
    BY <1>6, <1>7, <2>1, OutdatedEntry, QueuedEntry
  <2>3. mesh'[m] # None BY <2>2 DEF MeshingAssumption
  <2>4. HaloReady(m) => HaloReady(m)'
    BY <1>3, <1>5, <2>1 DEF HaloReady, MeshingAssumption, Present, Absent
  <2>5. ~OwnHalo(m)' BY <1>5, <2>1 DEF OwnHalo
  <2>6. \A t \in mesh_tasks' : \E s \in mesh_tasks : s.loc = t.loc /\ s.rev = t.rev /\ s.id = t.id
    BY <1>1, TasksOutdated
  <2>7. QED BY <1>1, <2>1, <2>2, <2>3, <2>4, <2>5, <2>6, MeshQueued
<1>8. ASSUME NEW m \in Meshes \ Sampling(l) PROVE HaloGrows(m)
  BY <1>3 DEF Sampling, HaloGrows, MeshingAssumption
<1>9. QED BY <1>1, <1>6, <1>7, <1>8, RemeshHolds

\* Before a block is there, no mesh around it can have been built.
LEMMA LoadMeshed ==
    ASSUME MeshingAssumption, IInv, MInv, NEW r \in requests, LoadedAndMeshed(r) PROVE MInv'
<1> DEFINE l == r.loc
<1>1. CASE Present(l)
  <2>1. UNCHANGED <<views, block>> /\ UNCHANGED meshing
    BY <1>1 DEF LoadedAndMeshed, Loaded, Take
  <2>2. QED BY <2>1, AnswersMeshed
<1>2. CASE Absent(l)
  <2>1. /\ UNCHANGED views /\ OutdateTasks(Sampling(l)) /\ MeshTypeOK /\ issued \in Nat /\ l \in Locations
        /\ None \notin Nat /\ None \notin MeshEntries
        /\ \A k \in Locations \ {l} : block'[k] = block[k]
    BY <1>2 DEF LoadedAndMeshed, Loaded, Take, Remesh, MInv, MeshTypeOK, MeshingAssumption, PagingAssumption,
                Present, Set, IInv, TypeOK
  <2>2. issued' \in Nat /\ issued' >= issued /\ (\A m \in Sampling(l) : Meshed(m) => issued' = issued + 1)
    BY <1>2, <2>1 DEF LoadedAndMeshed, IssueFor, Present
  <2>3. /\ mesh' = [m \in Meshes |-> mesh'[m]]
        /\ \A m \in Meshes : ~(m \in Sampling(l) /\ Meshed(m)) => mesh'[m] = mesh[m]
        /\ \A m \in Sampling(l) : Meshed(m) => m \in Meshes /\ mesh'[m] = Outdated(Entering(l)[m])
    BY <1>2 DEF LoadedAndMeshed, Remesh, Around, Sampling, Present
  <2>4. ASSUME NEW m \in Sampling(l), Meshed(m) PROVE mesh'[m] \in MeshEntries /\ MeshOK(m)'
    <3>1. Meshed(m) /\ m \in Meshes /\ l \in Halo[m] /\ mesh[m] \in MeshEntries /\ MeshOK(m)
      BY <2>1, <2>4, MeshedEntry DEF Sampling, MInv
    <3>2. ~HaloReady(m) BY <1>2, <3>1 DEF HaloReady, Present
    <3>3. ~Pending(m) /\ mesh[m].shown = "Nothing" BY <3>1, <3>2 DEF MeshOK
    <3>4. \A t \in mesh_tasks' : \E s \in mesh_tasks : s.loc = t.loc /\ s.rev = t.rev /\ s.id = t.id
      BY <2>1, TasksOutdated
    <3>5. mesh'[m] = Outdated(Entering(l)[m]) /\ m \in Around(l) BY <2>3, <2>4 DEF Around
    <3>6. CASE \E k \in Halo[m] \ {l} : Absent(k)
      <4>1. Entering(l)[m] = mesh[m] BY <3>5, <3>6 DEF Entering
      <4>2. mesh'[m] = mesh[m] BY <3>1, <3>3, <3>5, <4>1 DEF Outdated, Aged, MeshEntries
      <4>3. ~Pending(m)' /\ \A t \in mesh_tasks' : t.loc = m => ~Awaited(t)'
        BY <3>3, <3>4, <4>2 DEF Pending, Awaited, Meshed
      <4>4. ~Settled(m)'
        <5>1. ~Settled(m) BY <3>1, <3>3 DEF MeshOK
        <5>2. QED BY <4>2, <5>1 DEF Settled
      <4>5. mesh[m].request # None => mesh[m].request \in Nat BY <3>1 DEF MeshEntries
      <4>6. mesh'[m].request # None => mesh'[m].request < issued'
        BY <2>1, <2>2, <3>1, <4>2, <4>5 DEF MeshOK
      <4>7. QED BY <2>1, <3>1, <3>3, <4>2, <4>3, <4>4, <4>6 DEF MeshOK
    <3>7. CASE ~(\E k \in Halo[m] \ {l} : Absent(k)) /\ mesh[m].requested = mesh[m].applied
      <4>1. Entering(l)[m] = Demanded(mesh[m]) BY <3>5, <3>7 DEF Entering
      <4>2. /\ mesh'[m] \in MeshEntries /\ mesh'[m] # None
            /\ mesh'[m].request = issued /\ mesh'[m].requested = issued
            /\ mesh'[m].queued /\ mesh'[m].shown = "Nothing"
        BY <2>1, <3>1, <3>3, <3>5, <4>1, OutdatedEntry, RenewedEntry
      <4>3. QED BY <2>1, <2>2, <2>4, <3>1, <3>2, <3>4, <4>2, MeshRenewed
    <3>8. CASE ~(\E k \in Halo[m] \ {l} : Absent(k)) /\ mesh[m].requested # mesh[m].applied
      <4>1. Entering(l)[m] = Queued(mesh[m]) BY <3>5, <3>8 DEF Entering
      <4>2. /\ mesh'[m] \in MeshEntries /\ mesh'[m] # None /\ mesh'[m].queued
            /\ mesh'[m].request = mesh[m].request /\ mesh'[m].requested = mesh[m].requested
            /\ mesh'[m].asked = mesh[m].asked /\ mesh'[m].needs = mesh[m].needs
            /\ mesh'[m].shown = "Nothing"
        BY <2>1, <3>1, <3>3, <3>5, <4>1, OutdatedEntry, QueuedEntry
      <4>3. QED BY <2>1, <2>2, <2>4, <3>1, <3>2, <3>3, <3>4, <4>2, MeshQueued
    <3>9. QED BY <3>6, <3>7, <3>8
  <2>5. ASSUME NEW m \in Meshes \ Sampling(l) PROVE HaloGrows(m)
    BY <2>1 DEF Sampling, HaloGrows, MeshingAssumption
  <2>6. QED BY <2>1, <2>2, <2>3, <2>4, <2>5, RemeshHolds
<1>3. QED BY <1>1, <1>2 DEF Present

-----------------------------------------------------------------------------
(* Viewers of meshes *)

\* A step that concerns the entry of one mesh, and tasks of that mesh.
LEMMA OneMeshHolds ==
    ASSUME MeshingAssumption, MInv, UNCHANGED vars, NEW n \in Meshes,
           \E x \in {None} \cup MeshEntries : mesh' = [mesh EXCEPT ![n] = x],
           mesh_tasks' \subseteq mesh_tasks, \A t : t.loc # n => (t \in mesh_tasks' <=> t \in mesh_tasks),
           issued' \in Nat, issued' >= issued, MeshOK(n)'
    PROVE  MInv'
<1>1. MeshTypeOK /\ MeshTypeOK' BY DEF MInv, MeshTypeOK
<1>2. ASSUME NEW t \in mesh_tasks' PROVE t.id < issued'
  <2>1. t.id < issued /\ t.id \in Nat /\ issued \in Nat BY DEF MInv, MeshTypeOK, MeshTasks
  <2>2. QED BY <2>1
<1>3. ASSUME NEW m \in Meshes \ {n} PROVE MeshOK(m)'
  <2>1. HaloKept(m) /\ mesh'[m] = mesh[m] BY <1>1, UnchangedVars DEF MeshTypeOK
  <2>2. QED BY <1>1, <2>1, MeshKept DEF MInv
<1>4. QED BY <1>1, <1>2, <1>3 DEF MInv

\* An entry with a request of its own, not answered yet, over a watched halo.
LEMMA MeshAsked ==
    ASSUME MInv, NEW m \in Meshes, issued' = issued + 1,
           \A k \in Halo[m] : views'[k] > 0,
           mesh'[m].request = issued, mesh'[m].requested # None, mesh'[m].queued, None \notin Nat,
           mesh'[m].shown # "Nothing" => HaloReady(m)',
           \A t \in mesh_tasks' : t \in mesh_tasks
    PROVE  MeshOK(m)'
<1>1. ~Pending(m)' /\ \A t \in mesh_tasks' : t.loc = m => ~Awaited(t)' BY NewRequest DEF Pending
<1>2. issued \in Nat /\ mesh'[m].request < issued' BY DEF MInv, MeshTypeOK
<1>3. QED BY <1>1, <1>2 DEF MeshOK, Settled

LEMMA DemandMeshed ==
    ASSUME MeshingAssumption, MInv, NEW m \in Meshes, NEW features \in SUBSET Features, Demand(m, features)
    PROVE  MInv'
<1> DEFINE old == IF Meshed(m) THEN mesh[m] ELSE NewEntry
           e == [old EXCEPT !.needs = features]
<1>1. /\ UNCHANGED vars /\ mesh_tasks' = mesh_tasks /\ (\A k \in Halo[m] : views[k] > 0)
      /\ MeshTypeOK /\ issued \in Nat /\ MeshOK(m) /\ None \notin Nat /\ None \notin MeshEntries
  BY DEF Demand, MInv, MeshTypeOK, MeshingAssumption, PagingAssumption
<1>2. old \in MeshEntries /\ e \in MeshEntries
      /\ e.needs = features /\ e.requested = old.requested /\ e.request = old.request
      /\ e.asked = old.asked /\ e.queued = old.queued /\ e.retries = old.retries
      /\ e.built = old.built /\ e.shown = old.shown
  BY <1>1, MeshedEntry DEF MeshEntries, NewEntry, Knowledge
<1>3. ASSUME ~Meshed(m)
      PROVE  /\ old.requested = None /\ old.request = None /\ old.asked = {} /\ ~old.queued /\ old.shown = "Nothing"
  BY <1>3 DEF NewEntry
<1>4. views' = views /\ (HaloReady(m)' <=> HaloReady(m)) /\ (OwnHalo(m)' <=> OwnHalo(m))
  BY <1>1 DEF vars, HaloReady, OwnHalo, Present, Absent, Local
<1>5. CASE Has(e, features) \/ features \subseteq e.asked
  <2>1. Set(mesh, m, e) /\ issued' = issued BY <1>5 DEF Demand
  <2>2. mesh' = [mesh EXCEPT ![m] = e] /\ mesh'[m] = e /\ e # None BY <1>1, <1>2, <2>1 DEF Set, MeshTypeOK
  <2> HIDE DEF e, old
  <2>3. MeshOK(m)'
    <3>1. CASE Meshed(m)
      <4>1. old = mesh[m] BY <3>1 DEF old
      <4>2. \A t \in mesh_tasks : t.loc = m => (Awaited(t)' <=> Awaited(t))
        BY <1>2, <2>2, <3>1, <4>1 DEF Awaited, Meshed
      <4>3. Pending(m)' <=> Pending(m) BY <1>1, <4>2 DEF Pending
      <4>4. Settled(m)' <=> Settled(m) BY <1>2, <2>2, <4>1 DEF Settled
      <4>5. e.requested = None => features = {}
        BY <1>1, <1>2, <1>5, <3>1, <4>1 DEF Has, MeshOK
      <4>6. Settled(m) => features \subseteq e.built
        BY <1>1, <1>2, <1>5, <3>1, <4>1 DEF Has, MeshOK
      <4>7. QED BY <1>1, <1>2, <1>4, <2>1, <2>2, <3>1, <4>1, <4>2, <4>3, <4>4, <4>5, <4>6 DEF MeshOK
    <3>2. CASE ~Meshed(m)
      <4>1. features = {} BY <1>2, <1>3, <1>5, <3>2 DEF Has
      <4>2. \A t \in mesh_tasks : t.loc = m => ~Awaited(t)'
        BY <1>1, <1>2, <1>3, <2>2, <3>2 DEF Awaited, MeshTypeOK, MeshTasks
      <4>3. QED BY <1>1, <1>2, <1>3, <1>4, <2>2, <3>2, <4>1, <4>2 DEF MeshOK, Pending, Settled
    <3>3. QED BY <3>1, <3>2
  <2>4. \E x \in {None} \cup MeshEntries : mesh' = [mesh EXCEPT ![m] = x] BY <1>2, <2>2
  <2>5. /\ mesh_tasks' \subseteq mesh_tasks /\ (\A t : t.loc # m => (t \in mesh_tasks' <=> t \in mesh_tasks))
        /\ issued' \in Nat /\ issued' >= issued
    BY <1>1, <2>1
  <2>6. UNCHANGED vars BY <1>1
  <2>7. QED BY <2>3, <2>4, <2>5, <2>6, OneMeshHolds
<1>6. CASE ~(Has(e, features) \/ features \subseteq e.asked)
  <2>1. Set(mesh, m, Demanded(e)) /\ issued' = issued + 1 BY <1>6 DEF Demand
  <2>2. mesh' = [mesh EXCEPT ![m] = Demanded(e)] /\ mesh'[m] = Demanded(e)
    BY <1>1, <2>1 DEF Set, MeshTypeOK
  <2> HIDE DEF e, old
  <2>3. /\ mesh'[m] \in MeshEntries /\ mesh'[m].queued /\ mesh'[m].shown = e.shown
        /\ mesh'[m].request = issued /\ mesh'[m].requested = issued
    BY <1>1, <1>2, <2>2, RenewedEntry
  <2>4. mesh'[m].shown # "Nothing" => HaloReady(m)'
    BY <1>1, <1>2, <1>3, <1>4, <2>3 DEF MeshOK, old
  <2>5. MeshOK(m)' BY <1>1, <1>4, <2>1, <2>3, <2>4, MeshAsked
  <2>6. \E x \in {None} \cup MeshEntries : mesh' = [mesh EXCEPT ![m] = x] BY <2>2, <2>3
  <2>7. /\ mesh_tasks' \subseteq mesh_tasks /\ (\A t : t.loc # m => (t \in mesh_tasks' <=> t \in mesh_tasks))
        /\ issued' \in Nat /\ issued' >= issued
    BY <1>1, <2>1
  <2>8. UNCHANGED vars BY <1>1
  <2>9. QED BY <2>5, <2>6, <2>7, <2>8, OneMeshHolds
<1>7. QED BY <1>5, <1>6

LEMMA ForgetMeshed ==
    ASSUME MeshingAssumption, MInv, NEW m \in Meshes, Forget(m) PROVE MInv'
<1>1. UNCHANGED vars /\ mesh_tasks' = mesh_tasks /\ issued' = issued /\ mesh' = [mesh EXCEPT ![m] = None]
      /\ MeshTypeOK /\ issued \in Nat
  BY DEF Forget, Set, MInv, MeshTypeOK
<1>2. mesh'[m] = None BY <1>1 DEF MeshTypeOK
<1>3. MeshOK(m)' BY <1>2 DEF MeshOK, Meshed
<1>4. /\ mesh_tasks' \subseteq mesh_tasks /\ \A t : t.loc # m => (t \in mesh_tasks' <=> t \in mesh_tasks)
      /\ issued' \in Nat /\ issued' >= issued
  BY <1>1
<1>5. \E x \in {None} \cup MeshEntries : mesh' = [mesh EXCEPT ![m] = x] BY <1>1
<1>6. QED BY <1>1, <1>3, <1>4, <1>5, OneMeshHolds

-----------------------------------------------------------------------------
(* Requests and answers *)

LEMMA DispatchMeshed ==
    ASSUME MeshingAssumption, MInv, DispatchMeshes PROVE MInv'
<1> DEFINE asking == Runnable \ Void
<1>1. /\ UNCHANGED vars /\ issued' = issued + 1 /\ MeshTypeOK /\ issued \in Nat /\ None \notin Nat /\ None \notin MeshEntries
      /\ mesh_tasks' = mesh_tasks \cup {TaskOf(m) : m \in asking}
      /\ issued' \in Nat /\ issued' >= issued
  BY DEF DispatchMeshes, MInv, MeshTypeOK, MeshingAssumption, PagingAssumption
<1>2. /\ mesh' = [m \in Meshes |-> mesh'[m]]
      /\ \A m \in Void : m \in Meshes /\ mesh'[m] = [mesh[m] EXCEPT !.queued = FALSE]
      /\ \A m \in asking : m \in Meshes /\ mesh'[m] = Sent(m)
      /\ \A m \in Meshes \ (Void \cup Runnable) : mesh'[m] = mesh[m]
  BY DEF DispatchMeshes, Void, Runnable
<1>3. \A m \in asking : /\ m \in Meshes /\ Meshed(m) /\ mesh[m] \in MeshEntries /\ MeshOK(m)
                        /\ mesh[m].requested # None /\ HaloReady(m)
  BY <1>1, MeshedEntry DEF Runnable, Void, MInv
<1>4. ASSUME NEW m \in asking
      PROVE  /\ Sent(m) \in MeshEntries /\ ~Sent(m).queued /\ Sent(m).requested = mesh[m].requested
             /\ Sent(m).shown = mesh[m].shown
             /\ Sent(m).request = IF mesh[m].request = None THEN issued ELSE mesh[m].request
             /\ Sent(m).request \in Nat /\ Sent(m).request < issued'
  <2>1. mesh[m].request # None => mesh[m].request < issued /\ mesh[m].request \in Nat
    BY <1>3 DEF MeshOK, MeshEntries
  <2> DEFINE req == IF mesh[m].request = None THEN issued ELSE mesh[m].request
  <2>2. req \in Nat /\ req < issued' BY <1>1, <2>1
  <2>3. Sent(m) = [mesh[m] EXCEPT !.queued = FALSE, !.request = req] BY DEF Sent
  <2> HIDE DEF req
  <2>4. mesh[m] \in MeshEntries BY <1>3
  <2>5. /\ Sent(m) \in MeshEntries /\ ~Sent(m).queued /\ Sent(m).requested = mesh[m].requested
        /\ Sent(m).shown = mesh[m].shown /\ Sent(m).request = req
    BY <2>2, <2>3, <2>4 DEF MeshEntries
  <2>6. QED BY <2>2, <2>5 DEF req
<1>5. ASSUME NEW m \in asking
      PROVE  /\ TaskOf(m) \in MeshTasks /\ TaskOf(m).loc = m /\ TaskOf(m).rev = mesh[m].requested
             /\ TaskOf(m).id = Sent(m).request /\ TaskOf(m).read = "Nothing"
  <2>1. mesh[m].requested \in Nat /\ {"visuals"} \cup (mesh[m].needs \cap {"collisions"}) \in SUBSET Features
    BY <1>3 DEF MeshEntries, Features
  <2>2. QED BY <1>3, <1>4, <2>1 DEF TaskOf, MeshTasks, Knowledge
<1> HIDE DEF asking
<1>6. MeshTypeOK'
  <2>1. ASSUME NEW m \in Meshes PROVE mesh'[m] \in {None} \cup MeshEntries
    <3>1. CASE m \in Void
      <4>1. mesh[m] \in MeshEntries BY <1>1, <3>1, MeshedEntry DEF Void
      <4>2. QED BY <1>2, <3>1, <4>1, ZenonT(40) DEF MeshEntries
    <3>2. CASE m \in asking BY <1>2, <1>4, <3>2
    <3>3. CASE m \in Meshes \ (Void \cup Runnable) BY <1>1, <1>2, <3>3 DEF MeshTypeOK
    <3>4. QED BY <3>1, <3>2, <3>3 DEF asking
  <2>2. QED BY <1>1, <1>2, <1>5, <2>1 DEF MeshTypeOK
<1>7. ASSUME NEW t \in mesh_tasks' PROVE t.id < issued'
  <2>1. CASE t \in mesh_tasks
    <3>1. t.id < issued /\ t.id \in Nat BY <2>1 DEF MInv, MeshTypeOK, MeshTasks
    <3>2. QED BY <1>1, <3>1
  <2>2. CASE t \notin mesh_tasks BY <1>1, <1>4, <1>5, <2>2
  <2>3. QED BY <2>1, <2>2
<1>8. ASSUME NEW m \in Meshes, m \notin asking PROVE \A t : t.loc = m => (t \in mesh_tasks' <=> t \in mesh_tasks)
  BY <1>1, <1>5, <1>8
<1>9. ASSUME NEW m \in Meshes \ (Void \cup Runnable) PROVE MeshOK(m)'
  <2>1. HaloKept(m) BY <1>1, UnchangedVars
  <2>2. m \notin asking BY DEF asking
  <2>3. QED BY <1>1, <1>2, <1>8, <2>1, <2>2, MeshKept DEF MInv
<1>10. (\A m \in Meshes : HaloReady(m)' <=> HaloReady(m)) /\ (\A m \in Meshes : OwnHalo(m)' <=> OwnHalo(m)) /\ views' = views
  BY <1>1 DEF vars, HaloReady, OwnHalo, Present, Absent, Local
<1>11. ASSUME NEW m \in Void PROVE MeshOK(m)'
  <2>1. Meshed(m) /\ m \in Meshes /\ mesh[m] \in MeshEntries /\ mesh[m].requested = None /\ MeshOK(m) /\ m \notin asking
    BY <1>1, MeshedEntry DEF Void, MInv, asking
  <2>2. mesh[m].request = None /\ mesh[m].asked = {} /\ mesh[m].needs = {} /\ mesh[m].shown = "Nothing"
    BY <2>1 DEF MeshOK
  <2>3. /\ mesh'[m].request = None /\ mesh'[m].requested = None /\ mesh'[m].asked = {}
        /\ mesh'[m].needs = {} /\ mesh'[m].shown = "Nothing"
    BY <1>2, <2>1, <2>2 DEF MeshEntries
  <2>4. \A t \in mesh_tasks' : t.loc = m => ~Awaited(t)'
    BY <1>1, <1>6, <2>3 DEF Awaited, MeshTypeOK, MeshTasks
  <2>5. \A k \in Halo[m] : views'[k] > 0 BY <1>10, <2>1 DEF MeshOK
  <2>6. QED BY <2>3, <2>4, <2>5 DEF MeshOK, Pending, Settled
<1>12. ASSUME NEW m \in asking PROVE MeshOK(m)'
  <2>1. /\ m \in Meshes /\ Meshed(m) /\ MeshOK(m) /\ HaloReady(m)' /\ mesh[m].requested # None
        /\ mesh'[m] = Sent(m) /\ mesh'[m] # None
    BY <1>1, <1>2, <1>3, <1>4, <1>10
  <2>2. Pending(m)'
    <3>1. TaskOf(m) \in mesh_tasks' BY <1>1
    <3>2. PICK t \in mesh_tasks' : t = TaskOf(m) BY <3>1
    <3>3. t.loc = m /\ t.rev = mesh[m].requested /\ t.id = Sent(m).request BY <1>5, <3>2
    <3>4. Awaited(t)' BY <1>4, <2>1, <3>3 DEF Awaited, Meshed
    <3>5. QED BY <3>3, <3>4 DEF Pending
  <2>3. ~Settled(m)' /\ mesh'[m].request < issued' /\ mesh'[m].requested # None
    BY <1>1, <1>4, <2>1 DEF Settled
  <2>4. ASSUME OwnHalo(m), NEW t \in mesh_tasks', t.loc = m, Awaited(t)' PROVE t.read # "Old"
    <3>1. CASE t \in mesh_tasks
      <4>1. t.rev = mesh[m].requested /\ t.id = Sent(m).request BY <1>4, <2>1, <2>4 DEF Awaited
      <4>2. t.id < issued /\ t.id \in Nat BY <3>1 DEF MInv, MeshTypeOK, MeshTasks
      <4>3. mesh[m].request # None BY <1>1, <1>4, <4>1, <4>2
      <4>4. Awaited(t) BY <1>4, <2>1, <2>4, <4>1, <4>3 DEF Awaited
      <4>5. QED BY <2>1, <2>4, <3>1, <4>4 DEF MeshOK
    <3>2. CASE t \notin mesh_tasks
      <4>1. PICK k \in asking : t = TaskOf(k) BY <1>1, <3>2
      <4>2. QED BY <1>5, <4>1
    <3>3. QED BY <3>1, <3>2
  <2>5. (OwnHalo(m)' <=> OwnHalo(m)) /\ \A k \in Halo[m] : views'[k] > 0 BY <1>10, <2>1 DEF MeshOK
  <2>6. QED BY <2>1, <2>2, <2>3, <2>4, <2>5 DEF MeshOK
<1>13. \A m \in Meshes : MeshOK(m)' BY <1>9, <1>11, <1>12 DEF asking
<1>14. QED BY <1>6, <1>7, <1>13 DEF MInv

LEMMA GatherMeshed ==
    ASSUME MeshingAssumption, MInv, NEW t \in mesh_tasks, Gather(t) PROVE MInv'
<1> DEFINE done == [t EXCEPT !.read = "Fresh"]
<1>1. /\ UNCHANGED vars /\ mesh' = mesh /\ issued' = issued /\ MeshTypeOK
      /\ mesh_tasks' = (mesh_tasks \ {t}) \cup {done}
  BY DEF Gather, MInv
<1>2. t \in MeshTasks /\ t.id < issued BY <1>1 DEF MInv, MeshTypeOK
<1>3. /\ done \in MeshTasks /\ done.loc = t.loc /\ done.rev = t.rev /\ done.id = t.id /\ done.read = "Fresh"
  BY <1>2 DEF MeshTasks, Knowledge
<1> HIDE DEF done
<1>4. MeshTypeOK' /\ \A s \in mesh_tasks' : s.id < issued'
  BY <1>1, <1>2, <1>3 DEF MeshTypeOK, MInv
<1>5. ASSUME NEW m \in Meshes PROVE MeshOK(m)'
  <2> SUFFICES ASSUME Meshed(m) PROVE MeshOK(m)' BY <1>1 DEF MeshOK, Meshed
  <2>1. \A s : Awaited(s)' <=> Awaited(s) BY <1>1 DEF Awaited, Meshed
  <2>2. Awaited(done) <=> Awaited(t) BY <1>3 DEF Awaited
  <2>3. Pending(m)' <=> Pending(m)
    <3>1. Pending(m)' => Pending(m) BY <1>1, <1>3, <2>1, <2>2 DEF Pending
    <3>2. Pending(m) => Pending(m)' BY <1>1, <1>3, <2>1, <2>2 DEF Pending
    <3>3. QED BY <3>1, <3>2
  <2>4. /\ views' = views /\ (HaloReady(m)' <=> HaloReady(m)) /\ (OwnHalo(m)' <=> OwnHalo(m))
        /\ (Settled(m)' <=> Settled(m)) /\ MeshOK(m)
    BY <1>1 DEF vars, HaloReady, OwnHalo, Present, Absent, Local, Settled, MInv
  <2>5. OwnHalo(m) => \A s \in mesh_tasks' : s.loc = m /\ Awaited(s)' => s.read # "Old"
    BY <1>1, <1>3, <2>1, <2>4 DEF MeshOK
  <2>6. QED BY <1>1, <2>3, <2>4, <2>5 DEF MeshOK
<1>6. QED BY <1>4, <1>5 DEF MInv

\* What every answer to a request has in common.
LEMMA AnswerTaken ==
    ASSUME MeshingAssumption, MInv, NEW t \in mesh_tasks, TakeMesh(t)
    PROVE  /\ UNCHANGED vars /\ views' = views /\ mesh_tasks' = mesh_tasks \ {t}
           /\ MeshTypeOK /\ issued \in Nat /\ None \notin Nat /\ None \notin MeshEntries
           /\ t.loc \in Meshes /\ t.rev \in Nat /\ t.id \in Nat /\ t.read \in Knowledge /\ t.features \in SUBSET Features
           /\ \A s \in mesh_tasks' : s \in mesh_tasks
           /\ \A s : s.loc # t.loc => (s \in mesh_tasks' <=> s \in mesh_tasks)
           /\ \A m \in Meshes : MeshOK(m) /\ (HaloReady(m)' <=> HaloReady(m)) /\ (OwnHalo(m)' <=> OwnHalo(m))
           /\ Awaited(t) => mesh[t.loc] \in MeshEntries /\ Pending(t.loc) /\ HaloReady(t.loc)
<1>1. UNCHANGED vars /\ mesh_tasks' = mesh_tasks \ {t} /\ MeshTypeOK BY DEF TakeMesh, MInv
<1>2. t \in MeshTasks BY <1>1 DEF MeshTypeOK
<1>3. /\ t.loc \in Meshes /\ t.rev \in Nat /\ t.id \in Nat /\ t.read \in Knowledge /\ t.features \in SUBSET Features
  BY <1>2 DEF MeshTasks
<1>4. views' = views /\ \A m \in Meshes : MeshOK(m) /\ (HaloReady(m)' <=> HaloReady(m)) /\ (OwnHalo(m)' <=> OwnHalo(m))
  BY <1>1 DEF vars, HaloReady, OwnHalo, Present, Absent, Local, MInv
<1>5. Awaited(t) => Meshed(t.loc) /\ Pending(t.loc) BY DEF Awaited, Pending
<1>6. Awaited(t) => mesh[t.loc] \in MeshEntries BY <1>1, <1>3, <1>5, MeshedEntry
<1>7. Awaited(t) => HaloReady(t.loc) BY <1>3, <1>4, <1>5 DEF MeshOK
<1>8. issued \in Nat /\ None \notin Nat /\ None \notin MeshEntries
  BY <1>1 DEF MeshTypeOK, MeshingAssumption, PagingAssumption
<1>9. QED BY <1>1, <1>3, <1>4, <1>5, <1>6, <1>7, <1>8

LEMMA StaleMeshed ==
    ASSUME MeshingAssumption, MInv, NEW t \in mesh_tasks, MeshStale(t) PROVE MInv'
<1>1. TakeMesh(t) /\ ~Awaited(t) /\ mesh' = mesh /\ issued' = issued BY DEF MeshStale
<1>2. /\ UNCHANGED vars /\ views' = views /\ mesh_tasks' = mesh_tasks \ {t} /\ MeshTypeOK
      /\ \A m \in Meshes : MeshOK(m) /\ (HaloReady(m)' <=> HaloReady(m)) /\ (OwnHalo(m)' <=> OwnHalo(m))
  BY <1>1, AnswerTaken
<1>3. ASSUME NEW m \in Meshes PROVE MeshOK(m)'
  <2>1. \A s : Awaited(s)' <=> Awaited(s) BY <1>1 DEF Awaited, Meshed
  <2>2. Pending(m)' <=> Pending(m) BY <1>1, <1>2, <2>1 DEF Pending
  <2>3. (Settled(m)' <=> Settled(m)) /\ (Meshed(m)' <=> Meshed(m)) BY <1>1 DEF Settled, Meshed
  <2>4. OwnHalo(m) /\ Meshed(m) => \A s \in mesh_tasks' : s.loc = m /\ Awaited(s)' => s.read # "Old"
    BY <1>2, <2>1 DEF MeshOK
  <2>5. QED BY <1>1, <1>2, <2>2, <2>3, <2>4 DEF MeshOK
<1>4. QED BY <1>1, <1>2, <1>3 DEF MInv, MeshTypeOK

\* An answer that replaces the entry it belongs to.
LEMMA AnswerHolds ==
    ASSUME MeshingAssumption, MInv, NEW t \in mesh_tasks, TakeMesh(t),
           \E x \in MeshEntries : mesh' = [mesh EXCEPT ![t.loc] = x],
           issued' \in Nat, issued' >= issued, MeshOK(t.loc)'
    PROVE  MInv'
<1>1. /\ UNCHANGED vars /\ mesh_tasks' \subseteq mesh_tasks /\ t.loc \in Meshes
      /\ \A s : s.loc # t.loc => (s \in mesh_tasks' <=> s \in mesh_tasks)
  BY AnswerTaken
<1>2. \E x \in {None} \cup MeshEntries : mesh' = [mesh EXCEPT ![t.loc] = x] OBVIOUS
<1>3. QED BY <1>1, <1>2, OneMeshHolds

\* The request is issued anew, with what the answer leaves of the entry.
LEMMA AskedAgain ==
    ASSUME MeshingAssumption, MInv, NEW t \in mesh_tasks, TakeMesh(t), Awaited(t), issued' = issued + 1,
           \E x \in MeshEntries :
               /\ mesh' = [mesh EXCEPT ![t.loc] = x]
               /\ x.request = issued /\ x.requested # None /\ x.queued
    PROVE  MInv'
<1>1. PICK x \in MeshEntries :
        /\ mesh' = [mesh EXCEPT ![t.loc] = x]
        /\ x.request = issued /\ x.requested # None /\ x.queued
  OBVIOUS
<1>2. /\ t.loc \in Meshes /\ MeshTypeOK /\ issued \in Nat /\ None \notin Nat /\ views' = views
      /\ HaloReady(t.loc)' /\ MeshOK(t.loc) /\ Meshed(t.loc) /\ \A s \in mesh_tasks' : s \in mesh_tasks
  BY AnswerTaken DEF Awaited
<1>3. mesh'[t.loc] = x BY <1>1, <1>2 DEF MeshTypeOK
<1>4. \A k \in Halo[t.loc] : views'[k] > 0 BY <1>2 DEF MeshOK
<1>5. MeshOK(t.loc)' BY <1>1, <1>2, <1>3, <1>4, MeshAsked
<1>6. \E y \in MeshEntries : mesh' = [mesh EXCEPT ![t.loc] = y] BY <1>1
<1>7. issued' \in Nat /\ issued' >= issued BY <1>2
<1>8. QED BY <1>5, <1>6, <1>7, AnswerHolds

\* What was read last is shown, and is not older than the blocks of this terrain.
LEMMA BuiltMeshed ==
    ASSUME MeshingAssumption, MInv, NEW t \in mesh_tasks, MeshBuilt(t) PROVE MInv'
<1> DEFINE n == t.loc
           e == Accepted(mesh[t.loc], t)
<1>1. TakeMesh(t) /\ Awaited(t) /\ t.read # "Nothing" BY DEF MeshBuilt
<1>2. /\ views' = views /\ mesh_tasks' = mesh_tasks \ {t} /\ MeshTypeOK /\ issued \in Nat /\ None \notin Nat
      /\ n \in Meshes /\ t.rev \in Nat /\ t.id \in Nat /\ t.read \in Knowledge /\ t.features \in SUBSET Features
      /\ mesh[n] \in MeshEntries /\ Pending(n) /\ HaloReady(n)' /\ MeshOK(n) /\ Meshed(n)
      /\ (OwnHalo(n)' <=> OwnHalo(n)) /\ None \notin MeshEntries
  BY <1>1, AnswerTaken DEF Awaited
<1>3. /\ e \in MeshEntries /\ e.request = None /\ e.applied = t.rev /\ e.asked = t.features
      /\ e.built = t.features /\ e.shown = t.read /\ e.needs = mesh[n].needs /\ e.requested = t.rev
  BY <1>1, <1>2 DEF Accepted, MeshEntries, Awaited
<1>4. OwnHalo(n) => t.read # "Old" BY <1>1, <1>2 DEF MeshOK
<1> HIDE DEF e
<1>5. CASE e.needs \subseteq t.features
  <2>1. mesh' = [mesh EXCEPT ![n] = e] /\ issued' = issued BY <1>5 DEF MeshBuilt, Set, e
  <2>2. mesh'[n] = e BY <1>2, <2>1 DEF MeshTypeOK
  <2>3. \A s \in mesh_tasks' : s.loc = n => ~Awaited(s)'
    BY <1>2, <1>3, <2>2 DEF Awaited, MeshTypeOK, MeshTasks
  <2>4. \A k \in Halo[n] : views'[k] > 0 BY <1>2 DEF MeshOK
  <2>5. OwnHalo(n)' => e.shown = "Fresh" BY <1>1, <1>2, <1>3, <1>4 DEF Knowledge
  <2>6. MeshOK(n)' BY <1>1, <1>2, <1>3, <1>5, <2>2, <2>3, <2>4, <2>5 DEF MeshOK, Pending
  <2>7. \E x \in MeshEntries : mesh' = [mesh EXCEPT ![t.loc] = x] BY <1>3, <2>1
  <2>8. issued' \in Nat /\ issued' >= issued BY <1>2, <2>1
  <2>9. QED BY <1>1, <2>6, <2>7, <2>8, AnswerHolds
<1>6. CASE ~(e.needs \subseteq t.features)
  <2>1. mesh' = [mesh EXCEPT ![t.loc] = Demanded(e)] /\ issued' = issued + 1 BY <1>6 DEF MeshBuilt, Set, e
  <2>2. /\ Demanded(e) \in MeshEntries /\ Demanded(e).request = issued /\ Demanded(e).requested # None
        /\ Demanded(e).queued
    BY <1>2, <1>3, RenewedEntry
  <2>3. QED BY <1>1, <2>1, <2>2, AskedAgain
<1>7. QED BY <1>5, <1>6

LEMMA RefusedMeshed ==
    ASSUME MeshingAssumption, MInv, NEW t \in mesh_tasks, MeshRefused(t) PROVE MInv'
<1>1. TakeMesh(t) /\ Awaited(t) /\ issued' = issued + 1 BY DEF MeshRefused
<1>2. mesh[t.loc] \in MeshEntries /\ issued \in Nat /\ t.rev \in Nat /\ None \notin Nat BY <1>1, AnswerTaken
<1>3. mesh[t.loc].requested = t.rev BY <1>1 DEF Awaited
<1>4. PICK x : x = [Reissued(mesh[t.loc]) EXCEPT !.retries = 0] OBVIOUS
<1>5. x \in MeshEntries /\ x.request = issued /\ x.requested # None /\ x.queued
  BY <1>2, <1>3, <1>4 DEF Reissued, MeshEntries
<1>6. mesh' = [mesh EXCEPT ![t.loc] = x] BY <1>4 DEF MeshRefused, Set
<1>7. QED BY <1>1, <1>5, <1>6, AskedAgain

LEMMA DiedMeshed ==
    ASSUME MeshingAssumption, MInv, NEW t \in mesh_tasks, MeshDied(t) PROVE MInv'
<1> DEFINE n == t.loc
           e == [mesh[t.loc] EXCEPT !.retries = @ + 1]
<1>1. TakeMesh(t) /\ Awaited(t) BY DEF MeshDied
<1>2. /\ views' = views /\ MeshTypeOK /\ issued \in Nat /\ None \notin Nat
      /\ n \in Meshes /\ t.rev \in Nat /\ t.id \in Nat /\ MaxMeshRetries \in Nat
      /\ mesh[n] \in MeshEntries /\ Pending(n) /\ HaloReady(n)' /\ MeshOK(n) /\ Meshed(n)
      /\ (OwnHalo(n)' <=> OwnHalo(n)) /\ None \notin MeshEntries
      /\ \A s \in mesh_tasks' : s \in mesh_tasks
  BY <1>1, AnswerTaken DEF Awaited, MeshingAssumption
<1>3. mesh[n].requested = t.rev /\ mesh[n].request = t.id BY <1>1 DEF Awaited
<1>4. /\ e \in MeshEntries /\ e.requested = t.rev /\ e.queued = mesh[n].queued /\ e.shown = mesh[n].shown
      /\ e.asked = mesh[n].asked /\ e.needs = mesh[n].needs /\ e.built = mesh[n].built
  BY <1>2, <1>3 DEF MeshEntries
<1> HIDE DEF e
<1>5. \A k \in Halo[n] : views'[k] > 0 BY <1>2 DEF MeshOK
<1>6. CASE mesh[n].queued /\ UNCHANGED <<mesh, issued>>
  <2>1. \A s : Awaited(s)' <=> Awaited(s) BY <1>6 DEF Awaited, Meshed
  <2>2. OwnHalo(n)' => \A s \in mesh_tasks' : s.loc = n /\ Awaited(s)' => s.read # "Old"
    BY <1>2, <2>1 DEF MeshOK
  <2>3. ~Settled(n)' BY <1>6 DEF Settled
  <2>4. MeshOK(n)' BY <1>2, <1>5, <1>6, <2>2, <2>3 DEF MeshOK
  <2>5. mesh' = [mesh EXCEPT ![t.loc] = mesh[t.loc]] BY <1>2, <1>6 DEF MeshTypeOK
  <2>6. \E x \in MeshEntries : mesh' = [mesh EXCEPT ![t.loc] = x] BY <1>2, <2>5
  <2>7. issued' \in Nat /\ issued' >= issued BY <1>2, <1>6
  <2>8. QED BY <1>1, <2>4, <2>6, <2>7, AnswerHolds
<1>7. CASE ~mesh[n].queued /\ Set(mesh, n, Reissued(e)) /\ issued' = issued + 1
  <2>1. Reissued(e) \in MeshEntries /\ Reissued(e).request = issued /\ Reissued(e).requested # None
        /\ Reissued(e).queued
    BY <1>2, <1>4 DEF Reissued, MeshEntries
  <2>2. mesh' = [mesh EXCEPT ![t.loc] = Reissued(e)] BY <1>7 DEF Set
  <2>3. QED BY <1>1, <1>7, <2>1, <2>2, AskedAgain
<1>8. CASE /\ ~mesh[n].queued /\ e.retries > MaxMeshRetries
           /\ Set(mesh, n, [e EXCEPT !.request = None]) /\ UNCHANGED issued
  <2>1. PICK x : x = [e EXCEPT !.request = None] OBVIOUS
  <2>2. /\ x \in MeshEntries /\ x.request = None /\ x.requested = t.rev /\ x.retries = e.retries
        /\ x.shown = mesh[n].shown /\ x.retries \in Nat
    BY <1>4, <2>1 DEF MeshEntries
  <2>3. mesh' = [mesh EXCEPT ![t.loc] = x] BY <1>8, <2>1 DEF Set
  <2>4. mesh'[n] = x BY <1>2, <2>3 DEF MeshTypeOK
  <2>5. ~Settled(n)' BY <1>2, <1>8, <2>2, <2>4 DEF Settled
  <2>6. \A s \in mesh_tasks' : s.loc = n => ~Awaited(s)'
    BY <1>2, <2>2, <2>4 DEF Awaited, MeshTypeOK, MeshTasks
  <2>7. MeshOK(n)' BY <1>2, <1>5, <2>2, <2>4, <2>5, <2>6 DEF MeshOK, Pending
  <2>8. \E y \in MeshEntries : mesh' = [mesh EXCEPT ![t.loc] = y] BY <2>2, <2>3
  <2>9. issued' \in Nat /\ issued' >= issued BY <1>2, <1>8
  <2>10. QED BY <1>1, <2>7, <2>8, <2>9, AnswerHolds
<1>9. QED BY <1>6, <1>7, <1>8 DEF MeshDied, e

-----------------------------------------------------------------------------
(* The theorems *)

LEMMA MeshingInitHolds == MeshingInit => MInv
<1> SUFFICES ASSUME MeshingInit PROVE MInv OBVIOUS
<1>1. mesh = [m \in Meshes |-> None] /\ mesh_tasks = {} /\ issued = 0 BY DEF MeshingInit, MeshInit
<1>2. \A m \in Meshes : MeshOK(m) BY <1>1 DEF MeshOK, Meshed
<1>3. QED BY <1>1, <1>2 DEF MInv, MeshTypeOK

LEMMA MeshingStepHolds == MeshingAssumption /\ IInv /\ MInv /\ [MeshingNext]_allMeshing => MInv'
<1> SUFFICES ASSUME MeshingAssumption, IInv, MInv, [MeshingNext]_allMeshing PROVE MInv' OBVIOUS
<1>1. CASE UNCHANGED allMeshing BY <1>1, AnswersMeshed DEF allMeshing, vars
<1>2. ASSUME NEW l \in Locations, (View(l) /\ UNCHANGED meshing) \/ UnviewUnmeshed(l) \/ EditAndRemesh(l)
      PROVE  MInv'
  BY <1>2, ViewMeshed, UnviewMeshed, EditMeshed
<1>3. ASSUME NEW l \in Locations, NEW v \in Nat \ {0}, InstallAndRemesh(l, v) PROVE MInv'
  BY <1>3, InstallMeshed
<1>4. ASSUME NEW r \in requests,
             LoadedAndMeshed(r) \/ ((Stale(r) \/ Dropped(r) \/ NotFound(r)) /\ UNCHANGED meshing)
      PROVE  MInv'
  <2>1. CASE LoadedAndMeshed(r) BY <2>1, LoadMeshed
  <2>2. CASE (Stale(r) \/ Dropped(r) \/ NotFound(r)) /\ UNCHANGED meshing
    <3>1. UNCHANGED <<views, block>> BY <2>2 DEF Stale, Dropped, NotFound, Take
    <3>2. QED BY <2>2, <3>1, AnswersMeshed
  <2>3. QED BY <1>4, <2>1, <2>2
<1>5. CASE Dispatch /\ UNCHANGED meshing BY <1>5, AnswersMeshed DEF Dispatch
<1>6. ASSUME NEW m \in Meshes, Forget(m) \/ \E features \in SUBSET Features : Demand(m, features) PROVE MInv'
  BY <1>6, ForgetMeshed, DemandMeshed
<1>7. CASE DispatchMeshes BY <1>7, DispatchMeshed
<1>8. ASSUME NEW t \in mesh_tasks, Gather(t) \/ MeshAnswered(t) PROVE MInv'
  BY <1>8, GatherMeshed, StaleMeshed, BuiltMeshed, RefusedMeshed, DiedMeshed DEF MeshAnswered
<1>9. QED BY <1>1, <1>2, <1>3, <1>4, <1>5, <1>6, <1>7, <1>8 DEF MeshingNext

LEMMA MeshingInvariance == MeshingAssumption => (MeshingSpec => []MInv)
<1> SUFFICES ASSUME MeshingAssumption PROVE MeshingSpec => []MInv OBVIOUS
<1>1. MeshingInit => MInv BY MeshingInitHolds
<1>2. IInv /\ MInv /\ [MeshingNext]_allMeshing => MInv' BY MeshingStepHolds
<1>3. MeshingSpec => []IInv BY PagingInvariance
<1>4. QED BY <1>1, <1>2, <1>3, PTL DEF MeshingSpec, allMeshing

\* The type invariant, for any halos and any limit of retries.
THEOREM MeshTypes == MeshingAssumption => (MeshingSpec => []MeshTypeOK)
<1>1. MInv => MeshTypeOK BY DEF MInv
<1>2. QED BY <1>1, MeshingInvariance, PTL

\* A mesh at rest shows its blocks as they are and has all that is required of
\* it: an entry at rest without a request has had its answer, and no task that
\* read an older block is awaited.
LEMMA MInvCatchesUp == MeshingAssumption /\ MInv => MeshesCatchUp
<1> SUFFICES ASSUME MeshingAssumption, MInv, NEW m \in Meshes,
                    AtRest(m), mesh[m].needs # {}, mesh[m].retries <= MaxMeshRetries, OwnHalo(m)
             PROVE  mesh[m].shown = "Fresh" /\ mesh[m].needs \subseteq mesh[m].built
  BY DEF MeshesCatchUp
<1>1. Meshed(m) /\ ~mesh[m].queued /\ ~Pending(m) BY DEF AtRest, Pending
<1>2. MeshOK(m) BY DEF MInv
<1>3. mesh[m].request = None /\ mesh[m].requested # None BY <1>1, <1>2 DEF MeshOK
<1>4. Settled(m) BY <1>1, <1>3 DEF Settled
<1>5. QED BY <1>1, <1>2, <1>4 DEF MeshOK

\* Whatever edits, loads, demands, retries and late answers come in which order,
\* a mesh that comes to rest has caught up with the blocks of this terrain.
THEOREM MeshesHaveCaughtUp == MeshingAssumption => (MeshingSpec => []MeshesCatchUp)
<1> SUFFICES ASSUME MeshingAssumption PROVE MeshingSpec => []MeshesCatchUp OBVIOUS
<1>1. MInv => MeshesCatchUp BY MInvCatchesUp
<1>2. QED BY <1>1, MeshingInvariance, PTL
=============================================================================
