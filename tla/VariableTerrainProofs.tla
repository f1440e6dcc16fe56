----------------------- MODULE VariableTerrainProofs ------------------------
(***************************************************************************)
(* Machine-checked proofs about VariableTerrain for any tree, views and    *)
(* bounds.                                                                 *)
(*                                                                         *)
(* First, without the planner: the state keeps its shape, and no mesh that *)
(* was built from old voxels is ever let through.  Then the planner: what  *)
(* each pass of preview_reconcile leaves, that what they show together is  *)
(* the ideal frontier, that the replay finds each of their groups possible *)
(* although it has them in another order, and what the answers between the *)
(* ticks keep for it.  From that: the frontier is always ideal, no tick is *)
(* refused, what is shown is meshed, no two LODs overlap and no hole opens.*)
(* Last, that a terrain at rest is sharp: no request is forgotten.         *)
(***************************************************************************)
EXTENDS VariableTerrain, FiniteSetTheorems, FunctionTheorems, SequenceTheorems,
        WellFoundedInduction, TLAPS

\* The strengthening of AnswersAreFresh.  A task whose answer would be let
\* through is of a node whose data is there, and whose entry is not queued: a
\* load or a planner that queues an entry under the request it has can only
\* meet entries for which no task is under way.
CurrentOK ==
    \A t \in tasks : IsCurrent(t) =>
        t.current /\ t.node \in halo /\ ~mesh[t.node].queued

IInv == TypeOK /\ CurrentOK

----------------------------------------------------------------------------
(* Fresh numbers *)

\* Finitely many tasks use finitely many numbers.
LEMMA UsedIsFinite ==
    ASSUME TypeOK, NEW n \in Node
    PROVE  IsFiniteSet(Used(n)) /\ Used(n) \subseteq Nat
<1> DEFINE T == {u \in tasks : u.node = n}
           R == {t.revision : t \in T}
           Q == {t.request : t \in T}
<1>1. IsFiniteSet(T) BY FS_Subset DEF TypeOK
<1>2. IsFiniteSet(R)
  <2> DEFINE f == [t \in T |-> t.revision]
  <2>1. f \in Surjection(T, R) BY DEF Surjection
  <2>2. QED BY <1>1, <2>1, FS_Surjection
<1>3. IsFiniteSet(Q)
  <2> DEFINE f == [t \in T |-> t.request]
  <2>1. f \in Surjection(T, Q) BY DEF Surjection
  <2>2. QED BY <1>1, <2>1, FS_Surjection
<1> DEFINE E == {accepted[n], mesh[n].requested, mesh[n].applied, mesh[n].request}
<1>4. IsFiniteSet(E)
  <2>1. IsFiniteSet({} \cup {accepted[n]}) BY FS_EmptySet, FS_AddElement
  <2>2. IsFiniteSet({} \cup {accepted[n]} \cup {mesh[n].requested}) BY <2>1, FS_AddElement
  <2>3. IsFiniteSet({} \cup {accepted[n]} \cup {mesh[n].requested} \cup {mesh[n].applied})
    BY <2>2, FS_AddElement
  <2>4. IsFiniteSet({} \cup {accepted[n]} \cup {mesh[n].requested} \cup {mesh[n].applied}
                      \cup {mesh[n].request})
    BY <2>3, FS_AddElement
  <2>5. E = {} \cup {accepted[n]} \cup {mesh[n].requested} \cup {mesh[n].applied}
              \cup {mesh[n].request}
    OBVIOUS
  <2>6. QED BY <2>4, <2>5
<1>5. IsFiniteSet(E \cup R \cup Q) BY <1>2, <1>3, <1>4, FS_Union
<1>6. E \cup R \cup Q \subseteq Nat BY DEF TypeOK, Task, Entry
<1>7. Used(n) = E \cup R \cup Q BY DEF Used
<1>8. QED BY <1>5, <1>6, <1>7

\* A new revision or request is one that neither the node's entry nor a task
\* of the node carries.
LEMMA FreshIsNew ==
    ASSUME TypeOK, NEW n \in Node
    PROVE  Fresh(n) \in Nat \ {0} /\ Fresh(n) \notin Used(n)
<1> DEFINE k == Cardinality(Used(n))
<1>1. IsFiniteSet(Used(n)) /\ k \in Nat BY UsedIsFinite, FS_CardinalityType
<1>2. \E i \in 1..(k + 1) : i \notin Used(n)
  <2>1. SUFFICES ASSUME 1..(k + 1) \subseteq Used(n) PROVE FALSE OBVIOUS
  <2>2. Cardinality(1..(k + 1)) = k + 1 BY <1>1, FS_Interval
  <2>3. Cardinality(1..(k + 1)) <= k BY <1>1, <2>1, FS_Subset
  <2>4. QED BY <1>1, <2>2, <2>3
<1>3. Fresh(n) \in 1..(k + 1) /\ Fresh(n) \notin Used(n) BY <1>2 DEF Fresh
<1>4. QED BY <1>1, <1>3

\* The same of what an entry and the tasks carry, as the proofs below use it.
LEMMA FreshIsNobodys ==
    ASSUME TypeOK, NEW n \in Node
    PROVE  /\ Fresh(n) \in Nat \ {0}
           /\ \A t \in tasks : t.node = n => t.revision # Fresh(n) /\ t.request # Fresh(n)
<1>1. Fresh(n) \in Nat \ {0} /\ Fresh(n) \notin Used(n) BY FreshIsNew
<1>2. QED BY <1>1 DEF Used

----------------------------------------------------------------------------
(* Entries *)

\* Vacant entries are entries.
LEMMA VacantIsEntry == Vacant \in Entry BY DEF Vacant, Entry

LEMMA ArrivedIsEntry ==
    ASSUME NEW e \in Entry, NEW i \in Nat \ {0}
    PROVE  Arrived(e, i) \in Entry /\ Arrived(e, i).request # 0
BY DEF Arrived, Entry

LEMMA EditedIsEntry ==
    ASSUME NEW e \in Entry, NEW i \in Nat \ {0}
    PROVE  Edited(e, i) \in Entry /\ Edited(e, i).request # 0
BY DEF Edited, Entry

\* The planner queues an entry under the request it has only when it is queued
\* already: an answer that fits what it leaves has fitted the entry before.
LEMMA PlannedEntry ==
    ASSUME NEW e \in Entry, NEW n, NEW l, NEW i \in Nat \ {0}, NEW p,
           p = Planned(e, n \in l, i), e.queued => e.request # 0
    PROVE  /\ p \in Entry
           /\ p.queued => p.request # 0
           /\ p.request \in {0, i, e.request}
           /\ p.request = e.request /\ e.request \notin {0, i} =>
                 /\ p.requested \in {e.requested, i}
                 /\ p.queued => e.queued \/ p.requested = i
<1> USE DEF Entry
<1>1. CASE n \notin l \/ e.applied # 0 BY <1>1 DEF Planned
<1>2. CASE ~(n \notin l \/ e.applied # 0) /\ e.requested = 0 BY <1>2 DEF Planned
<1>3. CASE ~(n \notin l \/ e.applied # 0) /\ e.requested # 0 /\ ~e.queued /\ e.request # 0
  BY <1>3 DEF Planned
<1>4. CASE ~(n \notin l \/ e.applied # 0) /\ e.requested # 0 /\ ~(~e.queued /\ e.request # 0)
  BY <1>4 DEF Planned
<1>5. QED BY <1>1, <1>2, <1>3, <1>4

----------------------------------------------------------------------------
(* Answers and edits *)

\* A terrain at rest has entries, and nobody to answer.
LEMMA InitInvariant == Init => IInv
<1> SUFFICES ASSUME NEW l \in Scenes, Scene(l) PROVE IInv BY DEF Init
<1>1. l \subseteq Node BY ViewsAssumption
<1>2. Settled \in Entry /\ Vacant \in Entry /\ ~Settled.queued /\ ~Vacant.queued
  BY DEF Settled, Vacant, Entry
<1>3. IsFiniteSet(tasks) BY FS_EmptySet DEF Scene
<1>4. mesh \in [Node -> Entry] BY <1>2 DEF Scene
<1>5. \A n \in Node : ~mesh[n].queued BY <1>2 DEF Scene
<1>6. \A n \in Node : n \notin resident => mesh[n] = Vacant BY DEF Scene
<1>7. TypeOK BY <1>1, <1>3, <1>4, <1>5, <1>6 DEF Scene, TypeOK
<1>8. QED BY <1>7 DEF IInv, CurrentOK, Scene

\* A loaded block queues its mesh, under a request that is new unless one was
\* waiting for the block, and then no task is under way.
LEMMA LoadStep ==
    ASSUME IInv, NEW n \in Node, LoadEnds(n)
    PROVE  IInv'
<1> DEFINE e == mesh[n]
<1>1. /\ e \in Entry /\ Fresh(n) \in Nat \ {0}
      /\ \A t \in tasks : t.node = n => t.revision # Fresh(n) /\ t.request # Fresh(n)
  BY FreshIsNobodys DEF IInv, TypeOK
<1>2. Arrived(e, Fresh(n)) \in Entry /\ Arrived(e, Fresh(n)).request # 0
  BY <1>1, ArrivedIsEntry
<1>3. TypeOK' BY <1>2 DEF IInv, TypeOK, LoadEnds
<1>4. ASSUME NEW t \in tasks, IsCurrent(t)' PROVE t.node # n
  <2>1. SUFFICES ASSUME t.node = n PROVE FALSE OBVIOUS
  <2>2. mesh'[n] = Arrived(e, Fresh(n)) BY DEF LoadEnds, IInv, TypeOK
  <2>3. /\ Arrived(e, Fresh(n)).requested = t.revision
        /\ Arrived(e, Fresh(n)).request = t.request
    BY <1>4, <2>1, <2>2 DEF IsCurrent
  <2>4. e.requested = t.revision /\ e.request = t.request
    BY <1>1, <2>1, <2>3 DEF Arrived, Entry
  <2>5. IsCurrent(t) BY <2>1, <2>4 DEF IsCurrent
  <2>6. QED BY <2>1, <2>5 DEF IInv, CurrentOK, LoadEnds
<1>5. CurrentOK'
  <2>1. SUFFICES ASSUME NEW t \in tasks, IsCurrent(t)'
                 PROVE  t.current /\ t.node \in halo' /\ ~mesh'[t.node].queued
    BY DEF CurrentOK, LoadEnds
  <2>2. t.node # n /\ t.node \in Node BY <1>4, <2>1 DEF IInv, TypeOK, Task
  <2>3. mesh'[t.node] = mesh[t.node] BY <2>2 DEF LoadEnds, IInv, TypeOK
  <2>4. IsCurrent(t) BY <2>1, <2>3 DEF IsCurrent
  <2>5. QED BY <2>3, <2>4 DEF IInv, CurrentOK, LoadEnds
<1>6. QED BY <1>3, <1>5 DEF IInv

\* A task whose answer fits is of a node that is resident, and asks for nothing else.
LEMMA CurrentIsResident ==
    ASSUME IInv, NEW t \in tasks, IsCurrent(t)
    PROVE  /\ t.node \in resident /\ t.node \in Node /\ t.node \in halo
           /\ ~mesh[t.node].queued /\ t.current
<1>1. t.node \in Node /\ t.request # 0 BY DEF IInv, TypeOK, Task
<1>2. mesh[t.node].request # 0 BY <1>1 DEF IsCurrent
<1>3. t.node \in resident BY <1>1, <1>2 DEF IInv, TypeOK, Vacant
<1>4. QED BY <1>1, <1>3 DEF IInv, CurrentOK

\* An accepted answer leaves the entry without a request.
LEMMA MeshStep ==
    ASSUME IInv, NEW t \in tasks, MeshEnds(t)
    PROVE  IInv'
<1>1. t \in Task /\ IsFiniteSet(tasks \ {t}) BY FS_RemoveElement DEF IInv, TypeOK
<1>2. CASE ~IsCurrent(t)
  <2>1. TypeOK' BY <1>1, <1>2 DEF MeshEnds, IInv, TypeOK
  <2>2. CurrentOK' BY <1>2 DEF MeshEnds, IInv, CurrentOK, IsCurrent
  <2>3. QED BY <2>1, <2>2 DEF IInv
<1>3. CASE IsCurrent(t)
  <2> DEFINE e == [mesh[t.node] EXCEPT !.applied = t.revision, !.request = 0, !.current = t.current]
  <2>1. t.node \in resident /\ t.node \in Node /\ ~mesh[t.node].queued
    BY <1>3, CurrentIsResident
  <2>2. e \in Entry /\ ~e.queued /\ e.request = 0
    <3>1. mesh[t.node] \in Entry BY <2>1 DEF IInv, TypeOK
    <3>2. t.revision \in Nat /\ t.current \in BOOLEAN BY <1>1 DEF Task
    <3>3. QED BY <2>1, <3>1, <3>2 DEF Entry
  <2>3. mesh' = [mesh EXCEPT ![t.node] = e] BY <1>3 DEF MeshEnds
  <2>4. TypeOK' BY <1>1, <1>3, <2>1, <2>2, <2>3 DEF MeshEnds, IInv, TypeOK
  <2>5. CurrentOK'
    <3>1. SUFFICES ASSUME NEW u \in tasks, IsCurrent(u)'
                   PROVE  u.current /\ u.node \in halo' /\ ~mesh'[u.node].queued
      BY DEF CurrentOK, MeshEnds
    <3>2. u.node \in Node /\ u.request # 0 BY DEF IInv, TypeOK, Task
    <3>3. u.node # t.node BY <2>1, <2>2, <2>3, <3>1, <3>2 DEF IInv, TypeOK, IsCurrent
    <3>4. mesh'[u.node] = mesh[u.node] BY <2>3, <3>2, <3>3 DEF IInv, TypeOK
    <3>5. QED BY <3>1, <3>4 DEF IInv, CurrentOK, IsCurrent, MeshEnds
  <2>6. QED BY <2>4, <2>5 DEF IInv
<1>4. QED BY <1>2, <1>3

\* A refused one is asked for again under a new request.
LEMMA RefusedStep ==
    ASSUME IInv, NEW t \in tasks, MeshRefused(t)
    PROVE  IInv'
<1>1. t \in Task /\ t.node \in Node /\ IsFiniteSet(tasks \ {t})
  BY FS_RemoveElement DEF IInv, TypeOK, Task
<1>2. CASE ~(IsCurrent(t) /\ ~mesh[t.node].queued)
  <2>1. mesh' = mesh BY <1>2 DEF MeshRefused
  <2>2. TypeOK' BY <1>1, <2>1 DEF MeshRefused, IInv, TypeOK
  <2>3. CurrentOK' BY <2>1 DEF MeshRefused, IInv, CurrentOK, IsCurrent
  <2>4. QED BY <2>2, <2>3 DEF IInv
<1>3. CASE IsCurrent(t) /\ ~mesh[t.node].queued
  <2> DEFINE i == Fresh(t.node)
             e == [mesh[t.node] EXCEPT !.request = i, !.queued = TRUE]
  <2>1. t.node \in resident BY <1>3, CurrentIsResident
  <2>2. i \in Nat \ {0} /\ \A u \in tasks : u.node = t.node => u.request # i
    BY <1>1, FreshIsNobodys DEF IInv
  <2>3. e \in Entry /\ e.request = i
    <3>1. mesh[t.node] \in Entry BY <1>1 DEF IInv, TypeOK
    <3>2. QED BY <2>2, <3>1 DEF Entry
  <2>4. mesh' = [mesh EXCEPT ![t.node] = e] BY <1>3 DEF MeshRefused
  <2>5. TypeOK' BY <1>1, <2>1, <2>2, <2>3, <2>4 DEF MeshRefused, IInv, TypeOK
  <2>6. CurrentOK'
    <3>1. SUFFICES ASSUME NEW u \in tasks, IsCurrent(u)'
                   PROVE  u.current /\ u.node \in halo' /\ ~mesh'[u.node].queued
      BY DEF CurrentOK, MeshRefused
    <3>2. u.node \in Node BY DEF IInv, TypeOK, Task
    <3>3. u.node # t.node BY <1>1, <2>2, <2>3, <2>4, <3>1 DEF IInv, TypeOK, IsCurrent
    <3>4. mesh'[u.node] = mesh[u.node] BY <2>4, <3>2, <3>3 DEF IInv, TypeOK
    <3>5. QED BY <3>1, <3>4 DEF IInv, CurrentOK, IsCurrent, MeshRefused
  <2>7. QED BY <2>5, <2>6 DEF IInv
<1>4. QED BY <1>2, <1>3

\* An edit makes every task over the voxel old, and its answer one nobody waits for.
LEMMA EditStep ==
    ASSUME IInv, NEW n \in Node, Edit(n)
    PROVE  IInv'
<1> DEFINE f == [t \in tasks |-> [t EXCEPT !.current = @ /\ t.node \notin Path[n]]]
           E == Path[n] \cap resident
<1>1. tasks' = {f[t] : t \in tasks} BY DEF Edit
<1>2. IsFiniteSet(tasks')
  <2>1. f \in Surjection(tasks, tasks') BY <1>1 DEF Surjection
  <2>2. QED BY <2>1, FS_Surjection DEF IInv, TypeOK
<1>3. \A t \in tasks : /\ f[t] \in Task /\ f[t].node = t.node
                       /\ f[t].revision = t.revision /\ f[t].request = t.request
                       /\ f[t].current <=> t.current /\ t.node \notin Path[n]
  BY DEF IInv, TypeOK, Task
<1> HIDE DEF f
<1>4. \A k \in Node : mesh'[k] = IF k \in E THEN Edited(mesh[k], Fresh(k)) ELSE mesh[k]
  BY DEF Edit
<1>5. \A k \in Node : /\ Fresh(k) \in Nat \ {0}
                      /\ \A t \in tasks : t.node = k => t.request # Fresh(k)
  BY FreshIsNobodys DEF IInv
<1>6. \A k \in Node : mesh'[k] \in Entry /\ (mesh'[k].queued => mesh'[k].request # 0)
  BY <1>4, <1>5, EditedIsEntry DEF IInv, TypeOK
<1>7. mesh' \in [Node -> Entry] BY <1>6 DEF Edit
<1>8. TypeOK'
  <2>1. tasks' \subseteq Task BY <1>1, <1>3
  <2>2. \A k \in Node : k \notin resident => mesh'[k] = Vacant BY <1>4 DEF IInv, TypeOK
  <2>3. QED BY <1>2, <1>6, <1>7, <2>1, <2>2 DEF Edit, IInv, TypeOK
<1>9. CurrentOK'
  <2>1. SUFFICES ASSUME NEW u \in tasks', IsCurrent(u)'
                 PROVE  u.current /\ u.node \in halo' /\ ~mesh'[u.node].queued
    BY DEF CurrentOK
  <2>2. PICK t \in tasks : u = f[t] BY <1>1
  <2>3. /\ t.node \in Node /\ u.node = t.node
        /\ mesh'[t.node].requested = t.revision /\ mesh'[t.node].request = t.request
    BY <1>3, <2>1, <2>2 DEF IsCurrent, IInv, TypeOK, Task
  <2>4. t.node \notin E
    <3>1. SUFFICES ASSUME t.node \in E PROVE FALSE OBVIOUS
    <3>2. mesh[t.node] \in Entry /\ mesh'[t.node] = Edited(mesh[t.node], Fresh(t.node))
      BY <1>4, <2>3, <3>1 DEF IInv, TypeOK
    <3>3. mesh'[t.node].request = Fresh(t.node) BY <3>2 DEF Edited, Entry
    <3>4. QED BY <1>5, <2>3, <3>3
  <2>5. mesh'[t.node] = mesh[t.node] BY <1>4, <2>3, <2>4
  <2>6. IsCurrent(t) BY <2>3, <2>5 DEF IsCurrent
  <2>7. t.node \in resident /\ t.node \in halo /\ ~mesh[t.node].queued /\ t.current
    BY <2>6, CurrentIsResident
  <2>8. u.current BY <1>3, <2>2, <2>4, <2>7
  <2>9. QED BY <2>3, <2>5, <2>7, <2>8 DEF Edit
<1>10. QED BY <1>8, <1>9 DEF IInv

----------------------------------------------------------------------------
(* The planner *)

\* What is handed to the pool is not queued any more, and shows the voxels as
\* they are; no earlier task of the node is waited for.
LEMMA PublishStep ==
    ASSUME IInv, NEW m \in [Node -> Entry], NEW present \in SUBSET Node,
           \A n \in Node : m[n].queued => m[n].request # 0,
           \A n \in Node : n \notin resident' => m[n] = Vacant,
           \A t \in tasks :
               m[t.node].requested = t.revision /\ m[t.node].request = t.request =>
                   IsCurrent(t) /\ t.node \in present /\ ~m[t.node].queued,
           Publish(m, present)
    PROVE  /\ halo' \subseteq Node
           /\ mesh' \in [Node -> Entry]
           /\ tasks' \subseteq Task /\ IsFiniteSet(tasks')
           /\ \A n \in Node : n \notin resident' => mesh'[n] = Vacant
           /\ \A n \in Node : mesh'[n].queued => mesh'[n].request # 0
           /\ CurrentOK'
<1> DEFINE G == {n \in Node : Goes(m[n], n, present)}
           D == {Dispatched(m[n], n) : n \in G}
<1>1. tasks' = tasks \cup D /\ halo' = present BY DEF Publish
<1>2. \A n \in Node : mesh'[n] = IF n \in G THEN [m[n] EXCEPT !.queued = FALSE] ELSE m[n]
  BY DEF Publish
<1>3. \A n \in G : /\ n \in Node /\ n \in present /\ m[n].queued /\ m[n] \in Entry
                   /\ m[n].request # 0
  BY DEF Goes
<1>4. \A n \in Node : /\ mesh'[n] \in Entry /\ ~(mesh'[n].queued /\ n \in G)
                      /\ mesh'[n].requested = m[n].requested /\ mesh'[n].request = m[n].request
                      /\ mesh'[n].queued => m[n].queued
  BY <1>2 DEF Entry
<1>5. mesh' \in [Node -> Entry]
  <2>1. mesh' = [n \in Node |-> mesh'[n]] BY DEF Publish
  <2>2. QED BY <1>4, <2>1
<1>6. \A n \in Node : mesh'[n].queued => mesh'[n].request # 0 BY <1>4
<1>7. \A n \in Node : n \notin resident' => mesh'[n] = Vacant
  <2>1. ~Vacant.queued BY DEF Vacant
  <2>2. QED BY <1>2, <1>3, <2>1
<1>8. D \subseteq Task
  <2>1. ASSUME NEW n \in G PROVE Dispatched(m[n], n) \in Task
    BY <1>3, <2>1 DEF Dispatched, Task, Entry
  <2>2. QED BY <2>1
<1>9. IsFiniteSet(D)
  <2>1. IsFiniteSet(Node) BY TreeAssumption, FS_Interval DEF Node
  <2>2. IsFiniteSet(G) BY <2>1, FS_Subset
  <2> DEFINE f == [n \in G |-> Dispatched(m[n], n)]
  <2>3. f \in Surjection(G, D) BY DEF Surjection
  <2>4. QED BY <2>2, <2>3, FS_Surjection
<1>10. tasks' \subseteq Task /\ IsFiniteSet(tasks')
  BY <1>1, <1>8, <1>9, FS_Union DEF IInv, TypeOK
<1>11. CurrentOK'
  <2>1. SUFFICES ASSUME NEW t \in tasks', IsCurrent(t)'
                 PROVE  t.current /\ t.node \in halo' /\ ~mesh'[t.node].queued
    BY DEF CurrentOK
  <2>2. CASE t \in tasks
    <3>1. t.node \in Node BY <2>2 DEF IInv, TypeOK, Task
    <3>2. m[t.node].requested = t.revision /\ m[t.node].request = t.request
      BY <1>4, <2>1, <3>1 DEF IsCurrent
    <3>3. IsCurrent(t) /\ t.node \in present /\ ~m[t.node].queued BY <2>2, <3>2
    <3>4. t.current BY <2>2, <3>3, CurrentIsResident
    <3>5. QED BY <1>1, <1>4, <3>1, <3>3, <3>4
  <2>3. CASE t \in D
    <3>1. PICK n \in G : t = Dispatched(m[n], n) BY <2>3
    <3>2. t.current /\ t.node = n BY <3>1 DEF Dispatched
    <3>3. QED BY <1>1, <1>3, <1>4, <3>2
  <2>4. QED BY <1>1, <2>1, <2>2, <2>3
<1>12. QED BY <1>1, <1>5, <1>6, <1>7, <1>10, <1>11

\* A tick without a plan hands the queued meshes out.
LEMMA SkipStep ==
    ASSUME IInv, SkipPlan, ticking' \in BOOLEAN
    PROVE  IInv'
<1>1. /\ mesh \in [Node -> Entry] /\ halo \in SUBSET Node /\ Publish(mesh, halo)
      /\ resident' = resident
  BY DEF IInv, TypeOK, SkipPlan
<1>2. \A n \in Node : mesh[n].queued => mesh[n].request # 0 BY DEF IInv, TypeOK
<1>3. \A n \in Node : n \notin resident' => mesh[n] = Vacant BY <1>1 DEF IInv, TypeOK
<1>4. \A t \in tasks :
         mesh[t.node].requested = t.revision /\ mesh[t.node].request = t.request =>
             IsCurrent(t) /\ t.node \in halo /\ ~mesh[t.node].queued
  BY CurrentIsResident DEF IsCurrent
<1>5. /\ halo' \subseteq Node /\ mesh' \in [Node -> Entry]
      /\ tasks' \subseteq Task /\ IsFiniteSet(tasks')
      /\ \A n \in Node : n \notin resident' => mesh'[n] = Vacant
      /\ \A n \in Node : mesh'[n].queued => mesh'[n].request # 0
      /\ CurrentOK'
  BY <1>1, <1>2, <1>3, <1>4, PublishStep
<1>6. TypeOK' BY <1>5 DEF SkipPlan, IInv, TypeOK
<1>7. QED BY <1>5, <1>6 DEF IInv

\* Whatever the planner decides to show, an entry that it leaves with a task's
\* request is one that the task's answer fitted before.
LEMMA PlanStep ==
    ASSUME IInv, NEW l \in SUBSET Node, NEW r \in SUBSET Node, Plan(l, r), ticking' \in BOOLEAN
    PROVE  IInv'
<1> DEFINE c       == Coverage(l, r)
           touched == Changed(l, r) \cup {n \in pending : IsAccepted(n)}
           d       == Reconcile(c, touched)
           shadows == Shadows(touched, d.groups)
           m       == [n \in Node |->
                         IF n \notin r THEN Vacant
                         ELSE IF n \in shadows THEN Planned(mesh[n], n \in l, Fresh(n))
                         ELSE mesh[n]]
<1>1. CASE ~(d.valid /\ SliceIsSound(c, d, shadows))
  <2>1. /\ refused' = TRUE
        /\ UNCHANGED <<load, resident, accepted, active, mesh, halo, tasks, pending>>
    BY <1>1 DEF Plan
  <2>2. TypeOK' BY <2>1 DEF IInv, TypeOK
  <2>3. CurrentOK' BY <2>1 DEF IInv, CurrentOK, IsCurrent
  <2>4. QED BY <2>2, <2>3 DEF IInv
<1>2. CASE d.valid /\ SliceIsSound(c, d, shadows)
  <2>1. /\ Publish(m, halo \cap r)
        /\ load' = l /\ resident' = r
        /\ accepted' = [n \in Node |-> IF n \in resident \ r THEN 0 ELSE NextAccepted(n)]
        /\ pending' = {n \in pending \cap resident : IsDeferred(n)}
        /\ UNCHANGED refused
    BY <1>2 DEF Plan
  <2> HIDE DEF shadows
  <2>2. \A n \in Node : /\ mesh[n] \in Entry /\ (mesh[n].queued => mesh[n].request # 0)
                        /\ Fresh(n) \in Nat \ {0}
                        /\ \A t \in tasks : t.node = n =>
                              t.revision # Fresh(n) /\ t.request # Fresh(n)
    BY FreshIsNobodys DEF IInv, TypeOK
  <2>3. Vacant \in Entry /\ ~Vacant.queued /\ Vacant.request = 0 BY DEF Vacant, Entry
  <2>4. \A n \in Node : m[n] \in Entry /\ (m[n].queued => m[n].request # 0)
    <3>1. SUFFICES ASSUME NEW n \in Node PROVE m[n] \in Entry /\ (m[n].queued => m[n].request # 0)
      OBVIOUS
    <3>2. CASE n \notin r BY <2>3, <3>2
    <3>3. CASE n \in r /\ n \in shadows
      <4>1. m[n] = Planned(mesh[n], n \in l, Fresh(n)) BY <3>3
      <4>2. QED BY <2>2, <4>1, PlannedEntry
    <3>4. CASE n \in r /\ n \notin shadows BY <2>2, <3>4
    <3>5. QED BY <3>2, <3>3, <3>4
  <2>5. \A n \in Node : n \notin resident' => m[n] = Vacant BY <2>1
  <2>6. ASSUME NEW t \in tasks, m[t.node].requested = t.revision, m[t.node].request = t.request
        PROVE  IsCurrent(t) /\ t.node \in halo \cap r /\ ~m[t.node].queued
    <3>0. t.node \in Node /\ t.request # 0 BY DEF IInv, TypeOK, Task
    <3>1. PICK n \in Node : n = t.node BY <3>0
    <3>2. n \in r BY <2>3, <2>6, <3>0, <3>1
    <3>3. CASE n \notin shadows
      <4>1. m[n] = mesh[n] BY <3>1, <3>2, <3>3
      <4>2. QED BY <2>6, <3>1, <3>2, <4>1, CurrentIsResident DEF IsCurrent
    <3>4. CASE n \in shadows
      <4> DEFINE e == Planned(mesh[n], n \in l, Fresh(n))
      <4>1. m[n] = e BY <3>1, <3>2, <3>4
      <4>2. e.requested = t.revision /\ e.request = t.request BY <2>6, <3>1, <4>1
      <4>3. t.revision # Fresh(n) /\ t.request \notin {0, Fresh(n)} BY <2>2, <3>0, <3>1
      <4> HIDE DEF e
      <4>4. /\ e = Planned(mesh[n], n \in l, Fresh(n))
            /\ mesh[n] \in Entry /\ Fresh(n) \in Nat \ {0}
            /\ mesh[n].queued => mesh[n].request # 0
        BY <2>2, <3>1 DEF e
      <4>5. /\ e.request \in {0, Fresh(n), mesh[n].request}
            /\ e.request = mesh[n].request /\ mesh[n].request \notin {0, Fresh(n)} =>
                 /\ e.requested \in {mesh[n].requested, Fresh(n)}
                 /\ e.queued => mesh[n].queued \/ e.requested = Fresh(n)
        BY <4>4, PlannedEntry
      <4>6. /\ mesh[n].request = t.request /\ mesh[n].requested = t.revision
            /\ e.queued => mesh[n].queued
        BY <4>2, <4>3, <4>5
      <4>7. IsCurrent(t) BY <3>1, <4>6 DEF IsCurrent
      <4>8. QED BY <3>1, <3>2, <4>1, <4>6, <4>7, CurrentIsResident
    <3>5. QED BY <3>3, <3>4
  <2>7. m \in [Node -> Entry] BY <2>4
  <2> HIDE DEF m
  <2>8. /\ halo' \subseteq Node /\ mesh' \in [Node -> Entry]
        /\ tasks' \subseteq Task /\ IsFiniteSet(tasks')
        /\ \A n \in Node : n \notin resident' => mesh'[n] = Vacant
        /\ \A n \in Node : mesh'[n].queued => mesh'[n].request # 0
        /\ CurrentOK'
    BY <2>1, <2>4, <2>5, <2>6, <2>7, PublishStep DEF IInv, TypeOK
  <2>9. accepted' \in [Node -> Nat]
    BY <2>1, <2>2 DEF NextAccepted, IInv, TypeOK, Entry
  <2>10. load' \subseteq Node /\ resident' \subseteq Node /\ pending' \subseteq Node
         /\ refused' \in BOOLEAN
    BY <2>1 DEF IInv, TypeOK
  <2>11. TypeOK' BY <2>8, <2>9, <2>10 DEF TypeOK
  <2>12. QED BY <2>8, <2>11 DEF IInv
<1>3. QED BY <1>1, <1>2

----------------------------------------------------------------------------
(* Theorems *)

\* Every answer, tick, move and edit keeps the invariant.
LEMMA NextInvariant == IInv /\ [Next]_vars => IInv'
<1> SUFFICES ASSUME IInv, [Next]_vars PROVE IInv' OBVIOUS
<1>1. CASE UNCHANGED vars
  BY <1>1 DEF vars, IInv, TypeOK, CurrentOK, IsCurrent
<1>2. ASSUME NEW n \in Node, LoadEnds(n) PROVE IInv' BY <1>2, LoadStep
<1>3. ASSUME NEW t \in tasks, MeshEnds(t) PROVE IInv' BY <1>3, MeshStep
<1>4. ASSUME NEW t \in tasks, MeshRefused(t) PROVE IInv' BY <1>4, RefusedStep
<1>5. ASSUME NEW l \in Views, NEW R \in Retains, Move(l, R) PROVE IInv'
  <2>1. l \in SUBSET Node /\ l \cup (resident \cap R) \in SUBSET Node
    BY ViewsAssumption DEF IInv, TypeOK
  <2>2. QED BY <1>5, <2>1, PlanStep DEF Move
<1>6. CASE Stay
  <2>1. load \in SUBSET Node /\ resident \in SUBSET Node BY DEF IInv, TypeOK
  <2>2. QED BY <1>6, <2>1, PlanStep, SkipStep DEF Stay
<1>7. ASSUME NEW n \in Brush, Edit(n) PROVE IInv'
  BY <1>7, EditStep, ViewsAssumption
<1>8. QED BY <1>1, <1>2, <1>3, <1>4, <1>5, <1>6, <1>7 DEF Next

LEMMA Invariance == Spec => []IInv
BY InitInvariant, NextInvariant, PTL DEF Spec

\* Of any tree and viewer: only resident nodes have an entry, and an entry that
\* is queued has a physical request (blocks_pending_update's check).
THEOREM VariableTypes == Spec => []TypeOK
<1>1. IInv => TypeOK BY DEF IInv
<1>2. QED BY <1>1, Invariance, PTL

\* Of any tree, any order of answers, edits, moves and refusals: an answer that
\* legacy_variable_apply_mesh_upload lets through was built from the voxels as
\* they are when it is applied.
THEOREM OnlyFreshAnswers == Spec => []AnswersAreFresh
<1>1. IInv => AnswersAreFresh BY DEF IInv, CurrentOK, AnswersAreFresh
<1>2. QED BY <1>1, Invariance, PTL

----------------------------------------------------------------------------
(* Induction over numbers *)

\* What holds of 0, and of k + 1 whenever it holds of k, holds of n.
LEMMA CountUp ==
    ASSUME NEW n \in Nat, NEW S, 0 \in S, \A k \in 0..n : k < n /\ k \in S => k + 1 \in S
    PROVE  n \in S
<1> DEFINE B == {k \in 0..n : k \notin S}
<1>1. SUFFICES ASSUME B # {} PROVE FALSE OBVIOUS
<1>2. B \subseteq Nat OBVIOUS
<1>3. PICK k \in B : \A j \in B : ~(<<j, k>> \in OpToRel(<, Nat))
  <2> HIDE DEF B
  <2>1. QED BY <1>1, <1>2, NatLessThanWellFounded, WFMin
<1>4. k \in 0..n /\ k \notin S /\ k # 0 BY <1>3
<1>5. k - 1 \in 0..n /\ k - 1 < n /\ (k - 1) + 1 = k /\ k - 1 < k BY <1>4
<1>6. k - 1 \in B BY <1>4, <1>5
<1>7. <<k - 1, k>> \in OpToRel(<, Nat) BY <1>4, <1>5 DEF OpToRel
<1>8. QED BY <1>3, <1>6, <1>7

----------------------------------------------------------------------------
(* The tree *)

\* What holds of a node whenever it is a root or its parent's holds, holds of all.
LEMMA FromTheRoots ==
    ASSUME NEW S, \A n \in Node : Parent[n] = 0 \/ Parent[n] \in S => n \in S
    PROVE  \A n \in Node : n \in S
<1> DEFINE H == {k \in Nat : \A n \in Node : NodeCount - n < k => n \in S}
<1>1. 0 \in H
  <2>1. \A n \in Node : ~(NodeCount - n < 0) BY TreeAssumption DEF Node
  <2>2. QED BY <2>1
<1>2. ASSUME NEW k \in 0..NodeCount, k < NodeCount, k \in H PROVE k + 1 \in H
  <2>1. ASSUME NEW n \in Node, NodeCount - n < k + 1 PROVE n \in S
    <3>1. CASE Parent[n] = 0 BY <3>1
    <3>2. CASE Parent[n] # 0
      <4>1. Parent[n] \in Node /\ Parent[n] > n BY <3>2, TreeAssumption
      <4>2. NodeCount - Parent[n] < k BY <2>1, <4>1, TreeAssumption DEF Node
      <4>3. QED BY <1>2, <4>1, <4>2
    <3>3. QED BY <3>1, <3>2
  <2>2. k + 1 \in Nat BY <1>2, TreeAssumption
  <2>3. QED BY <2>1, <2>2
<1>3. NodeCount \in H
  <2> HIDE DEF H
  <2>1. NodeCount \in Nat BY TreeAssumption
  <2>2. QED BY <1>1, <1>2, <2>1, CountUp
<1>4. \A n \in Node : NodeCount - n < NodeCount BY TreeAssumption DEF Node
<1>5. QED BY <1>3, <1>4

\* Path is what its definition says: the least set that holds n and the parent
\* of what it holds.
LEMMA PathIs ==
    \A n \in Node : Path[n] = {n} \cup (IF Parent[n] = 0 THEN {} ELSE Path[Parent[n]])
<1> DEFINE Closed(T) == \A x \in T : Parent[x] = 0 \/ Parent[x] \in T
           Least == [n \in Node |-> {m \in Node : \A T \in SUBSET Node :
                                        n \in T /\ Closed(T) => m \in T}]
           Up(f, n) == {n} \cup (IF Parent[n] = 0 THEN {} ELSE f[Parent[n]])
<1>1. ASSUME NEW n \in Node PROVE Least[n] = Up(Least, n)
  <2>1. ASSUME NEW m \in Least[n] PROVE m \in Up(Least, n)
    <3>1. Up(Least, n) \in SUBSET Node BY TreeAssumption
    <3>2. n \in Up(Least, n) OBVIOUS
    <3>3. ASSUME NEW x \in Up(Least, n) PROVE Parent[x] = 0 \/ Parent[x] \in Up(Least, n)
      <4>1. CASE x = n
        <5>1. CASE Parent[n] = 0 BY <4>1, <5>1
        <5>2. CASE Parent[n] # 0
          <6>1. Parent[n] \in Node BY <5>2, TreeAssumption
          <6>2. Parent[n] \in Least[Parent[n]] BY <6>1
          <6>3. QED BY <4>1, <5>2, <6>2
        <5>3. QED BY <5>1, <5>2
      <4>2. CASE x # n
        <5>1. Parent[n] \in Node /\ x \in Least[Parent[n]] /\ x \in Node BY <4>2, TreeAssumption
        <5>2. ASSUME Parent[x] # 0 PROVE Parent[x] \in Least[Parent[n]]
          <6>1. Parent[x] \in Node BY <5>1, <5>2, TreeAssumption
          <6>2. QED BY <5>1, <5>2, <6>1
        <5>3. QED BY <5>1, <5>2, TreeAssumption
      <4>3. QED BY <4>1, <4>2
    <3> HIDE DEF Up
    <3>4. \A T \in SUBSET Node : n \in T /\ Closed(T) => m \in T BY <2>1
    <3>5. QED BY <3>1, <3>2, <3>3, <3>4
  <2>2. ASSUME NEW m \in Up(Least, n) PROVE m \in Least[n]
    <3>1. CASE m = n BY <3>1
    <3>2. CASE m # n
      <4>1. Parent[n] # 0 /\ Parent[n] \in Node /\ m \in Least[Parent[n]] BY <2>2, <3>2, TreeAssumption
      <4>2. QED BY <4>1
    <3>3. QED BY <3>1, <3>2
  <2>3. QED BY <2>1, <2>2
<1>2. Least = [n \in Node |-> Up(Least, n)]
  <2>1. Least = [n \in Node |-> Least[n]] OBVIOUS
  <2> HIDE DEF Up, Least
  <2>2. QED BY <1>1, <2>1
<1>3. Path = [n \in Node |-> Up(Path, n)]
  <2> HIDE DEF Least
  <2>1. QED BY <1>2 DEF Path
<1>4. QED BY <1>3

\* A path is of nodes, none finer than the one it starts from.
LEMMA PathAbove ==
    ASSUME NEW n \in Node
    PROVE  n \in Path[n] /\ Path[n] \subseteq Node /\ \A m \in Path[n] : n <= m
<1> DEFINE S == {x \in Node : x \in Path[x] /\ Path[x] \subseteq Node /\ \A m \in Path[x] : x <= m}
<1>1. ASSUME NEW x \in Node, Parent[x] = 0 \/ Parent[x] \in S PROVE x \in S
  <2>1. Path[x] = {x} \cup (IF Parent[x] = 0 THEN {} ELSE Path[Parent[x]]) BY PathIs
  <2>2. CASE Parent[x] = 0 BY <2>1, <2>2 DEF Node
  <2>3. CASE Parent[x] # 0
    <3>1. Parent[x] \in S /\ Parent[x] > x /\ Parent[x] \in Node BY <1>1, <2>3, TreeAssumption
    <3>2. Path[x] \subseteq Node /\ x \in Path[x] BY <2>1, <3>1
    <3>3. ASSUME NEW m \in Path[x] PROVE x <= m
      <4>1. m = x \/ Parent[x] <= m BY <2>1, <3>1
      <4>2. QED BY <3>1, <3>2, <4>1 DEF Node
    <3>4. QED BY <3>2, <3>3
  <2>4. QED BY <2>2, <2>3
<1>2. n \in S
  <2> HIDE DEF S
  <2>1. QED BY <1>1, FromTheRoots
<1>3. QED BY <1>2

\* The path of what is on a path is a part of it, and holds the parent.
LEMMA PathWithin ==
    ASSUME NEW n \in Node, NEW m \in Path[n]
    PROVE  Path[m] \subseteq Path[n]
<1> DEFINE S == {x \in Node : \A y \in Path[x] : Path[y] \subseteq Path[x]}
<1>1. ASSUME NEW x \in Node, Parent[x] = 0 \/ Parent[x] \in S PROVE x \in S
  <2>1. Path[x] = {x} \cup (IF Parent[x] = 0 THEN {} ELSE Path[Parent[x]]) BY PathIs
  <2>2. ASSUME NEW y \in Path[x] PROVE Path[y] \subseteq Path[x]
    <3>1. CASE y = x BY <3>1
    <3>2. CASE y # x
      <4>1. Parent[x] # 0 /\ y \in Path[Parent[x]] /\ Parent[x] \in S BY <1>1, <2>1, <3>2
      <4>2. QED BY <2>1, <4>1
    <3>3. QED BY <3>1, <3>2
  <2>3. QED BY <2>2
<1>2. n \in S
  <2> HIDE DEF S
  <2>1. QED BY <1>1, FromTheRoots
<1>3. QED BY <1>2

\* What is on a path is met through one of its children.
LEMMA PathThroughChild ==
    ASSUME NEW n \in Node, NEW m \in Path[n], m # n
    PROVE  \E k \in Children[m] : k \in Path[n]
<1> DEFINE S == {x \in Node : \A y \in Path[x] : y # x => \E k \in Children[y] : k \in Path[x]}
<1>1. ASSUME NEW x \in Node, Parent[x] = 0 \/ Parent[x] \in S PROVE x \in S
  <2>1. Path[x] = {x} \cup (IF Parent[x] = 0 THEN {} ELSE Path[Parent[x]]) BY PathIs
  <2>2. ASSUME NEW y \in Path[x], y # x PROVE \E k \in Children[y] : k \in Path[x]
    <3>1. Parent[x] # 0 /\ y \in Path[Parent[x]] /\ Parent[x] \in S BY <1>1, <2>1, <2>2
    <3>2. CASE y = Parent[x]
      <4>1. x \in Children[y] BY <3>1, <3>2 DEF Children
      <4>2. QED BY <2>1, <4>1
    <3>3. CASE y # Parent[x] BY <2>1, <3>1, <3>3
    <3>4. QED BY <3>2, <3>3
  <2>3. QED BY <2>2
<1>2. n \in S
  <2> HIDE DEF S
  <2>1. QED BY <1>1, FromTheRoots
<1>3. QED BY <1>2

\* Every path ends in one root.
LEMMA PathHasRoot ==
    ASSUME NEW n \in Node
    PROVE  /\ RootOf[n] \in Path[n] /\ RootOf[n] \in Roots
           /\ \A r \in Path[n] : r \in Roots => r = RootOf[n]
<1> DEFINE S == {x \in Node : \E r \in Path[x] : /\ r \in Roots
                                                 /\ \A s \in Path[x] : s \in Roots => s = r}
<1>1. ASSUME NEW x \in Node, Parent[x] = 0 \/ Parent[x] \in S PROVE x \in S
  <2>1. Path[x] = {x} \cup (IF Parent[x] = 0 THEN {} ELSE Path[Parent[x]]) BY PathIs
  <2>2. CASE Parent[x] = 0 BY <2>1, <2>2 DEF Roots
  <2>3. CASE Parent[x] # 0
    <3>1. PICK r \in Path[Parent[x]] : r \in Roots /\ \A s \in Path[Parent[x]] : s \in Roots => s = r
      BY <1>1, <2>3
    <3>2. x \notin Roots BY <2>3 DEF Roots
    <3>3. r \in Path[x] /\ \A s \in Path[x] : s \in Roots => s = r BY <2>1, <2>3, <3>1, <3>2
    <3>4. QED BY <3>1, <3>3
  <2>4. QED BY <2>2, <2>3
<1>2. n \in S
  <2> HIDE DEF S
  <2>1. QED BY <1>1, FromTheRoots
<1>3. RootOf[n] = CHOOSE r \in Path[n] : r \in Roots BY DEF RootOf
<1>4. QED BY <1>2, <1>3

\* All of a path has its root, a root's path is itself, and children are finer.
LEMMA RootOfPath ==
    ASSUME NEW n \in Node, NEW m \in Path[n]
    PROVE  RootOf[m] = RootOf[n]
<1>1. m \in Node BY PathAbove
<1>2. RootOf[m] \in Path[m] /\ RootOf[m] \in Roots BY <1>1, PathHasRoot
<1>3. RootOf[m] \in Path[n] BY <1>2, PathWithin
<1>4. QED BY <1>2, <1>3, PathHasRoot

\* A root is all there is of its path.
LEMMA RootPath ==
    ASSUME NEW r \in Roots
    PROVE  r \in Node /\ Path[r] = {r} /\ RootOf[r] = r
<1>1. r \in Node /\ Parent[r] = 0 BY DEF Roots
<1>2. Path[r] = {r} BY <1>1, PathIs
<1>3. QED BY <1>1, <1>2, PathHasRoot

\* The path of a child is the child and the path of its parent, and a child is
\* numbered before its parent.
LEMMA ChildPath ==
    ASSUME NEW n \in Node, NEW k \in Children[n]
    PROVE  k \in Node /\ k # n /\ k < n /\ Path[k] = {k} \cup Path[n] /\ k \notin Path[n]
<1>1. k \in Node /\ Parent[k] = n BY DEF Children
<1>2. Parent[k] # 0 /\ k < n BY <1>1, TreeAssumption DEF Node
<1>3. Path[k] = {k} \cup Path[n] BY <1>1, <1>2, PathIs
<1>4. \A m \in Path[n] : n <= m BY PathAbove
<1>5. QED BY <1>1, <1>2, <1>3, <1>4 DEF Node

\* Two walks that start alike and step alike end alike.
LEMMA SameWalk ==
    ASSUME NEW n \in Nat, NEW f, NEW g, f[0] = g[0],
           \A i \in 1..n : f[i - 1] = g[i - 1] => f[i] = g[i]
    PROVE  \A i \in 0..n : f[i] = g[i]
<1> SUFFICES ASSUME NEW m \in 0..n PROVE f[m] = g[m] OBVIOUS
<1> DEFINE S == {i \in 0..n : f[i] = g[i]}
<1>1. 0 \in S /\ n \in Nat OBVIOUS
<1>2. ASSUME NEW k \in 0..m, k < m, k \in S PROVE k + 1 \in S
  <2>1. k + 1 \in 1..n /\ (k + 1) - 1 = k BY <1>2
  <2>2. QED BY <1>2, <2>1
<1>3. m \in S
  <2> HIDE DEF S
  <2>1. QED BY <1>1, <1>2, CountUp
<1>4. QED BY <1>3

\* A set of nodes none of which is above another.
Apart(a) == \A x \in a : Path[x] \cap a = {x}

\* The nodes above a set.
Inner(a) == {m \in Node \ a : Branch[m] \cap a # {}}

\* What a reconciliation may be asked: what is shown is ready, no node above
\* another, and nothing is missing below a node that has something shown there.
FrontierOK(c) ==
    /\ c.active \subseteq Node /\ c.load \subseteq c.resident /\ c.resident \subseteq Node
    /\ c.ready \subseteq Node
    /\ \A n \in c.load : Path[n] \subseteq c.load
    /\ Apart(c.active)
    /\ c.active \cup Inner(c.active) \subseteq c.ready
    /\ \A m \in Inner(c.active) : \A k \in Children[m] : Branch[k] \cap c.active # {}

\* The nodes that may be shown, the shown roots that may not be any more, the
\* roots to show, what is shown after the first pass, and the nodes that join.
Fit(c)  == c.load \cap c.ready
Off(c)  == {r \in Roots \cap c.active : r \notin Fit(c)}
On(c)   == {r \in Roots \cap Fit(c) : Branch[r] \cap c.active = {}}
Base(c) == (c.active \ Off(c)) \cup On(c)
Dead(c) == {m \in Inner(c.active) : ~IsSplitDemanded(c, m)}

\* The nodes that split when they are shown.
Splitting(c) == {m \in Node : IsSplitDemanded(c, m) /\ Children[m] \subseteq c.ready}

\* The nodes at which something has to change are looked at.
SeenAll(c, anchors) ==
    /\ anchors \subseteq Node
    /\ Off(c) \cup On(c) \cup Dead(c) \cup (c.active \cap Splitting(c)) \subseteq anchors

\* The groups of one kind.
Op(op, S) == {[op |-> op, anchor |-> n] : n \in S}

\* Demand is closed upwards, so a branch is demanded when its node is.
LEMMA Demanded ==
    ASSUME NEW c, FrontierOK(c), NEW n \in Node
    PROVE  /\ BranchIsDemanded(c, n) <=> n \in c.load
           /\ n \in c.load => BranchIsResident(c, n)
           /\ IsEligible(c, n) <=> n \in Fit(c)
<1>1. n \in Branch[n] BY PathAbove DEF Branch
<1>2. ASSUME NEW m \in Branch[n], m \in c.load PROVE n \in c.load
  <2>1. n \in Path[m] BY DEF Branch
  <2>2. QED BY <1>2, <2>1 DEF FrontierOK
<1>3. BranchIsDemanded(c, n) <=> n \in c.load BY <1>1, <1>2 DEF BranchIsDemanded
<1>4. n \in c.load => BranchIsResident(c, n) BY <1>1 DEF BranchIsResident, FrontierOK
<1>5. QED BY <1>3, <1>4 DEF IsEligible, IsReady, Fit

----------------------------------------------------------------------------
(* The part of a set that a pass has been over *)
\* Of the nodes S, those an ascending, or a descending, pass has met after i steps.
UpTo(S, i)   == {n \in S : n <= i}
DownTo(S, i) == {n \in S : NodeCount - i < n}

\* The passes of a draft, over the nodes S or with the anchors S, from the draft e.
RootsPass(c, e, S)  == Pass(LAMBDA d, r : RootStep(c, d, r), e, Ascending, S)
JoinsPass(c, e, S)  == Pass(LAMBDA d, n : JoinStep(c, d, n), e, Ascending, S)
SplitsPass(c, e, S) == Pass(LAMBDA d, n : SplitStep(c, d, n, S), e, Descending, Node)
RetirePass(c, e, S) == Pass(LAMBDA d, r : RetireStep(c, d, r), e, Ascending, S)

\* The passes meet every node once, ascending or descending.
LEMMA Indices ==
    /\ NodeCount \in Nat /\ Len(Ascending) = NodeCount /\ Len(Descending) = NodeCount
    /\ \A i \in 1..NodeCount : /\ Ascending[i] = i /\ Descending[i] = NodeCount + 1 - i
                               /\ i \in Node /\ NodeCount + 1 - i \in Node
                               /\ i # 0 /\ i \in 0..NodeCount /\ i - 1 \in 0..NodeCount
<1>1. NodeCount \in Nat /\ Node = 1..NodeCount BY TreeAssumption DEF Node
<1>2. Ascending = [i \in 1..NodeCount |-> i] /\ Descending = [i \in 1..NodeCount |-> NodeCount + 1 - i]
  BY <1>1 DEF Ascending, Descending
<1>3. Ascending \in Seq(Nat) /\ Descending \in Seq(Nat)
  <2>1. Ascending \in [1..NodeCount -> Nat] /\ Descending \in [1..NodeCount -> Nat] BY <1>1, <1>2
  <2>2. QED BY <1>1, <2>1, SeqDef
<1>4. Len(Ascending) = NodeCount /\ Len(Descending) = NodeCount
  <2>1. DOMAIN Ascending = 1..NodeCount /\ DOMAIN Descending = 1..NodeCount BY <1>2
  <2>2. QED BY <1>1, <1>3, <2>1, LenProperties
<1>5. QED BY <1>1, <1>2, <1>4

\* An ascending pass adds one node at a time.
LEMMA UpToStep ==
    ASSUME NEW S \in SUBSET Node
    PROVE  /\ UpTo(S, 0) = {} /\ UpTo(S, NodeCount) = S
           /\ \A i \in 1..NodeCount : /\ i \in S => UpTo(S, i) = UpTo(S, i - 1) \cup {i}
                                      /\ i \notin S => UpTo(S, i) = UpTo(S, i - 1)
                                      /\ i \notin UpTo(S, i - 1)
<1>1. \A n \in S : n \in 1..NodeCount BY DEF Node
<1>2. UpTo(S, 0) = {} /\ UpTo(S, NodeCount) = S BY <1>1, TreeAssumption DEF UpTo
<1>3. ASSUME NEW i \in 1..NodeCount
      PROVE  /\ i \in S => UpTo(S, i) = UpTo(S, i - 1) \cup {i}
             /\ i \notin S => UpTo(S, i) = UpTo(S, i - 1)
             /\ i \notin UpTo(S, i - 1)
  <2>1. \A n \in S : n <= i <=> n = i \/ n <= i - 1 BY <1>1, TreeAssumption
  <2>2. ~(i <= i - 1) /\ i <= i BY TreeAssumption
  <2>3. QED BY <2>1, <2>2 DEF UpTo
<1>4. QED BY <1>2, <1>3

\* A descending pass does so from the coarsest on.
LEMMA DownToStep ==
    ASSUME NEW S \in SUBSET Node
    PROVE  /\ DownTo(S, 0) = {} /\ DownTo(S, NodeCount) = S
           /\ \A i \in 1..NodeCount : \A n \in Node : n = NodeCount + 1 - i =>
                 /\ n \in S => DownTo(S, i) = DownTo(S, i - 1) \cup {n}
                 /\ n \notin S => DownTo(S, i) = DownTo(S, i - 1)
                 /\ \A m \in Node : m \in DownTo(S, i - 1) <=> m \in S /\ n < m
<1>1. \A n \in S : n \in 1..NodeCount BY DEF Node
<1>2. DownTo(S, 0) = {} /\ DownTo(S, NodeCount) = S BY <1>1, TreeAssumption DEF DownTo
<1>3. ASSUME NEW i \in 1..NodeCount, NEW n \in Node, n = NodeCount + 1 - i
      PROVE  /\ n \in S => DownTo(S, i) = DownTo(S, i - 1) \cup {n}
             /\ n \notin S => DownTo(S, i) = DownTo(S, i - 1)
             /\ \A m \in Node : m \in DownTo(S, i - 1) <=> m \in S /\ n < m
  <2>1. \A m \in Node : /\ NodeCount - i < m <=> m = n \/ n < m
                        /\ NodeCount - (i - 1) < m <=> n < m
    BY <1>3, TreeAssumption DEF Node
  <2>2. \A m \in S : m \in Node OBVIOUS
  <2>3. \A m \in Node : m \in DownTo(S, i - 1) <=> m \in S /\ n < m BY <2>1 DEF DownTo
  <2>4. \A m \in Node : m \in DownTo(S, i) <=> m \in S /\ (m = n \/ n < m) BY <2>1 DEF DownTo
  <2>5. DownTo(S, i) \subseteq Node /\ DownTo(S, i - 1) \subseteq Node BY DEF DownTo
  <2>6. QED BY <2>3, <2>4, <2>5
<1>4. QED BY <1>2, <1>3

----------------------------------------------------------------------------
(* The pass over the roots *)
\* The pass over the roots shows those in On and hides those in Off.
LEMMA RootsPassIs ==
    ASSUME NEW c, FrontierOK(c), NEW anchors, SeenAll(c, anchors)
    PROVE  RootsPass(c, [active |-> c.active, groups |-> {}], anchors \cap Roots)
             = [active |-> Base(c),
                groups |-> Op("RootActivate", On(c)) \cup Op("RootDeactivate", Off(c))]
<1> DEFINE A(i) == [active |-> (c.active \ UpTo(Off(c), i)) \cup UpTo(On(c), i),
                    groups |-> Op("RootActivate", UpTo(On(c), i)) \cup Op("RootDeactivate", UpTo(Off(c), i))]
           Step(d, r) == RootStep(c, d, r)
           d0 == [active |-> c.active, groups |-> {}]
           S == anchors \cap Roots
<1>1. Off(c) \in SUBSET Node /\ On(c) \in SUBSET Node /\ Off(c) \subseteq S /\ On(c) \subseteq S
  BY DEF Off, On, Roots, SeenAll
<1>2. A(0) = d0
  <2>1. UpTo(Off(c), 0) = {} /\ UpTo(On(c), 0) = {} BY <1>1, UpToStep
  <2>2. QED BY <2>1 DEF Op
<1>3. ASSUME NEW i \in 1..NodeCount
      PROVE  A(i) = IF i \in S THEN Step(A(i - 1), i) ELSE A(i - 1)
  <2>1. i \in Node BY DEF Node
  <2>2. i \notin UpTo(Off(c), i - 1) /\ i \notin UpTo(On(c), i - 1) BY <1>1, UpToStep
  <2>3. CASE i \notin S
    <3>1. i \notin Off(c) /\ i \notin On(c) BY <1>1, <2>3
    <3>2. UpTo(Off(c), i) = UpTo(Off(c), i - 1) /\ UpTo(On(c), i) = UpTo(On(c), i - 1)
      BY <1>1, <3>1, UpToStep
    <3>3. QED BY <2>3, <3>2
  <2>4. CASE i \in S
    <3> DEFINE a == (c.active \ UpTo(Off(c), i - 1)) \cup UpTo(On(c), i - 1)
    <3>0. i \in Roots BY <2>4
    <3>1. i \in a <=> i \in c.active BY <2>2
    <3>2. ASSUME NEW r \in Roots, r # i PROVE r \notin Branch[i]
      <4>1. r \in Node /\ Path[r] = {r} BY RootPath
      <4>2. QED BY <2>1, <3>2, <4>1 DEF Branch
    <3>3. ActiveBelow(a, i) = Branch[i] \cap c.active
      BY <2>2, <3>0, <3>2 DEF ActiveBelow, Off, On, UpTo
    <3>4. IsEligible(c, i) <=> i \in Fit(c) BY <2>1, Demanded
    <3>5. CASE i \in Off(c)
      <4>1. i \in a /\ ~IsEligible(c, i) /\ i \notin On(c)
        BY <3>1, <3>4, <3>5 DEF Off, On
      <4>2. Step(A(i - 1), i) = Add(A(i - 1), "RootDeactivate", i) BY <4>1 DEF RootStep
      <4>3. UpTo(Off(c), i) = UpTo(Off(c), i - 1) \cup {i} /\ UpTo(On(c), i) = UpTo(On(c), i - 1)
        BY <1>1, <3>5, <4>1, UpToStep
      <4>4. Add(A(i - 1), "RootDeactivate", i).active = A(i).active
        BY <2>2, <4>3 DEF Add, Project, Activates, Deactivates
      <4>5. Add(A(i - 1), "RootDeactivate", i).groups = A(i).groups
        BY <4>3 DEF Add, Op
      <4>6. QED BY <2>4, <4>2, <4>4, <4>5 DEF Add
    <3>6. CASE i \in On(c)
      <4>1. i \notin c.active BY <2>1, <3>6, PathAbove DEF On, Branch
      <4>2. i \notin a /\ IsEligible(c, i) /\ i \notin Off(c) /\ ActiveBelow(a, i) = {}
        BY <3>1, <3>3, <3>4, <3>6, <4>1 DEF Off, On
      <4>3. Step(A(i - 1), i) = Add(A(i - 1), "RootActivate", i) BY <4>2 DEF RootStep
      <4>4. UpTo(On(c), i) = UpTo(On(c), i - 1) \cup {i} /\ UpTo(Off(c), i) = UpTo(Off(c), i - 1)
        BY <1>1, <3>6, <4>2, UpToStep
      <4>5. Add(A(i - 1), "RootActivate", i).active = A(i).active
        BY <4>4 DEF Add, Project, Activates, Deactivates
      <4>6. Add(A(i - 1), "RootActivate", i).groups = A(i).groups
        BY <4>4 DEF Add, Op
      <4>7. QED BY <2>4, <4>3, <4>5, <4>6 DEF Add
    <3>7. CASE i \notin Off(c) /\ i \notin On(c)
      <4>1. ~(i \in a /\ ~IsEligible(c, i)) BY <3>0, <3>1, <3>4, <3>7 DEF Off
      <4>2. ~(ActiveBelow(a, i) = {} /\ IsEligible(c, i)) BY <3>0, <3>3, <3>4, <3>7 DEF On
      <4>3. Step(A(i - 1), i) = A(i - 1) BY <4>1, <4>2 DEF RootStep
      <4>4. UpTo(Off(c), i) = UpTo(Off(c), i - 1) /\ UpTo(On(c), i) = UpTo(On(c), i - 1)
        BY <1>1, <3>7, UpToStep
      <4>5. QED BY <2>4, <4>3, <4>4
    <3>8. QED BY <3>5, <3>6, <3>7
  <2>5. QED BY <2>3, <2>4
<1> DEFINE Walks(f) == f = [i \in 0..Len(Ascending) |->
                             IF i = 0 THEN d0
                             ELSE IF Ascending[i] \in S THEN Step(f[i - 1], Ascending[i])
                             ELSE f[i - 1]]
           g == [i \in 0..NodeCount |-> A(i)]
<1>4. RootsPass(c, [active |-> c.active, groups |-> {}], anchors \cap Roots)
        = (CHOOSE f : Walks(f))[NodeCount]
  BY Indices DEF RootsPass, Pass
<1> HIDE DEF A, Step, d0, S
<1>5. Walks(g)
  <2>1. \A i \in 0..NodeCount : i = 0 \/ i \in 1..NodeCount BY Indices
  <2>2. \A i \in 0..NodeCount :
           A(i) = IF i = 0 THEN d0
                  ELSE IF Ascending[i] \in S THEN Step(g[i - 1], Ascending[i]) ELSE g[i - 1]
    BY <1>2, <1>3, <2>1, Indices
  <2>3. QED BY <2>2, Indices
<1>6. ASSUME NEW f, Walks(f) PROVE f[NodeCount] = A(NodeCount)
  <2>1. f[0] = g[0] BY <1>2, <1>6, Indices
  <2>2. ASSUME NEW i \in 1..NodeCount, f[i - 1] = g[i - 1] PROVE f[i] = g[i]
    BY <1>3, <1>6, <2>2, Indices
  <2>3. g[NodeCount] = A(NodeCount) BY Indices
  <2> HIDE DEF g
  <2>4. NodeCount \in Nat /\ NodeCount \in 0..NodeCount BY Indices
  <2>5. \A i \in 0..NodeCount : f[i] = g[i]
    <3> HIDE DEF Walks
    <3>1. QED BY <2>1, <2>2, <2>4, SameWalk
  <2>6. QED BY <2>3, <2>4, <2>5
<1>7. (CHOOSE f : Walks(f))[NodeCount] = A(NodeCount)
  <2> HIDE DEF Walks
  <2>1. QED BY <1>5, <1>6
<1>8. UpTo(Off(c), NodeCount) = Off(c) /\ UpTo(On(c), NodeCount) = On(c) BY <1>1, UpToStep
<1>9. QED BY <1>4, <1>7, <1>8 DEF A, Base

\* A branch holds the nodes whose path leads through its root.
LEMMA InBranch ==
    \A n \in Node : \A x : x \in Branch[n] <=> x \in Node /\ n \in Path[x]
BY DEF Branch

\* Of two nodes on a path one is above the other.
LEMMA PathIsChain ==
    ASSUME NEW x \in Node, NEW m \in Path[x], NEW n \in Path[x]
    PROVE  m \in Path[n] \/ n \in Path[m]
<1> DEFINE S == {y \in Node : \A u, v \in Path[y] : u \in Path[v] \/ v \in Path[u]}
<1>1. ASSUME NEW y \in Node, Parent[y] = 0 \/ Parent[y] \in S PROVE y \in S
  <2>1. Path[y] = {y} \cup (IF Parent[y] = 0 THEN {} ELSE Path[Parent[y]]) BY PathIs
  <2>2. CASE Parent[y] = 0 BY <2>1, <2>2
  <2>3. CASE Parent[y] # 0
    <3>1. Parent[y] \in S /\ Path[y] = {y} \cup Path[Parent[y]] BY <1>1, <2>1, <2>3
    <3>2. \A u, v \in Path[y] : u \in Path[v] \/ v \in Path[u] BY <3>1
    <3>3. QED BY <3>2
  <2>4. QED BY <2>2, <2>3
<1>2. x \in S
  <2> HIDE DEF S
  <2>1. QED BY <1>1, FromTheRoots
<1>3. QED BY <1>2

\* The topmost node of a set on a path.
LEMMA Topmost ==
    ASSUME NEW D, NEW x \in Node, NEW d \in Path[x], d \in D
    PROVE  \E t \in Path[x] : t \in D /\ \A m \in Path[t] : m \in D => m = t
<1> DEFINE Top(y) == \E t \in Path[y] : t \in D /\ \A m \in Path[t] : m \in D => m = t
           S == {y \in Node : Path[y] \cap D # {} => Top(y)}
<1>1. ASSUME NEW y \in Node, Parent[y] = 0 \/ Parent[y] \in S PROVE y \in S
  <2>1. Path[y] = {y} \cup (IF Parent[y] = 0 THEN {} ELSE Path[Parent[y]]) BY PathIs
  <2>2. SUFFICES ASSUME Path[y] \cap D # {} PROVE Top(y) OBVIOUS
  <2>3. CASE Parent[y] # 0 /\ Path[Parent[y]] \cap D # {}
    <3>1. Top(Parent[y]) BY <1>1, <2>3
    <3>2. QED BY <2>1, <2>3, <3>1
  <2>4. CASE ~(Parent[y] # 0 /\ Path[Parent[y]] \cap D # {})
    <3>1. y \in D /\ \A m \in Path[y] : m \in D => m = y BY <2>1, <2>2, <2>4
    <3>2. QED BY <2>1, <3>1
  <2>5. QED BY <2>3, <2>4
<1>2. x \in S
  <2> HIDE DEF S
  <2>1. QED BY <1>1, FromTheRoots
<1>3. QED BY <1>2

\* Nobody is above and below at once.
LEMMA PathOrder ==
    ASSUME NEW x \in Node, NEW m \in Path[x]
    PROVE  m \in Node /\ x <= m /\ (x \in Path[m] => m = x) /\ (m # x => x < m)
<1>1. m \in Node /\ x <= m BY PathAbove
<1>2. x \in Path[m] => m <= x BY <1>1, PathAbove
<1>3. QED BY <1>1, <1>2 DEF Node

\* What is above a frontier is above all that is above it.
LEMMA InnerAbove ==
    ASSUME NEW a \in SUBSET Node, Apart(a), NEW m \in a \cup Inner(a), NEW p \in Path[m], p # m
    PROVE  p \in Inner(a)
<1>1. m \in Node BY DEF Inner
<1>2. PICK x \in a : m \in Path[x]
  <2>1. CASE m \in a BY <2>1, PathAbove
  <2>2. CASE m \in Inner(a) BY <2>2 DEF Inner, Branch
  <2>3. QED BY <2>1, <2>2
<1>3. p \in Path[x] /\ p \in Node BY <1>2, PathWithin, PathAbove
<1>4. p # x BY <1>1, <1>2, PathOrder
<1>5. p \notin a BY <1>2, <1>3, <1>4 DEF Apart
<1>6. x \in Branch[p] BY <1>2, <1>3 DEF Branch
<1>7. QED BY <1>2, <1>3, <1>5, <1>6 DEF Inner

\* What the pass over the roots leaves is a frontier again, below the same nodes.
LEMMA BaseIs ==
    ASSUME NEW c, FrontierOK(c)
    PROVE  /\ Base(c) \in SUBSET Node /\ Apart(Base(c))
           /\ Inner(Base(c)) = Inner(c.active)
           /\ Base(c) \cup Inner(c.active) \subseteq c.ready
           /\ Base(c) \cap Roots \subseteq Fit(c)
           /\ \A m \in Inner(c.active) : \A k \in Children[m] : k \in Base(c) \cup Inner(c.active)
<1>1. /\ c.active \in SUBSET Node /\ Apart(c.active) /\ On(c) \subseteq Roots /\ On(c) \subseteq Fit(c)
      /\ Roots \subseteq Node
  BY DEF FrontierOK, On, Roots
<1>2. \A x \in c.active : x \notin Roots => x \in Base(c) BY DEF Base, Off
<1>3. \A x \in Base(c) : x \in c.active \/ x \in On(c) BY DEF Base
<1>4. \A r \in Roots : Path[r] = {r} BY RootPath
<1>5. \A m \in Node, x \in Roots : x \in Branch[m] => m = x BY <1>4 DEF Branch
<1>6. ASSUME NEW x \in Base(c), NEW y \in Base(c), y \in Path[x] PROVE y = x
  <2>1. CASE x \in On(c) BY <1>1, <1>4, <1>6, <2>1
  <2>2. CASE x \in c.active
    <3>1. CASE y \in c.active BY <1>1, <1>6, <2>2, <3>1 DEF Apart
    <3>2. CASE y \in On(c)
      <4>1. x \in Branch[y] BY <1>1, <1>6, <2>2, <3>2, InBranch
      <4>2. QED BY <2>2, <3>2, <4>1 DEF On
    <3>3. QED BY <1>3, <3>1, <3>2
  <2>3. QED BY <1>3, <2>1, <2>2
<1>7. Base(c) \in SUBSET Node BY <1>1, <1>3
<1>8. Apart(Base(c))
  <2>1. \A x \in Base(c) : x \in Path[x] BY <1>7, PathAbove
  <2>2. QED BY <1>6, <2>1 DEF Apart
<1>9. ASSUME NEW m \in Inner(c.active) PROVE m \in Inner(Base(c))
  <2>1. m \in Node \ c.active /\ Branch[m] \cap c.active # {} BY DEF Inner
  <2>2. PICK x \in c.active : x \in Branch[m] BY <2>1
  <2>3. x \in Base(c) BY <1>2, <1>5, <2>1, <2>2
  <2>4. m \notin On(c) BY <2>1 DEF On
  <2>5. QED BY <1>3, <2>1, <2>2, <2>3, <2>4 DEF Inner
<1>10. ASSUME NEW m \in Inner(Base(c)) PROVE m \in Inner(c.active)
  <2>1. m \in Node \ Base(c) /\ Branch[m] \cap Base(c) # {} BY DEF Inner
  <2>2. PICK x \in Base(c) : x \in Branch[m] BY <2>1
  <2>3. x \in c.active BY <1>1, <1>3, <1>5, <2>1, <2>2
  <2>4. m \in Path[x] /\ x # m BY <2>1, <2>2 DEF Branch
  <2>5. QED BY <1>1, <2>3, <2>4, InnerAbove
<1>11. Inner(Base(c)) = Inner(c.active) BY <1>9, <1>10
<1>12. Base(c) \cup Inner(c.active) \subseteq c.ready BY <1>1, <1>3 DEF FrontierOK, Fit
<1>13. Base(c) \cap Roots \subseteq Fit(c) BY <1>1 DEF Base, Off
<1>14. ASSUME NEW m \in Inner(c.active), NEW k \in Children[m] PROVE k \in Base(c) \cup Inner(c.active)
  <2>1. Branch[k] \cap c.active # {} /\ k \in Node /\ k \notin Roots
    BY TreeAssumption DEF FrontierOK, Children, Roots, Inner, Node
  <2>2. QED BY <1>2, <2>1 DEF Inner
<1>15. QED BY <1>7, <1>8, <1>11, <1>12, <1>13, <1>14

----------------------------------------------------------------------------
(* The pass of the joins *)

\* A set with what lies below the nodes D replaced by these.
Collapse(X, D) == {x \in X \cup D : \A m \in Path[x] : m \in D => m = x}

\* The nodes above the frontier that join when D do.
Under(c, D) == {m \in Inner(c.active) : Path[m] \cap D # {}}

\* Below what has not joined there is what was there.
LEMMA BelowCollapsed ==
    ASSUME NEW c, FrontierOK(c), NEW D \in SUBSET Inner(c.active),
           NEW m \in Node, Path[m] \cap D = {}
    PROVE  Branch[m] \cap Collapse(Base(c), D) # {} <=> Branch[m] \cap Base(c) # {}
<1>0. Base(c) \in SUBSET Node /\ Inner(Base(c)) = Inner(c.active) BY BaseIs
<1>1. ASSUME NEW x \in Branch[m], x \in Collapse(Base(c), D) PROVE Branch[m] \cap Base(c) # {}
  <2>1. CASE x \in Base(c) BY <2>1
  <2>2. CASE x \in D
    <3>1. PICK y \in Base(c) : y \in Branch[x] BY <1>0, <2>2 DEF Inner
    <3>2. y \in Branch[m] BY <1>1, <3>1, PathWithin DEF Branch
    <3>3. QED BY <3>1, <3>2
  <2>3. QED BY <1>1, <2>1, <2>2 DEF Collapse
<1>2. ASSUME NEW x \in Branch[m], x \in Base(c) PROVE Branch[m] \cap Collapse(Base(c), D) # {}
  <2>1. x \in Node /\ m \in Path[x] BY DEF Branch
  <2>2. CASE Path[x] \cap D = {}
    <3>1. x \in Collapse(Base(c), D) BY <1>2, <2>2 DEF Collapse
    <3>2. QED BY <3>1
  <2>3. CASE Path[x] \cap D # {}
    <3>1. PICK t \in Path[x] : t \in D /\ \A k \in Path[t] : k \in D => k = t BY <2>1, <2>3, Topmost
    <3>2. t \in Collapse(Base(c), D) BY <3>1 DEF Collapse
    <3>3. m \in Path[t] \/ t \in Path[m] BY <2>1, <3>1, PathIsChain
    <3>4. t \in Branch[m] BY <2>1, <3>1, <3>3, PathAbove DEF Branch
    <3>5. QED BY <3>2, <3>4
  <2>4. QED BY <2>2, <2>3
<1>3. QED BY <1>1, <1>2

\* The chain of joins of one node, after D have joined.
LEMMA JoinOne ==
    ASSUME NEW c, FrontierOK(c), NEW D \in SUBSET Inner(c.active),
           NEW n \in Inner(c.active), Path[n] \cap D = {}
    PROVE  LET a == Collapse(Base(c), D) IN
           /\ ChainIsExact(c, a, n)
           /\ (a \ Branch[n]) \cup {n} = Collapse(Base(c), D \cup {n})
           /\ Under(c, D) \cup ChainAnchors(a, n) = Under(c, D \cup {n})
<1> DEFINE a == Collapse(Base(c), D)
<1>0. /\ Base(c) \in SUBSET Node /\ Apart(Base(c)) /\ Inner(Base(c)) = Inner(c.active)
      /\ Base(c) \cup Inner(c.active) \subseteq c.ready
      /\ \A m \in Inner(c.active) : \A k \in Children[m] : k \in Base(c) \cup Inner(c.active)
      /\ n \in Node /\ Inner(c.active) \subseteq Node
  BY BaseIs DEF Inner
<1>1. ASSUME NEW m \in ChainAnchors(a, n)
      PROVE  m \in Inner(c.active) /\ n \in Path[m] /\ Path[m] \cap D = {}
  <2>1. PICK x \in a : x \in Branch[m] BY DEF ChainAnchors, ActiveBelow
  <2>2. m \in Node /\ n \in Path[m] /\ m \notin a BY <1>0, InBranch DEF ChainAnchors
  <2>3. x \in Node /\ m \in Path[x] /\ x # m BY <2>1, <2>2 DEF Branch
  <2>4. ASSUME NEW d \in Path[m], d \in D PROVE FALSE
    <3>1. d \in Path[x] BY <2>3, <2>4, PathWithin
    <3>2. d = x BY <2>1, <2>4, <3>1 DEF Collapse
    <3>3. QED BY <2>3, <2>4, <3>2, PathOrder
  <2>5. m \notin Base(c) BY <2>2, <2>4 DEF Collapse
  <2>6. Branch[m] \cap Base(c) # {} BY <2>1, <2>2, <2>4, BelowCollapsed
  <2>7. m \in Inner(Base(c)) BY <2>2, <2>5, <2>6 DEF Inner
  <2>8. QED BY <1>0, <2>2, <2>4, <2>7
<1>2. ChainIsExact(c, a, n)
  <2>1. ASSUME NEW m \in ChainAnchors(a, n) PROVE IsReady(c, m) /\ Children[m] # {}
    <3>1. m \in Inner(c.active) BY <1>1
    <3>2. PICK x \in Base(c) : x \in Branch[m] /\ x # m BY <1>0, <3>1 DEF Inner
    <3>3. \E k \in Children[m] : k \in Path[x] BY <1>0, <3>1, <3>2, InBranch, PathThroughChild
    <3>4. QED BY <1>0, <3>1, <3>3 DEF IsReady
  <2>2. ASSUME NEW m \in ChainAnchors(a, n), NEW k \in Children[m] PROVE ActiveBelow(a, k) # {}
    <3>1. m \in Inner(c.active) /\ Path[m] \cap D = {} /\ m \in Node BY <1>0, <1>1
    <3>2. k \in Node /\ Path[k] = {k} \cup Path[m] /\ k \in Branch[k]
      BY <3>1, ChildPath, PathAbove DEF Branch
    <3>3. Branch[k] \cap Base(c) # {} BY <1>0, <3>1, <3>2 DEF Inner
    <3>4. CASE k \in D
      <4>1. k \in a BY <3>1, <3>2, <3>4 DEF Collapse
      <4>2. QED BY <3>2, <4>1 DEF ActiveBelow
    <3>5. CASE k \notin D
      <4>1. Path[k] \cap D = {} BY <3>1, <3>2, <3>5
      <4>2. QED BY <3>2, <3>3, <4>1, BelowCollapsed DEF ActiveBelow
    <3>6. QED BY <3>4, <3>5
  <2>3. QED BY <2>1, <2>2 DEF ChainIsExact
<1>3. (a \ Branch[n]) \cup {n} = Collapse(Base(c), D \cup {n})
  <2>0. n \in Path[n] BY <1>0, PathAbove
  <2>1. ASSUME NEW x \in a, x \notin Branch[n] PROVE x \in Collapse(Base(c), D \cup {n})
    <3>1. x \in Node BY <1>0 DEF Collapse
    <3>2. n \notin Path[x] BY <1>0, <2>1, <3>1, InBranch
    <3>3. QED BY <3>2 DEF Collapse
  <2>2. n \in Collapse(Base(c), D \cup {n}) BY DEF Collapse
  <2>3. ASSUME NEW x \in Collapse(Base(c), D \cup {n}), x # n PROVE x \in a /\ x \notin Branch[n]
    <3>1. n \notin Path[x] BY <2>3 DEF Collapse
    <3>2. x \in a /\ x \notin Branch[n] BY <1>0, <2>3, <3>1, InBranch DEF Collapse
    <3>3. QED BY <3>2
  <2>4. QED BY <2>1, <2>2, <2>3
<1>4. Under(c, D) \cup ChainAnchors(a, n) = Under(c, D \cup {n})
  <2>1. ASSUME NEW m \in Inner(c.active), n \in Path[m], Path[m] \cap D = {}
        PROVE  m \in ChainAnchors(a, n)
    <3>1. m \in Node /\ m \notin Base(c) /\ Branch[m] \cap Base(c) # {} BY <1>0 DEF Inner
    <3>2. m \in Path[m] BY <3>1, PathAbove
    <3>3. m \notin a BY <2>1, <3>1, <3>2 DEF Collapse
    <3>4. Branch[m] \cap a # {} BY <2>1, <3>1, BelowCollapsed
    <3>5. m \in Branch[n] BY <1>0, <2>1, <3>1 DEF Branch
    <3>6. QED BY <3>3, <3>4, <3>5 DEF ChainAnchors, ActiveBelow
  <2>2. QED BY <1>1, <2>1 DEF Under
<1>5. QED BY <1>2, <1>3, <1>4

\* The frontier after the joins.
Joined(c) == Collapse(Base(c), Dead(c))

\* The pass of the joins leaves the topmost node that has to join on every path,
\* with a group for every node between it and the frontier.
LEMMA JoinsPassIs ==
    ASSUME NEW c, FrontierOK(c), NEW anchors, SeenAll(c, anchors), NEW G
    PROVE  JoinsPass(c, [active |-> Base(c), groups |-> G], anchors)
             = [active |-> Joined(c), groups |-> G \cup Op("Join", Under(c, Dead(c)))]
<1> DEFINE D(i) == UpTo(Dead(c), i)
           A(i) == [active |-> Collapse(Base(c), D(i)), groups |-> G \cup Op("Join", Under(c, D(i)))]
           Step(d, n) == JoinStep(c, d, n)
           d0 == [active |-> Base(c), groups |-> G]
<1>1. /\ Dead(c) \in SUBSET Node /\ Dead(c) \subseteq anchors /\ Dead(c) \subseteq Inner(c.active)
      /\ Inner(c.active) \subseteq Node /\ Inner(Base(c)) = Inner(c.active)
      /\ Base(c) \in SUBSET Node /\ Base(c) \cup Inner(c.active) \subseteq c.ready
      /\ \A m \in Inner(c.active) : \A k \in Children[m] : k \in Base(c) \cup Inner(c.active)
  BY BaseIs DEF Dead, Inner, SeenAll
<1>2. A(0) = d0
  <2>1. D(0) = {} BY <1>1, UpToStep
  <2>2. Collapse(Base(c), {}) = Base(c) /\ Under(c, {}) = {} BY DEF Collapse, Under
  <2>3. QED BY <2>1, <2>2 DEF Op
<1>3. ASSUME NEW i \in 1..NodeCount
      PROVE  A(i) = IF i \in anchors THEN Step(A(i - 1), i) ELSE A(i - 1)
  <2> DEFINE a == Collapse(Base(c), D(i - 1))
  <2>1. i \in Node BY DEF Node
  <2>2. Path[i] \cap D(i - 1) = {}
    <3>1. \A m \in Path[i] : m \in Node /\ i <= m BY <2>1, PathAbove
    <3>2. QED BY <2>1, <3>1 DEF UpTo, Node
  <2>3. D(i - 1) \in SUBSET Inner(c.active) BY <1>1 DEF UpTo
  <2>4. i \notin D(i - 1) /\ (i \in a <=> i \in Base(c))
    <3>1. i \in Path[i] BY <2>1, PathAbove
    <3>2. QED BY <2>2, <3>1 DEF Collapse
  <2>5. ActiveBelow(a, i) # {} <=> Branch[i] \cap Base(c) # {}
    BY <2>1, <2>2, <2>3, BelowCollapsed DEF ActiveBelow
  <2>6. i \in Inner(c.active) <=> i \notin a /\ ActiveBelow(a, i) # {} BY <1>1, <2>1, <2>4, <2>5 DEF Inner
  <2>7. CASE i \in Dead(c)
    <3>1. i \in anchors /\ i \in Inner(c.active) /\ ~IsSplitDemanded(c, i) /\ IsReady(c, i)
      BY <1>1, <2>7 DEF Dead, IsReady
    <3>2. D(i) = D(i - 1) \cup {i} BY <1>1, <2>7, UpToStep
    <3>3. /\ ChainIsExact(c, a, i)
          /\ (a \ Branch[i]) \cup {i} = Collapse(Base(c), D(i))
          /\ Under(c, D(i - 1)) \cup ChainAnchors(a, i) = Under(c, D(i))
      BY <2>2, <2>3, <3>1, <3>2, JoinOne
    <3>4. Step(A(i - 1), i) = JoinChain(A(i - 1), i) BY <2>6, <3>1, <3>3 DEF JoinStep
    <3>5. JoinChain(A(i - 1), i) = A(i)
      <4>1. Op("Join", Under(c, D(i))) = Op("Join", Under(c, D(i - 1))) \cup Op("Join", ChainAnchors(a, i))
        BY <3>3 DEF Op
      <4>2. QED BY <3>3, <4>1 DEF JoinChain, Op
    <3>6. QED BY <3>1, <3>4, <3>5
  <2>8. CASE i \notin Dead(c)
    <3>1. D(i) = D(i - 1) BY <1>1, <2>8, UpToStep
    <3>2. CASE i \in Inner(c.active)
      <4>1. IsSplitDemanded(c, i) BY <2>8, <3>2 DEF Dead
      <4>2. ASSUME NEW k \in Children[i] PROVE IsEligible(c, k)
        <5>1. k \in c.load /\ k \in c.ready BY <1>1, <3>2, <4>1, <4>2 DEF IsSplitDemanded
        <5>2. k \in Node BY <2>1, ChildPath
        <5>3. QED BY <5>1, <5>2, Demanded DEF Fit
      <4>3. Step(A(i - 1), i) = A(i - 1) BY <4>1, <4>2 DEF JoinStep
      <4>4. QED BY <3>1, <4>3
    <3>3. CASE i \notin Inner(c.active)
      <4>1. Step(A(i - 1), i) = A(i - 1) BY <2>6, <3>3 DEF JoinStep
      <4>2. QED BY <3>1, <4>1
    <3>4. QED BY <3>2, <3>3
  <2>9. QED BY <2>7, <2>8
<1> DEFINE Walks(f) == f = [i \in 0..Len(Ascending) |->
                             IF i = 0 THEN d0
                             ELSE IF Ascending[i] \in anchors THEN Step(f[i - 1], Ascending[i])
                             ELSE f[i - 1]]
           g == [i \in 0..NodeCount |-> A(i)]
<1>4. JoinsPass(c, [active |-> Base(c), groups |-> G], anchors) = (CHOOSE f : Walks(f))[NodeCount]
  BY Indices DEF JoinsPass, Pass
<1> HIDE DEF A, Step, d0
<1>5. Walks(g)
  <2>1. \A i \in 0..NodeCount : i = 0 \/ i \in 1..NodeCount BY Indices
  <2>2. \A i \in 0..NodeCount :
           A(i) = IF i = 0 THEN d0
                  ELSE IF Ascending[i] \in anchors THEN Step(g[i - 1], Ascending[i]) ELSE g[i - 1]
    BY <1>2, <1>3, <2>1, Indices
  <2>3. QED BY <2>2, Indices
<1>6. ASSUME NEW f, Walks(f) PROVE f[NodeCount] = A(NodeCount)
  <2>1. f[0] = g[0] BY <1>2, <1>6, Indices
  <2>2. ASSUME NEW i \in 1..NodeCount, f[i - 1] = g[i - 1] PROVE f[i] = g[i]
    BY <1>3, <1>6, <2>2, Indices
  <2>3. g[NodeCount] = A(NodeCount) BY Indices
  <2> HIDE DEF g
  <2>4. NodeCount \in Nat /\ NodeCount \in 0..NodeCount BY Indices
  <2>5. \A i \in 0..NodeCount : f[i] = g[i]
    <3> HIDE DEF Walks
    <3>1. QED BY <2>1, <2>2, <2>4, SameWalk
  <2>6. QED BY <2>3, <2>4, <2>5
<1>7. (CHOOSE f : Walks(f))[NodeCount] = A(NodeCount)
  <2> HIDE DEF Walks
  <2>1. QED BY <1>5, <1>6
<1>8. D(NodeCount) = Dead(c) BY <1>1, UpToStep
<1>9. QED BY <1>4, <1>7, <1>8 DEF A, Joined

\* It is a frontier.
LEMMA JoinedIs ==
    ASSUME NEW c, FrontierOK(c)
    PROVE  Joined(c) \in SUBSET Node /\ Apart(Joined(c))
<1>1. /\ Dead(c) \subseteq Inner(Base(c)) /\ Inner(Base(c)) \subseteq Node
      /\ Base(c) \in SUBSET Node /\ Apart(Base(c))
  BY BaseIs DEF Dead, Inner
<1>2. Joined(c) \in SUBSET Node BY <1>1 DEF Joined, Collapse
<1>3. ASSUME NEW x \in Joined(c), NEW y \in Joined(c), y \in Path[x], y # x PROVE FALSE
  <2>1. y \notin Dead(c) BY <1>3 DEF Joined, Collapse
  <2>2. y \in Base(c) /\ x \in Base(c) \cup Inner(Base(c)) BY <1>1, <1>3, <2>1 DEF Joined, Collapse
  <2>3. y \in Inner(Base(c)) BY <1>1, <1>3, <2>2, InnerAbove
  <2>4. QED BY <2>2, <2>3 DEF Inner
<1>4. \A x \in Joined(c) : x \in Path[x] BY <1>2, PathAbove
<1>5. QED BY <1>2, <1>3, <1>4 DEF Apart

----------------------------------------------------------------------------
(* The pass of the splits *)

\* What is reached from the joined frontier when P split.
Reach(c, P) ==
    {y \in Node : \E x \in Joined(c) :
        x \in Path[y] /\ \A m \in Path[y] : x \in Path[m] /\ m # y => m \in P}

\* When nothing splits only the joined frontier is reached.
LEMMA ReachNothing ==
    ASSUME NEW c, FrontierOK(c)
    PROVE  Reach(c, {}) = Joined(c)
<1>1. ASSUME NEW y \in Reach(c, {}) PROVE y \in Joined(c)
  <2>1. PICK x \in Joined(c) : x \in Path[y] /\ \A m \in Path[y] : ~(x \in Path[m] /\ m # y)
    BY DEF Reach
  <2>2. x \in Path[x] BY JoinedIs, PathAbove
  <2>3. QED BY <2>1, <2>2
<1>2. ASSUME NEW y \in Joined(c) PROVE y \in Reach(c, {})
  <2>1. y \in Node /\ y \in Path[y] BY JoinedIs, PathAbove
  <2>2. \A m \in Path[y] : y \in Path[m] => m = y BY <2>1, PathOrder
  <2>3. QED BY <2>1, <2>2 DEF Reach
<1>3. QED BY <1>1, <1>2

\* Of two nodes that are reached the upper one has split.
LEMMA ReachBelow ==
    ASSUME NEW c, FrontierOK(c), NEW P, NEW y \in Reach(c, P), NEW z \in Reach(c, P),
           z \in Path[y], z # y
    PROVE  z \in P
<1>0. y \in Node /\ Joined(c) \in SUBSET Node /\ Apart(Joined(c)) BY JoinedIs DEF Reach
<1>1. PICK x \in Joined(c) : x \in Path[y] /\ \A m \in Path[y] : x \in Path[m] /\ m # y => m \in P
  BY DEF Reach
<1>2. PICK u \in Joined(c) : u \in Path[z] BY DEF Reach
<1>3. u \in Path[y] BY <1>0, <1>2, PathWithin
<1>4. u \in Path[x] \/ x \in Path[u] BY <1>0, <1>1, <1>3, PathIsChain
<1>5. u = x BY <1>0, <1>4 DEF Apart
<1>6. QED BY <1>1, <1>2, <1>5

\* When one more node splits its children are reached, if it was itself.
LEMMA ReachMore ==
    ASSUME NEW c, FrontierOK(c), NEW P, NEW n \in Node, \A m \in P : m \in Node /\ n < m
    PROVE  Reach(c, P \cup {n}) = IF n \in Reach(c, P) THEN Reach(c, P) \cup Children[n]
                                  ELSE Reach(c, P)
<1>1. Reach(c, P) \subseteq Reach(c, P \cup {n}) BY DEF Reach
<1>2. ASSUME n \in Reach(c, P), NEW k \in Children[n] PROVE k \in Reach(c, P \cup {n})
  <2>1. PICK x \in Joined(c) : x \in Path[n] /\ \A m \in Path[n] : x \in Path[m] /\ m # n => m \in P
    BY <1>2 DEF Reach
  <2>2. k \in Node /\ Path[k] = {k} \cup Path[n] BY ChildPath
  <2>3. QED BY <2>1, <2>2 DEF Reach
<1>3. ASSUME NEW y \in Reach(c, P \cup {n}), y \notin Reach(c, P)
      PROVE  n \in Reach(c, P) /\ y \in Children[n]
  <2>0. y \in Node BY DEF Reach
  <2>1. PICK x \in Joined(c) : /\ x \in Path[y]
                               /\ \A m \in Path[y] : x \in Path[m] /\ m # y => m \in P \cup {n}
    BY DEF Reach
  <2>2. n \in Path[y] /\ x \in Path[n] /\ n # y BY <1>3, <2>0, <2>1 DEF Reach
  <2>3. ASSUME NEW m \in Path[n], x \in Path[m], m # n PROVE m \in P
    <3>1. m \in Path[y] BY <2>0, <2>2, PathWithin
    <3>2. m # y BY <2>0, <2>2, <2>3, PathOrder
    <3>3. QED BY <2>1, <2>3, <3>1, <3>2
  <2>4. n \in Reach(c, P) BY <2>2, <2>3 DEF Reach
  <2>5. PICK k \in Children[n] : k \in Path[y] BY <2>0, <2>2, PathThroughChild
  <2>6. k < n /\ k # n /\ k \in Node /\ Path[k] = {k} \cup Path[n] BY ChildPath
  <2>7. k \notin P BY <2>6 DEF Node
  <2>8. k = y BY <2>1, <2>2, <2>5, <2>6, <2>7
  <2>9. QED BY <2>4, <2>5, <2>8
<1>4. CASE n \in Reach(c, P) BY <1>1, <1>2, <1>3, <1>4
<1>5. CASE n \notin Reach(c, P) BY <1>1, <1>3, <1>5
<1>6. QED BY <1>4, <1>5

\* The nodes that are split, and the frontier after the splits.
SplitNodes(c)   == Reach(c, Splitting(c)) \cap Splitting(c)
Divided(c) == Reach(c, Splitting(c)) \ Splitting(c)

\* The pass of the splits, coarser nodes first, splits what it reaches as far as
\* demand and readiness allow.
LEMMA SplitsPassIs ==
    ASSUME NEW c, FrontierOK(c), NEW anchors, SeenAll(c, anchors), NEW G
    PROVE  SplitsPass(c, [active |-> Joined(c), groups |-> G], anchors)
             = [active |-> Divided(c), groups |-> G \cup Op("Split", SplitNodes(c))]
<1> DEFINE P(i) == DownTo(Splitting(c), i)
           A(i) == [active |-> Reach(c, P(i)) \ P(i), groups |-> G \cup Op("Split", Reach(c, P(i)) \cap P(i))]
           Step(d, n) == SplitStep(c, d, n, anchors)
           d0 == [active |-> Joined(c), groups |-> G]
<1>1. Splitting(c) \in SUBSET Node BY DEF Splitting
<1>2. A(0) = d0
  <2>1. P(0) = {} BY <1>1, DownToStep
  <2>2. Reach(c, P(0)) = Joined(c) BY <2>1, ReachNothing
  <2>3. QED BY <2>1, <2>2 DEF Op
<1>3. ASSUME NEW i \in 1..NodeCount, NEW n \in Node, n = NodeCount + 1 - i
      PROVE  A(i) = Step(A(i - 1), n)
  <2> DEFINE Q == P(i - 1)
             a == Reach(c, Q) \ Q
  <2>1. /\ n \in Splitting(c) => P(i) = Q \cup {n}
        /\ n \notin Splitting(c) => P(i) = Q
        /\ \A m \in Node : m \in Q <=> m \in Splitting(c) /\ n < m
    BY <1>1, <1>3, DownToStep
  <2>2. n \notin Q /\ \A m \in Q : m \in Node /\ n < m
    <3>1. Q \subseteq Node BY <1>1 DEF DownTo
    <3>2. ~(n < n) BY DEF Node
    <3>3. QED BY <2>1, <3>1, <3>2
  <2> HIDE DEF P
  <2>3. ASSUME MaySplit(c, a, n) PROVE n \in Reach(c, Q) /\ n \in Splitting(c)
    BY <2>3 DEF MaySplit, Splitting, IsEligible, IsReady
  <2>4. CASE n \in Reach(c, Q) /\ n \in Splitting(c)
    <3>1. P(i) = Q \cup {n} /\ Reach(c, P(i)) = Reach(c, Q) \cup Children[n]
      BY <2>1, <2>2, <2>4, ReachMore
    <3>2. \A k \in Children[n] : /\ k \in Node /\ k \notin Q /\ k # n /\ Path[k] = {k} \cup Path[n]
                                 /\ k \notin Path[n]
      BY <2>2, ChildPath DEF Node
    <3>3. ActiveBelow(a, n) = {n}
      <4>1. ASSUME NEW y \in a, y \in Branch[n], y # n PROVE FALSE
        <5>1. n \in Path[y] BY <4>1, InBranch
        <5>2. n \in Q BY <2>4, <4>1, <5>1, ReachBelow
        <5>3. QED BY <2>2, <5>2
      <4>2. n \in a /\ n \in Branch[n] BY <2>2, <2>4, PathAbove, InBranch
      <4>3. QED BY <4>1, <4>2 DEF ActiveBelow
    <3>4. ASSUME NEW k \in Children[n] PROVE ActiveBelow(a, k) = {} /\ IsEligible(c, k)
      <4>1. ASSUME NEW y \in a, y \in Branch[k] PROVE FALSE
        <5>1. y \in Node /\ k \in Path[y] /\ n \in Path[k] BY <3>2, <4>1, InBranch, PathAbove
        <5>2. y \in Branch[n] BY <5>1, PathWithin, InBranch
        <5>3. y = n BY <3>3, <4>1, <5>2 DEF ActiveBelow
        <5>4. QED BY <3>2, <5>1, <5>3
      <4>2. k \in c.load /\ k \in c.ready BY <2>4 DEF Splitting, IsSplitDemanded
      <4>3. QED BY <3>2, <4>1, <4>2, Demanded DEF ActiveBelow, Fit
    <3>5. MaySplit(c, a, n) BY <2>2, <2>4, <3>3, <3>4 DEF MaySplit, Splitting
    <3>6. n \in anchors \/ [op |-> "Split", anchor |-> Parent[n]] \in A(i - 1).groups
      <4>1. PICK x \in Joined(c) : x \in Path[n] /\ \A m \in Path[n] : x \in Path[m] /\ m # n => m \in Q
        BY <2>4 DEF Reach
      <4>2. CASE x = n
        <5>1. n \notin Dead(c) BY <2>4 DEF Dead, Splitting
        <5>2. n \in Base(c) BY <4>2, <5>1 DEF Joined, Collapse
        <5>3. QED BY <2>4, <5>2 DEF Base, SeenAll
      <4>3. CASE x # n
        <5>1. Path[n] = {n} \cup (IF Parent[n] = 0 THEN {} ELSE Path[Parent[n]]) BY PathIs
        <5>2. Parent[n] # 0 /\ Parent[n] \in Node /\ x \in Path[Parent[n]] /\ Path[Parent[n]] \subseteq Path[n]
          BY <4>1, <4>3, <5>1, TreeAssumption
        <5>3. n \in Children[Parent[n]] BY <5>2 DEF Children
        <5>4. Parent[n] # n /\ Parent[n] \in Path[n] /\ n \notin Path[Parent[n]]
          BY <5>2, <5>3, ChildPath, PathAbove
        <5>5. Parent[n] \in Q BY <4>1, <5>2, <5>4
        <5>6. Parent[n] \in Reach(c, Q) BY <4>1, <5>2, <5>4 DEF Reach
        <5>7. QED BY <5>5, <5>6 DEF Op
      <4>4. QED BY <4>2, <4>3
    <3>7. Step(A(i - 1), n) = Add(A(i - 1), "Split", n) BY <3>5, <3>6 DEF SplitStep
    <3>8. (a \ {n}) \cup Children[n] = Reach(c, P(i)) \ P(i) BY <3>1, <3>2
    <3>9. Reach(c, P(i)) \cap P(i) = (Reach(c, Q) \cap Q) \cup {n} BY <2>4, <3>1, <3>2
    <3>10. Add(A(i - 1), "Split", n).active = A(i).active
      BY <3>8 DEF Add, Project, Activates, Deactivates
    <3>11. Add(A(i - 1), "Split", n).groups = A(i).groups BY <3>9 DEF Add, Op
    <3>12. QED BY <3>7, <3>10, <3>11 DEF Add
  <2>5. CASE ~(n \in Reach(c, Q) /\ n \in Splitting(c))
    <3>1. Step(A(i - 1), n) = A(i - 1) BY <2>3, <2>5 DEF SplitStep
    <3>2. Reach(c, P(i)) \ P(i) = a /\ Reach(c, P(i)) \cap P(i) = Reach(c, Q) \cap Q
      <4>1. CASE n \notin Splitting(c) BY <2>1, <4>1
      <4>2. CASE n \in Splitting(c)
        <5>1. P(i) = Q \cup {n} /\ n \notin Reach(c, Q) BY <2>1, <2>5, <4>2
        <5>2. Reach(c, Q \cup {n}) = Reach(c, Q)
          <6> HIDE DEF Q
          <6>1. QED BY <2>2, <5>1, ReachMore
        <5>3. QED BY <5>1, <5>2
      <4>3. QED BY <4>1, <4>2
    <3>3. QED BY <3>1, <3>2
  <2>6. QED BY <2>4, <2>5
<1> DEFINE Walks(f) == f = [i \in 0..Len(Descending) |->
                             IF i = 0 THEN d0
                             ELSE IF Descending[i] \in Node THEN Step(f[i - 1], Descending[i])
                             ELSE f[i - 1]]
           g == [i \in 0..NodeCount |-> A(i)]
<1>4. SplitsPass(c, [active |-> Joined(c), groups |-> G], anchors) = (CHOOSE f : Walks(f))[NodeCount]
  BY Indices DEF SplitsPass, Pass
<1> HIDE DEF A, Step, d0
<1>5. Walks(g)
  <2>1. \A i \in 0..NodeCount : i = 0 \/ i \in 1..NodeCount BY Indices
  <2>2. \A i \in 0..NodeCount :
           A(i) = IF i = 0 THEN d0
                  ELSE IF Descending[i] \in Node THEN Step(g[i - 1], Descending[i]) ELSE g[i - 1]
    BY <1>2, <1>3, <2>1, Indices
  <2>3. QED BY <2>2, Indices
<1>6. ASSUME NEW f, Walks(f) PROVE f[NodeCount] = A(NodeCount)
  <2>1. f[0] = g[0] BY <1>2, <1>6, Indices
  <2>2. ASSUME NEW i \in 1..NodeCount, f[i - 1] = g[i - 1] PROVE f[i] = g[i]
    BY <1>3, <1>6, <2>2, Indices
  <2>3. g[NodeCount] = A(NodeCount) BY Indices
  <2> HIDE DEF g
  <2>4. NodeCount \in Nat /\ NodeCount \in 0..NodeCount BY Indices
  <2>5. \A i \in 0..NodeCount : f[i] = g[i]
    <3> HIDE DEF Walks
    <3>1. QED BY <2>1, <2>2, <2>4, SameWalk
  <2>6. QED BY <2>3, <2>4, <2>5
<1>7. (CHOOSE f : Walks(f))[NodeCount] = A(NodeCount)
  <2> HIDE DEF Walks
  <2>1. QED BY <1>5, <1>6
<1>8. P(NodeCount) = Splitting(c) BY <1>1, DownToStep
<1>9. QED BY <1>4, <1>7, <1>8 DEF A, Divided, SplitNodes

----------------------------------------------------------------------------
(* The last pass over the roots *)
\* The roots that the joins have reached without a viewer.
Retired(c) == {r \in Roots \cap Divided(c) : r \notin c.load}

\* They have joined, and so are on a path that is looked at.
LEMMA RetiredIsSeen ==
    ASSUME NEW c, FrontierOK(c), NEW anchors, SeenAll(c, anchors)
    PROVE  Retired(c) \in SUBSET Node /\ Retired(c) \subseteq anchors \cap Roots /\ Retired(c) \subseteq Joined(c)
<1>1. ASSUME NEW r \in Retired(c) PROVE r \in Joined(c) /\ r \in anchors /\ r \in Node /\ r \in Roots
  <2>1. r \in Roots /\ r \in Reach(c, Splitting(c)) /\ r \notin c.load BY DEF Retired, Divided
  <2>2. r \in Node /\ Path[r] = {r} BY <2>1, RootPath
  <2>3. r \in Joined(c) BY <2>1, <2>2 DEF Reach
  <2>4. r \notin Base(c) BY <2>1, BaseIs DEF Fit
  <2>5. r \in Dead(c) BY <2>3, <2>4 DEF Joined, Collapse
  <2>6. QED BY <2>1, <2>2, <2>3, <2>5 DEF SeenAll
<1>2. QED BY <1>1

\* The last pass hides them.
LEMMA RetirePassIs ==
    ASSUME NEW c, FrontierOK(c), NEW anchors, SeenAll(c, anchors), NEW G
    PROVE  RetirePass(c, [active |-> Divided(c), groups |-> G], anchors \cap Roots)
             = [active |-> Divided(c) \ Retired(c), groups |-> G \cup Op("RootDeactivate", Retired(c))]
<1> DEFINE A(i) == [active |-> Divided(c) \ UpTo(Retired(c), i),
                    groups |-> G \cup Op("RootDeactivate", UpTo(Retired(c), i))]
           Step(d, r) == RetireStep(c, d, r)
           d0 == [active |-> Divided(c), groups |-> G]
           S == anchors \cap Roots
<1>1. Retired(c) \in SUBSET Node /\ Retired(c) \subseteq S BY RetiredIsSeen
<1>2. A(0) = d0
  <2>1. UpTo(Retired(c), 0) = {} BY <1>1, UpToStep
  <2>2. QED BY <2>1 DEF Op
<1>3. ASSUME NEW i \in 1..NodeCount
      PROVE  A(i) = IF i \in S THEN Step(A(i - 1), i) ELSE A(i - 1)
  <2>1. i \in Node BY DEF Node
  <2>2. i \notin UpTo(Retired(c), i - 1) BY <1>1, UpToStep
  <2>3. i \in A(i - 1).active <=> i \in Divided(c) BY <2>2
  <2>4. BranchIsDemanded(c, i) <=> i \in c.load BY <2>1, Demanded
  <2>5. CASE i \in Retired(c)
    <3>1. i \in S /\ Step(A(i - 1), i) = Add(A(i - 1), "RootDeactivate", i)
      BY <1>1, <2>3, <2>4, <2>5 DEF RetireStep, Retired
    <3>2. UpTo(Retired(c), i) = UpTo(Retired(c), i - 1) \cup {i} BY <1>1, <2>5, UpToStep
    <3>3. Add(A(i - 1), "RootDeactivate", i).active = A(i).active
      BY <3>2 DEF Add, Project, Activates, Deactivates
    <3>4. Add(A(i - 1), "RootDeactivate", i).groups = A(i).groups BY <3>2 DEF Add, Op
    <3>5. QED BY <3>1, <3>3, <3>4 DEF Add
  <2>6. CASE i \notin Retired(c)
    <3>1. UpTo(Retired(c), i) = UpTo(Retired(c), i - 1) BY <1>1, <2>6, UpToStep
    <3>2. i \in S => Step(A(i - 1), i) = A(i - 1) BY <2>3, <2>4, <2>6 DEF RetireStep, Retired
    <3>3. QED BY <3>1, <3>2
  <2>7. QED BY <2>5, <2>6
<1> DEFINE Walks(f) == f = [i \in 0..Len(Ascending) |->
                             IF i = 0 THEN d0
                             ELSE IF Ascending[i] \in S THEN Step(f[i - 1], Ascending[i])
                             ELSE f[i - 1]]
           g == [i \in 0..NodeCount |-> A(i)]
<1>4. RetirePass(c, [active |-> Divided(c), groups |-> G], anchors \cap Roots)
        = (CHOOSE f : Walks(f))[NodeCount]
  BY Indices DEF RetirePass, Pass
<1> HIDE DEF A, Step, d0, S
<1>5. Walks(g)
  <2>1. \A i \in 0..NodeCount : i = 0 \/ i \in 1..NodeCount BY Indices
  <2>2. \A i \in 0..NodeCount :
           A(i) = IF i = 0 THEN d0
                  ELSE IF Ascending[i] \in S THEN Step(g[i - 1], Ascending[i]) ELSE g[i - 1]
    BY <1>2, <1>3, <2>1, Indices
  <2>3. QED BY <2>2, Indices
<1>6. ASSUME NEW f, Walks(f) PROVE f[NodeCount] = A(NodeCount)
  <2>1. f[0] = g[0] BY <1>2, <1>6, Indices
  <2>2. ASSUME NEW i \in 1..NodeCount, f[i - 1] = g[i - 1] PROVE f[i] = g[i]
    BY <1>3, <1>6, <2>2, Indices
  <2>3. g[NodeCount] = A(NodeCount) BY Indices
  <2> HIDE DEF g
  <2>4. NodeCount \in Nat /\ NodeCount \in 0..NodeCount BY Indices
  <2>5. \A i \in 0..NodeCount : f[i] = g[i]
    <3> HIDE DEF Walks
    <3>1. QED BY <2>1, <2>2, <2>4, SameWalk
  <2>6. QED BY <2>3, <2>4, <2>5
<1>7. (CHOOSE f : Walks(f))[NodeCount] = A(NodeCount)
  <2> HIDE DEF Walks
  <2>1. QED BY <1>5, <1>6
<1>8. UpTo(Retired(c), NodeCount) = Retired(c) BY <1>1, UpToStep
<1>9. QED BY <1>4, <1>7, <1>8 DEF A

----------------------------------------------------------------------------
(* The draft *)

\* The groups of a draft.
Groups(c) ==
    Op("RootActivate", On(c)) \cup Op("RootDeactivate", Off(c)) \cup Op("Join", Under(c, Dead(c)))
      \cup Op("Split", SplitNodes(c)) \cup Op("RootDeactivate", Retired(c))

\* The four passes of preview_reconcile one after the other.
LEMMA DraftIs ==
    ASSUME NEW c, FrontierOK(c), NEW touched, SeenAll(c, UNION {Path[n] : n \in touched})
    PROVE  Draft(c, touched) = [active |-> Divided(c) \ Retired(c), groups |-> Groups(c)]
<1> DEFINE anchors == UNION {Path[n] : n \in touched}
           G1 == Op("RootActivate", On(c)) \cup Op("RootDeactivate", Off(c))
           G2 == G1 \cup Op("Join", Under(c, Dead(c)))
           G3 == G2 \cup Op("Split", SplitNodes(c))
           S == anchors \cap Roots
<1>1. RootsPass(c, [active |-> c.active, groups |-> {}], S) = [active |-> Base(c), groups |-> G1]
  BY RootsPassIs
<1>2. JoinsPass(c, [active |-> Base(c), groups |-> G1], anchors) = [active |-> Joined(c), groups |-> G2]
  BY JoinsPassIs
<1>3. SplitsPass(c, [active |-> Joined(c), groups |-> G2], anchors) = [active |-> Divided(c), groups |-> G3]
  BY SplitsPassIs
<1>4. RetirePass(c, [active |-> Divided(c), groups |-> G3], S)
        = [active |-> Divided(c) \ Retired(c), groups |-> G3 \cup Op("RootDeactivate", Retired(c))]
  BY RetirePassIs
<1>5. Draft(c, touched)
        = RetirePass(c, SplitsPass(c, JoinsPass(c, RootsPass(c, [active |-> c.active, groups |-> {}], S),
                                                anchors), anchors), S)
  BY DEF Draft, RootsPass, JoinsPass, SplitsPass, RetirePass
<1>6. QED BY <1>1, <1>2, <1>3, <1>4, <1>5 DEF Groups

----------------------------------------------------------------------------
(* What the draft shows *)

\* The coarsest node that does not split, on every path.
Shown(c) ==
    {n \in c.load : /\ RootOf[n] \in c.ready
                    /\ \A m \in Path[n] \ {n} : m \in Splitting(c)
                    /\ n \notin Splitting(c)}

\* Above the frontier a node has to join when it does not split any more.
LEMMA InnerSplits ==
    ASSUME NEW c, FrontierOK(c), NEW m \in Inner(c.active)
    PROVE  m \in Dead(c) <=> m \notin Splitting(c)
<1>1. m \in Node /\ Children[m] \subseteq c.ready BY BaseIs DEF Inner
<1>2. QED BY <1>1 DEF Dead, Splitting

\* Below a root that has something shown, or could have, every node is above
\* the frontier or has a part of it above itself.
LEMMA BaseCuts ==
    ASSUME NEW c, FrontierOK(c), NEW n \in Node, RootOf[n] \in Fit(c)
    PROVE  n \in Inner(c.active) \/ \E x \in Base(c) : x \in Path[n]
<1> DEFINE Cut(y) == y \in Inner(c.active) \/ \E x \in Base(c) : x \in Path[y]
           S == {y \in Node : RootOf[y] \in Fit(c) => Cut(y)}
<1>1. ASSUME NEW y \in Node, Parent[y] = 0 \/ Parent[y] \in S PROVE y \in S
  <2>1. SUFFICES ASSUME RootOf[y] \in Fit(c) PROVE Cut(y) OBVIOUS
  <2>2. Path[y] = {y} \cup (IF Parent[y] = 0 THEN {} ELSE Path[Parent[y]]) BY PathIs
  <2>3. CASE Parent[y] = 0
    <3>1. y \in Roots BY <2>3 DEF Roots
    <3>2. RootOf[y] = y BY <3>1, RootPath
    <3>3. y \in c.active \/ y \in On(c) \/ y \in Inner(c.active) BY <2>1, <3>1, <3>2 DEF On, Inner
    <3>4. y \in Base(c) \/ y \in Inner(c.active) BY <2>1, <3>2, <3>3 DEF Base, Off
    <3>5. QED BY <2>2, <3>4
  <2>4. CASE Parent[y] # 0
    <3>1. Parent[y] \in S /\ Parent[y] \in Node /\ Parent[y] \in Path[y] /\ y \in Children[Parent[y]]
      BY <1>1, <2>2, <2>4, TreeAssumption, PathAbove DEF Children
    <3>2. RootOf[Parent[y]] = RootOf[y] BY <3>1, RootOfPath
    <3>3. Cut(Parent[y]) BY <2>1, <3>1, <3>2
    <3>4. CASE Parent[y] \in Inner(c.active)
      <4>1. y \in Base(c) \cup Inner(c.active) BY <3>1, <3>4, BaseIs
      <4>2. QED BY <2>2, <4>1
    <3>5. CASE \E x \in Base(c) : x \in Path[Parent[y]] BY <2>2, <2>4, <3>5
    <3>6. QED BY <3>3, <3>4, <3>5
  <2>5. QED BY <2>3, <2>4
<1>2. n \in S
  <2> HIDE DEF S
  <2>1. QED BY <1>1, FromTheRoots
<1>3. QED BY <1>2

\* Though it looks at few paths and goes from the old frontier, a draft shows
\* the coarsest node that does not split, on every path.
LEMMA DraftIsIdeal ==
    ASSUME NEW c, FrontierOK(c)
    PROVE  Divided(c) \ Retired(c) = Shown(c)
<1>0. /\ Base(c) \in SUBSET Node /\ Apart(Base(c)) /\ Inner(Base(c)) = Inner(c.active)
      /\ Base(c) \cup Inner(c.active) \subseteq c.ready /\ Inner(c.active) \subseteq Node
      /\ Dead(c) \subseteq Inner(c.active)
  BY BaseIs DEF Inner, Dead
<1>1. ASSUME NEW y \in Divided(c), y \notin Retired(c) PROVE y \in Shown(c)
  <2>1. y \in Node /\ y \notin Splitting(c) BY <1>1 DEF Divided, Reach
  <2>2. PICK x \in Joined(c) : /\ x \in Path[y]
                               /\ \A m \in Path[y] : x \in Path[m] /\ m # y => m \in Splitting(c)
    BY <1>1 DEF Divided, Reach
  <2>3. /\ x \in Base(c) \cup Inner(c.active) /\ x \in Node
        /\ \A m \in Path[x] : m \in Dead(c) => m = x
    BY <1>0, <2>2 DEF Joined, Collapse
  <2>4. ASSUME NEW m \in Path[x], m # x PROVE m \in Inner(c.active) /\ m \in Splitting(c)
    <3>1. m \in Inner(c.active) BY <1>0, <2>3, <2>4, InnerAbove
    <3>2. QED BY <2>3, <2>4, <3>1, InnerSplits
  <2>5. ASSUME NEW m \in Path[y], m # y PROVE m \in Splitting(c)
    <3>1. x \in Path[m] \/ m \in Path[x] BY <2>1, <2>2, <2>5, PathIsChain
    <3>2. m = x => x \in Path[m] BY <2>3, PathAbove
    <3>3. QED BY <2>2, <2>4, <2>5, <3>1, <3>2
  <2>6. RootOf[y] \in c.ready
    <3>1. RootOf[y] = RootOf[x] /\ RootOf[x] \in Path[x] BY <2>1, <2>2, <2>3, RootOfPath, PathHasRoot
    <3>2. RootOf[x] \in Base(c) \cup Inner(c.active) BY <2>3, <2>4, <3>1
    <3>3. QED BY <1>0, <3>1, <3>2
  <2>7. y \in c.load
    <3>1. CASE y \in Roots BY <1>1, <3>1 DEF Retired
    <3>2. CASE y \notin Roots
      <4>1. Parent[y] \in Node /\ y \in Children[Parent[y]] BY <2>1, <3>2, TreeAssumption DEF Roots, Children
      <4>2. Path[y] = {y} \cup Path[Parent[y]] /\ y # Parent[y] /\ Parent[y] \in Path[Parent[y]]
        BY <4>1, ChildPath, PathAbove
      <4>3. Parent[y] \in Splitting(c) BY <2>5, <4>2
      <4>4. QED BY <4>1, <4>3 DEF Splitting, IsSplitDemanded
    <3>3. QED BY <3>1, <3>2
  <2>8. QED BY <2>1, <2>5, <2>6, <2>7 DEF Shown
<1>2. ASSUME NEW n \in Shown(c) PROVE n \in Divided(c) /\ n \notin Retired(c)
  <2>1. /\ n \in Node /\ n \in c.load /\ RootOf[n] \in c.ready /\ n \notin Splitting(c)
        /\ \A m \in Path[n] : m # n => m \in Splitting(c)
    BY DEF Shown, FrontierOK
  <2>2. RootOf[n] \in Fit(c) BY <2>1, PathHasRoot DEF Fit, FrontierOK
  <2>3. ASSUME NEW x \in Path[n], x \in Base(c) \cup Dead(c) PROVE n \in Divided(c)
    <3>1. ASSUME NEW m \in Path[x], m \in Dead(c), m # x PROVE FALSE
      <4>1. x \in Node /\ m \in Path[n] /\ m # n
        BY <2>1, <2>3, <3>1, PathWithin, PathAbove, PathOrder
      <4>2. m \in Splitting(c) BY <2>1, <4>1
      <4>3. QED BY <1>0, <3>1, <4>2, InnerSplits
    <3>2. x \in Joined(c) BY <2>3, <3>1 DEF Joined, Collapse
    <3>3. n \in Reach(c, Splitting(c)) BY <2>1, <2>3, <3>2 DEF Reach
    <3>4. QED BY <2>1, <3>3 DEF Divided
  <2>4. CASE n \in Inner(c.active)
    <3>1. n \in Dead(c) /\ n \in Path[n] BY <2>1, <2>4, InnerSplits, PathAbove
    <3>2. QED BY <2>1, <2>3, <3>1 DEF Retired
  <2>5. CASE \E x \in Base(c) : x \in Path[n] BY <2>1, <2>3, <2>5 DEF Retired
  <2>6. QED BY <2>1, <2>2, <2>4, <2>5, BaseCuts
<1>3. QED BY <1>1, <1>2

----------------------------------------------------------------------------
(* Where a draft splits and where it joins *)

\* What splits, and its children, lies below what was shown, and below no join.
LEMMA SplitRegion ==
    ASSUME NEW c, FrontierOK(c), NEW m \in SplitNodes(c)
    PROVE  /\ m \in Node /\ m \in Splitting(c)
           /\ \E x \in Base(c) : x \in Path[m]
           /\ m \in Base(c) \/ (Parent[m] \in SplitNodes(c) /\ m \in Children[Parent[m]])
           /\ \A k \in {m} \cup Children[m] :
                 k \in Node /\ k \notin Inner(c.active) /\ Path[k] \cap Dead(c) = {}
           /\ Children[m] \cap Base(c) = {}
<1>0. /\ Base(c) \in SUBSET Node /\ Apart(Base(c)) /\ Inner(Base(c)) = Inner(c.active)
      /\ Dead(c) \subseteq Inner(c.active)
  BY BaseIs DEF Dead
<1>1. m \in Node /\ m \in Splitting(c) BY DEF SplitNodes, Reach
<1>2. PICK x \in Joined(c) : /\ x \in Path[m]
                             /\ \A y \in Path[m] : x \in Path[y] /\ y # m => y \in Splitting(c)
  BY DEF SplitNodes, Reach
<1>3. x \in Node BY <1>2, JoinedIs
<1>4. x \in Splitting(c)
  <2>1. x \in Path[x] BY <1>3, PathAbove
  <2>2. QED BY <1>1, <1>2, <2>1
<1>5. \A y \in Dead(c) : y \notin Splitting(c) BY <1>0, InnerSplits
<1>6. x \in Base(c) /\ \A y \in Path[x] : y \notin Dead(c) BY <1>2, <1>4, <1>5 DEF Joined, Collapse
<1>7. ASSUME NEW d \in Path[m], d \in Dead(c) PROVE FALSE
  <2>1. x \in Path[d] \/ d \in Path[x] BY <1>1, <1>2, <1>7, PathIsChain
  <2>2. d \in Splitting(c) BY <1>1, <1>2, <1>6, <1>7, <2>1
  <2>3. QED BY <1>5, <1>7, <2>2
<1>8. ASSUME NEW k \in Node, x \in Path[k] PROVE k \notin Inner(c.active)
  <2>1. SUFFICES ASSUME k \in Inner(c.active) PROVE FALSE OBVIOUS
  <2>2. PICK y \in Base(c) : y \in Branch[k] BY <1>0, <2>1 DEF Inner
  <2>3. k \in Path[y] /\ y \in Node BY <1>8, <2>2, InBranch
  <2>4. x \in Path[y] BY <1>8, <2>3, PathWithin
  <2>5. x = y BY <1>0, <1>6, <2>4 DEF Apart
  <2>6. k = x BY <1>8, <2>3, <2>5, PathOrder
  <2>7. QED BY <1>0, <1>6, <2>1, <2>6 DEF Inner
<1>9. ASSUME NEW k \in Children[m]
      PROVE  k \in Node /\ Path[k] = {k} \cup Path[m] /\ k \notin Inner(c.active) /\ k \notin Base(c)
  <2>1. k \in Node /\ Path[k] = {k} \cup Path[m] /\ k \notin Path[m] BY <1>1, ChildPath
  <2>2. k \notin Inner(c.active) BY <1>2, <1>8, <2>1
  <2>3. k \notin Base(c) BY <1>0, <1>2, <1>6, <2>1 DEF Apart
  <2>4. QED BY <2>1, <2>2, <2>3
<1>10. \A k \in {m} \cup Children[m] :
          k \in Node /\ k \notin Inner(c.active) /\ Path[k] \cap Dead(c) = {}
  BY <1>0, <1>1, <1>2, <1>7, <1>8, <1>9
<1>11. m \in Base(c) \/ (Parent[m] \in SplitNodes(c) /\ m \in Children[Parent[m]])
  <2>1. CASE x = m
    <3>1. m \in Base(c) BY <1>6, <2>1
    <3>2. QED BY <3>1
  <2>2. CASE x # m
    <3>1. Path[m] = {m} \cup (IF Parent[m] = 0 THEN {} ELSE Path[Parent[m]]) BY <1>1, PathIs
    <3>2. Parent[m] # 0 /\ Parent[m] \in Node /\ x \in Path[Parent[m]] /\ Path[Parent[m]] \subseteq Path[m]
      BY <1>1, <1>2, <2>2, <3>1, TreeAssumption
    <3>3. m \in Children[Parent[m]] BY <1>1, <3>2 DEF Children
    <3>4. Parent[m] # m /\ Parent[m] \in Path[m] /\ m \notin Path[Parent[m]]
      BY <3>2, <3>3, ChildPath, PathAbove
    <3>5. Parent[m] \in Splitting(c) BY <1>2, <3>2, <3>4
    <3>6. Parent[m] \in Reach(c, Splitting(c)) BY <1>2, <3>2, <3>4 DEF Reach
    <3>7. QED BY <3>3, <3>5, <3>6 DEF SplitNodes
  <2>3. QED BY <2>1, <2>2
<1>12. QED BY <1>1, <1>2, <1>6, <1>9, <1>10, <1>11

\* What is above the frontier joins with its parent, if the parent does.
LEMMA JoinRegion ==
    ASSUME NEW c, FrontierOK(c), NEW n \in Under(c, Dead(c))
    PROVE  /\ n \in Node /\ n \in Inner(c.active)
           /\ n \in Dead(c) \/ (Parent[n] \in Under(c, Dead(c)) /\ n \in Children[Parent[n]])
           /\ \A k \in Inner(c.active) : n \in Path[k] => k \in Under(c, Dead(c))
<1>1. n \in Node /\ n \in Inner(c.active) /\ Path[n] \cap Dead(c) # {} BY DEF Under, Inner
<1>2. ASSUME NEW k \in Inner(c.active), n \in Path[k] PROVE k \in Under(c, Dead(c))
  <2>1. k \in Node BY DEF Inner
  <2>2. QED BY <1>1, <1>2, <2>1, PathWithin DEF Under
<1>3. CASE n \notin Dead(c)
  <2>1. PICK d \in Path[n] : d \in Dead(c) /\ d # n BY <1>1, <1>3
  <2>2. Path[n] = {n} \cup (IF Parent[n] = 0 THEN {} ELSE Path[Parent[n]]) BY <1>1, PathIs
  <2>3. Parent[n] # 0 /\ Parent[n] \in Node /\ d \in Path[Parent[n]] /\ n \in Children[Parent[n]]
    BY <1>1, <2>1, <2>2, TreeAssumption DEF Children
  <2>4. Parent[n] # n /\ Parent[n] \in Path[n] BY <2>2, <2>3, ChildPath, PathAbove
  <2>5. Parent[n] \in Inner(c.active) BY <1>1, <2>4, InnerAbove DEF FrontierOK
  <2>6. QED BY <1>1, <1>2, <2>1, <2>3, <2>5 DEF Under
<1>4. CASE n \in Dead(c)
  <2>1. QED BY <1>1, <1>2, <1>4
<1>5. QED BY <1>3, <1>4

----------------------------------------------------------------------------
(* The order in which groups are published *)

\* Two sequences one after the other.
LEMMA Appended ==
    ASSUME NEW S, NEW s \in Seq(S), NEW t \in Seq(S), NEW k, NEW j, Len(s) = k, Len(t) = j
    PROVE  /\ s \o t \in Seq(S) /\ Len(s \o t) = k + j
           /\ \A i \in 1..(k + j) : (s \o t)[i] = IF i <= k THEN s[i] ELSE t[i - k]
BY ConcatProperties

\* Activations of roots, splits, joins and then deactivations of roots.
LEMMA OrderIs ==
    /\ NodeCount \in Nat /\ Len(Order) = NodeCount + NodeCount + NodeCount + NodeCount
    /\ \A i \in 1..NodeCount :
          /\ Order[i] = [op |-> "RootActivate", anchor |-> i]
          /\ Order[NodeCount + i] = [op |-> "Split", anchor |-> NodeCount + 1 - i]
          /\ Order[NodeCount + NodeCount + i] = [op |-> "Join", anchor |-> i]
          /\ Order[NodeCount + NodeCount + NodeCount + i] = [op |-> "RootDeactivate", anchor |-> i]
<1> DEFINE N == NodeCount
           G == [op : {"RootActivate", "Split", "Join", "RootDeactivate"}, anchor : Nat]
           s1 == [i \in Node |-> [op |-> "RootActivate", anchor |-> Ascending[i]]]
           s2 == [i \in Node |-> [op |-> "Split", anchor |-> Descending[i]]]
           s3 == [i \in Node |-> [op |-> "Join", anchor |-> Ascending[i]]]
           s4 == [i \in Node |-> [op |-> "RootDeactivate", anchor |-> Ascending[i]]]
<1>1. N \in Nat /\ Node = 1..N BY TreeAssumption DEF Node
<1>2. \A i \in 1..N : Ascending[i] = i /\ Descending[i] = N + 1 - i /\ N + 1 - i \in Nat
  BY <1>1, Indices
<1>3. s1 \in [1..N -> G] /\ s2 \in [1..N -> G] /\ s3 \in [1..N -> G] /\ s4 \in [1..N -> G]
  <2>1. \A i \in 1..N : i \in Nat OBVIOUS
  <2>2. QED BY <1>1, <1>2, <2>1
<1>4. /\ s1 \in Seq(G) /\ s2 \in Seq(G) /\ s3 \in Seq(G) /\ s4 \in Seq(G)
  <2> HIDE DEF s1, s2, s3, s4, G
  <2>1. QED BY <1>1, <1>3, SeqDef
<1>5. Len(s1) = N /\ Len(s2) = N /\ Len(s3) = N /\ Len(s4) = N
  <2> HIDE DEF s1, s2, s3, s4, G
  <2>1. /\ DOMAIN s1 = 1..N /\ DOMAIN s2 = 1..N /\ DOMAIN s3 = 1..N /\ DOMAIN s4 = 1..N BY <1>3
  <2>2. Len(s1) \in Nat /\ Len(s2) \in Nat /\ Len(s3) \in Nat /\ Len(s4) \in Nat
    BY <1>4, LenProperties
  <2>3. /\ DOMAIN s1 = 1..Len(s1) /\ DOMAIN s2 = 1..Len(s2)
        /\ DOMAIN s3 = 1..Len(s3) /\ DOMAIN s4 = 1..Len(s4)
    BY <1>4, LenProperties
  <2>4. QED BY <1>1, <2>1, <2>2, <2>3
<1>6. \A i \in 1..N : /\ s1[i] = [op |-> "RootActivate", anchor |-> i]
                      /\ s2[i] = [op |-> "Split", anchor |-> N + 1 - i]
                      /\ s3[i] = [op |-> "Join", anchor |-> i]
                      /\ s4[i] = [op |-> "RootDeactivate", anchor |-> i]
  BY <1>1, <1>2
<1>7. Order = s1 \o s2 \o s3 \o s4 BY DEF Order
<1> HIDE DEF s1, s2, s3, s4, G, N
<1> DEFINE t2 == s1 \o s2
           t3 == t2 \o s3
<1>8. /\ t2 \in Seq(G) /\ Len(t2) = N + N
      /\ \A i \in 1..(N + N) : t2[i] = IF i <= N THEN s1[i] ELSE s2[i - N]
  BY <1>4, <1>5, Appended
<1> DEFINE N2 == N + N
           N3 == N2 + N
<1> HIDE DEF t2, N2, N3
<1>9. /\ t3 \in Seq(G) /\ Len(t3) = N3
      /\ \A i \in 1..N3 : t3[i] = IF i <= N2 THEN t2[i] ELSE s3[i - N2]
  <2>1. Len(t2) = N2 BY <1>8 DEF N2
  <2>2. t2 \in Seq(G) /\ s3 \in Seq(G) /\ Len(s3) = N BY <1>4, <1>5, <1>8
  <2>3. N3 = N2 + N BY DEF N3
  <2>4. /\ t2 \o s3 \in Seq(G) /\ Len(t2 \o s3) = N2 + N
        /\ \A i \in 1..(N2 + N) : (t2 \o s3)[i] = IF i <= N2 THEN t2[i] ELSE s3[i - N2]
    BY <2>1, <2>2, Appended
  <2>5. QED BY <2>3, <2>4
<1>10. Order = t3 \o s4 BY <1>7 DEF t2
<1> HIDE DEF t3
<1>11. /\ Len(Order) = N3 + N
       /\ \A i \in 1..(N3 + N) : Order[i] = IF i <= N3 THEN t3[i] ELSE s4[i - N3]
  BY <1>4, <1>5, <1>9, <1>10, Appended
<1> USE DEF N2, N3
<1>12. ASSUME NEW i \in 1..N
       PROVE  /\ Order[i] = s1[i] /\ Order[N + i] = s2[i]
              /\ Order[N + N + i] = s3[i] /\ Order[N + N + N + i] = s4[i]
  <2>1. Order[i] = s1[i]
    <3>1. i \in 1..(N + N) /\ i \in 1..((N + N) + N) /\ i \in 1..(((N + N) + N) + N)
          /\ i <= N /\ i <= N + N /\ i <= (N + N) + N
      BY <1>1
    <3>2. QED BY <1>8, <1>9, <1>11, <3>1
  <2>2. Order[N + i] = s2[i]
    <3>1. N + i \in 1..(N + N) /\ N + i \in 1..((N + N) + N) /\ N + i \in 1..(((N + N) + N) + N)
          /\ ~(N + i <= N) /\ N + i <= N + N /\ N + i <= (N + N) + N /\ (N + i) - N = i
      BY <1>1
    <3>2. QED BY <1>8, <1>9, <1>11, <3>1
  <2>3. Order[N + N + i] = s3[i]
    <3>1. N + N + i \in 1..((N + N) + N) /\ N + N + i \in 1..(((N + N) + N) + N)
          /\ ~(N + N + i <= N + N) /\ N + N + i <= (N + N) + N /\ (N + N + i) - (N + N) = i
      BY <1>1
    <3>2. QED BY <1>9, <1>11, <3>1
  <2>4. Order[N + N + N + i] = s4[i]
    <3>1. N + N + N + i \in 1..(((N + N) + N) + N)
          /\ ~(N + N + N + i <= (N + N) + N) /\ (N + N + N + i) - ((N + N) + N) = i
      BY <1>1
    <3>2. QED BY <1>11, <3>1
  <2>5. QED BY <2>1, <2>2, <2>3, <2>4
<1>13. QED BY <1>1, <1>6, <1>11, <1>12 DEF N

----------------------------------------------------------------------------
(* What the groups make of the frontier, in that order *)

\* What the replay shows after the first part of the order, after the splits P,
\* after the joins J, and the roots it hides at last.
Kids(S)   == UNION {Children[m] : m \in S}
Rooted(c) == c.active \cup On(c)
Spread(c, P)   == (Rooted(c) \cup Kids(P)) \ P
Joining(c)     == Under(c, Dead(c))
Gathered(c, J) == (Spread(c, SplitNodes(c)) \cup J) \ Kids(J)
Leaving(c)     == Off(c) \cup Retired(c)

\* With the new roots and before any other group, what is shown is a frontier
\* above which nothing has changed.
LEMMA RootedIs ==
    ASSUME NEW c, FrontierOK(c)
    PROVE  /\ Rooted(c) \in SUBSET Node /\ Apart(Rooted(c)) /\ Inner(Rooted(c)) = Inner(c.active)
           /\ Rooted(c) = Base(c) \cup Off(c) /\ Off(c) \cap Base(c) = {} /\ On(c) \cap Off(c) = {}
           /\ Off(c) \subseteq c.active /\ Off(c) \subseteq Roots /\ On(c) \subseteq Roots
           /\ c.active \cap On(c) = {} /\ Joining(c) \subseteq Inner(c.active)
           /\ Dead(c) \subseteq Joining(c) /\ Inner(c.active) \subseteq Node
<1>1. c.active \subseteq Node /\ Apart(c.active) BY DEF FrontierOK
<1>2. /\ Off(c) \subseteq c.active /\ Off(c) \subseteq Roots /\ On(c) \subseteq Roots /\ Roots \subseteq Node
      /\ On(c) \cap Off(c) = {}
  BY DEF Off, On, Roots
<1>3. ASSUME NEW r \in On(c), NEW x \in c.active PROVE r \notin Path[x] /\ x \notin Path[r] /\ r # x
  <2>1. r \in Node /\ Path[r] = {r} /\ x \in Node /\ r \in Path[r] BY <1>1, <1>2, RootPath
  <2>2. r \notin Path[x] BY <2>1, InBranch DEF On
  <2>3. x \in Path[x] BY <2>1, PathAbove
  <2>4. QED BY <2>1, <2>2, <2>3
<1>4. Rooted(c) = Base(c) \cup Off(c) /\ Off(c) \cap Base(c) = {} /\ c.active \cap On(c) = {}
  BY <1>2, <1>3 DEF Rooted, Base
<1>5. Apart(Rooted(c))
  <2>1. ASSUME NEW x \in Rooted(c) PROVE Path[x] \cap Rooted(c) = {x}
    <3>1. CASE x \in c.active BY <1>1, <1>3, <3>1 DEF Apart, Rooted
    <3>2. CASE x \in On(c)
      <4>1. Path[x] = {x} BY <1>2, <3>2, RootPath
      <4>2. QED BY <2>1, <4>1
    <3>3. QED BY <2>1, <3>1, <3>2 DEF Rooted
  <2>2. QED BY <2>1 DEF Apart
<1>6. Inner(Rooted(c)) = Inner(c.active)
  <2>1. ASSUME NEW m \in Inner(Rooted(c)) PROVE m \in Inner(c.active)
    <3>1. m \in Node /\ m \notin Rooted(c) BY DEF Inner
    <3>2. PICK x \in Rooted(c) : x \in Branch[m] BY DEF Inner
    <3>3. x \notin On(c)
      <4>1. SUFFICES ASSUME x \in On(c) PROVE FALSE OBVIOUS
      <4>2. Path[x] = {x} /\ m \in Path[x] BY <1>2, <3>1, <3>2, <4>1, RootPath, InBranch
      <4>3. QED BY <3>1, <3>2, <4>2
    <3>4. QED BY <3>1, <3>2, <3>3 DEF Inner, Rooted
  <2>2. ASSUME NEW m \in Inner(c.active) PROVE m \in Inner(Rooted(c))
    <3>1. m \in Node /\ m \notin c.active BY DEF Inner
    <3>2. PICK x \in c.active : x \in Branch[m] BY DEF Inner
    <3>3. m \notin On(c) BY <1>3, <3>1, <3>2, InBranch
    <3>4. QED BY <3>1, <3>2, <3>3 DEF Inner, Rooted
  <2>3. QED BY <2>1, <2>2
<1>7. Joining(c) \subseteq Inner(c.active) /\ Inner(c.active) \subseteq Node BY DEF Joining, Under, Inner
<1>8. Dead(c) \subseteq Joining(c)
  <2>1. ASSUME NEW d \in Dead(c) PROVE d \in Joining(c)
    <3>1. d \in Inner(c.active) /\ d \in Node BY <1>7 DEF Dead
    <3>2. d \in Path[d] BY <3>1, PathAbove
    <3>3. QED BY <3>1, <3>2 DEF Joining, Under
  <2>2. QED BY <2>1
<1>9. QED BY <1>1, <1>2, <1>4, <1>5, <1>6, <1>7, <1>8 DEF Rooted

\* What was there below a node that joins, and that node, have a parent that joins.
LEMMA ParentJoins ==
    ASSUME NEW c, FrontierOK(c), NEW n \in Joining(c),
           NEW y \in Rooted(c) \cup Inner(c.active), n \in Path[y], y # n
    PROVE  \E p \in Joining(c) : y \in Children[p] /\ n \in Path[p] /\ n >= p
<1>0. /\ Rooted(c) \in SUBSET Node /\ Apart(Rooted(c)) /\ Inner(Rooted(c)) = Inner(c.active)
      /\ Inner(c.active) \subseteq Node
  BY RootedIs
<1>1. y \in Node BY <1>0
<1>2. Path[y] = {y} \cup (IF Parent[y] = 0 THEN {} ELSE Path[Parent[y]]) BY <1>1, PathIs
<1>3. Parent[y] # 0 /\ Parent[y] \in Node /\ n \in Path[Parent[y]] BY <1>1, <1>2, TreeAssumption
<1>4. y \in Children[Parent[y]] BY <1>1, <1>3 DEF Children
<1>5. Parent[y] \in Path[y] /\ Parent[y] # y BY <1>2, <1>3, <1>4, ChildPath, PathAbove
<1>6. Parent[y] \in Inner(c.active) BY <1>0, <1>5, InnerAbove
<1>7. Parent[y] \in Joining(c) BY <1>3, <1>6, JoinRegion DEF Joining
<1>8. n \in Node /\ n >= Parent[y] BY <1>3, PathAbove DEF Node
<1>9. QED BY <1>3, <1>4, <1>7, <1>8

\* What a split has shown is below no join.
LEMMA SplitKids ==
    ASSUME NEW c, FrontierOK(c), NEW y \in SplitNodes(c) \cup Kids(SplitNodes(c))
    PROVE  y \in Node /\ Path[y] \cap Joining(c) = {} /\ y \notin Kids(Joining(c))
<1>1. PICK m \in SplitNodes(c) : y \in {m} \cup Children[m] BY DEF Kids
<1>2. y \in Node /\ y \notin Inner(c.active) /\ Path[y] \cap Dead(c) = {} BY <1>1, SplitRegion
<1>3. ASSUME NEW j \in Path[y], j \in Joining(c) PROVE FALSE
  <2>1. Path[j] \cap Dead(c) # {} BY <1>3 DEF Joining, Under
  <2>2. Path[j] \subseteq Path[y] BY <1>2, PathWithin
  <2>3. QED BY <1>2, <2>1, <2>2
<1>4. ASSUME NEW j \in Joining(c), y \in Children[j] PROVE FALSE
  <2>1. j \in Node BY <1>4, RootedIs
  <2>2. Path[y] = {y} \cup Path[j] /\ j \in Path[j] BY <1>4, <2>1, ChildPath, PathAbove
  <2>3. QED BY <1>3, <1>4, <2>2
<1>5. QED BY <1>2, <1>3, <1>4 DEF Kids

\* A root that is shown in the replay may be.
LEMMA ReplayRoot ==
    ASSUME NEW c, FrontierOK(c), NEW n \in On(c), NEW D \in SUBSET On(c), n \notin D
    PROVE  \A g : g = [op |-> "RootActivate", anchor |-> n] =>
             /\ \A G : ValidShape(c, c.active \cup D, G, g)
             /\ Project(c.active \cup D, g) = c.active \cup (D \cup {n})
<1>1. n \in Roots /\ n \in Node /\ On(c) \subseteq Roots BY RootedIs, RootPath
<1>2. IsEligible(c, n) BY <1>1, Demanded DEF On
<1>3. ActiveBelow(c.active \cup D, n) = {}
  <2>1. ASSUME NEW x \in D, x \in Branch[n] PROVE FALSE
    <3>1. Path[x] = {x} /\ n \in Path[x] BY <1>1, <2>1, RootPath, InBranch
    <3>2. QED BY <2>1, <3>1
  <2>2. QED BY <2>1 DEF ActiveBelow, On
<1>4. QED BY <1>1, <1>2, <1>3 DEF ValidShape, Project, Activates, Deactivates

\* A split in the replay is ready, finer ones come later.
LEMMA ReplaySplit ==
    ASSUME NEW c, FrontierOK(c), NEW n \in SplitNodes(c),
           NEW P, P = {m \in SplitNodes(c) : n < m}
    PROVE  \A g : g = [op |-> "Split", anchor |-> n] =>
             /\ \A G : ValidShape(c, Spread(c, P), G, g)
             /\ Project(Spread(c, P), g) = Spread(c, P \cup {n})
<1>0. /\ Rooted(c) \in SUBSET Node /\ Apart(Rooted(c)) /\ Base(c) \subseteq Rooted(c) BY RootedIs
<1> DEFINE a == Spread(c, P)
<1>1. /\ n \in Node /\ n \in Splitting(c)
      /\ n \in Base(c) \/ (Parent[n] \in SplitNodes(c) /\ n \in Children[Parent[n]])
  BY SplitRegion
<1>2. PICK x \in Base(c) : x \in Path[n] BY SplitRegion
<1>3. n \notin P BY <1>1 DEF Node
<1>4. n \in a
  <2>1. CASE n \in Base(c) BY <1>0, <1>3, <2>1 DEF Spread
  <2>2. CASE Parent[n] \in SplitNodes(c) /\ n \in Children[Parent[n]]
    <3>1. Parent[n] \in Node BY <2>2 DEF SplitNodes, Reach
    <3>2. n < Parent[n] BY <2>2, <3>1, ChildPath
    <3>3. Parent[n] \in P BY <2>2, <3>2
    <3>4. QED BY <1>3, <2>2, <3>3 DEF Spread, Kids
  <2>3. QED BY <1>1, <2>1, <2>2
<1>5. ASSUME NEW y \in a, n \in Path[y] PROVE y = n
  <2>1. CASE y \in Rooted(c)
    <3>1. y \in Node /\ x \in Path[y] BY <1>0, <1>2, <1>5, <2>1, PathWithin
    <3>2. x = y BY <1>0, <1>2, <2>1, <3>1 DEF Apart
    <3>3. QED BY <1>1, <1>2, <1>5, <3>1, <3>2, PathOrder
  <2>2. CASE y \in Kids(P)
    <3>1. PICK p \in P : y \in Children[p] BY <2>2 DEF Kids
    <3>2. p \in Node /\ n < p BY <3>1 DEF SplitNodes, Reach
    <3>3. Path[y] = {y} \cup Path[p] BY <3>1, <3>2, ChildPath
    <3>4. n \notin Path[p]
      <4>1. \A m \in Path[p] : p <= m BY <3>2, PathAbove
      <4>2. ~(p <= n) BY <1>1, <3>2 DEF Node
      <4>3. QED BY <4>1, <4>2
    <3>5. QED BY <1>5, <3>3, <3>4
  <2>3. QED BY <2>1, <2>2 DEF Spread
<1>6. a \subseteq Node
  <2>1. \A m \in SplitNodes(c) : m \in Node /\ Children[m] \subseteq Node BY DEF SplitNodes, Reach, Children
  <2>2. QED BY <1>0, <2>1 DEF Spread, Kids
<1>7. ActiveBelow(a, n) = {n}
  <2>1. n \in Branch[n] BY <1>1, PathAbove, InBranch
  <2>2. QED BY <1>1, <1>4, <1>5, <2>1, InBranch DEF ActiveBelow
<1>8. ASSUME NEW k \in Children[n]
      PROVE  ActiveBelow(a, k) = {} /\ IsEligible(c, k) /\ k \notin P /\ k # n
  <2>1. k \in Node /\ k < n /\ Path[k] = {k} \cup Path[n] /\ k \notin Path[n] /\ n \in Path[n]
    BY <1>1, ChildPath, PathAbove
  <2>2. ASSUME NEW y \in a, y \in Branch[k] PROVE FALSE
    <3>1. y \in Node /\ k \in Path[y] /\ n \in Path[k] BY <2>1, <2>2, InBranch
    <3>2. n \in Path[y] BY <3>1, PathWithin
    <3>3. y = n BY <1>5, <3>2
    <3>4. QED BY <2>1, <3>1, <3>3
  <2>3. k \in c.load /\ k \in c.ready BY <1>1 DEF Splitting, IsSplitDemanded
  <2>4. k \notin P BY <1>1, <2>1 DEF Node
  <2>5. QED BY <2>1, <2>2, <2>3, <2>4, Demanded DEF ActiveBelow, Fit
<1>9. MaySplit(c, a, n) BY <1>1, <1>4, <1>7, <1>8 DEF MaySplit, Splitting
<1>10. (a \ {n}) \cup Children[n] = Spread(c, P \cup {n})
  <2>1. Kids(P \cup {n}) = Kids(P) \cup Children[n] BY DEF Kids
  <2>2. QED BY <1>8, <2>1 DEF Spread
<1> HIDE DEF a
<1>11. QED BY <1>9, <1>10 DEF a, ValidShape, Project, Activates, Deactivates

\* Below a join of the replay its children are shown and nothing else, as the
\* finer ones have joined before; it has a reason, or serves the join of its parent.
LEMMA ReplayJoin ==
    ASSUME NEW c, FrontierOK(c), NEW n \in Joining(c), NEW J, J = {m \in Joining(c) : m < n}
    PROVE  \A g : g = [op |-> "Join", anchor |-> n] =>
             /\ ValidShape(c, Gathered(c, J), Groups(c), g)
             /\ Project(Gathered(c, J), g) = Gathered(c, J \cup {n})
<1>0. /\ Rooted(c) \in SUBSET Node /\ Inner(Rooted(c)) = Inner(c.active) /\ Base(c) \subseteq Rooted(c)
      /\ Inner(c.active) \subseteq Node /\ Joining(c) \subseteq Inner(c.active)
      /\ Base(c) \cup Inner(c.active) \subseteq c.ready
      /\ \A m \in Inner(c.active) : \A k \in Children[m] : k \in Base(c) \cup Inner(c.active)
  BY RootedIs, BaseIs
<1> DEFINE a == Gathered(c, J)
<1>1. /\ n \in Node /\ n \in Inner(c.active) /\ n \notin Rooted(c)
      /\ n \in Dead(c) \/ (Parent[n] \in Joining(c) /\ n \in Children[Parent[n]])
  BY <1>0, JoinRegion DEF Joining, Inner
<1>2. \A k \in Children[n] : k \in Node /\ k # n /\ k < n /\ Path[k] = {k} \cup Path[n] /\ n \in Path[n]
  BY <1>1, ChildPath, PathAbove
<1>3. \A j \in J : j \in Node /\ j # n /\ j < n BY <1>0, <1>1 DEF Node
<1>4. ASSUME NEW k \in Children[n] PROVE k \in a
  <2>1. k \in Spread(c, SplitNodes(c)) \cup J
    <3>1. CASE k \in Base(c)
      <4>1. k \notin SplitNodes(c) BY <1>2, SplitKids
      <4>2. QED BY <1>0, <3>1, <4>1 DEF Spread
    <3>2. CASE k \in Inner(c.active)
      <4>1. k \in Joining(c) BY <1>2, <3>2, JoinRegion DEF Joining
      <4>2. QED BY <1>2, <4>1
    <3>3. QED BY <1>0, <1>1, <3>1, <3>2
  <2>2. k \notin Kids(J)
    <3>1. ASSUME NEW j \in J, k \in Children[j] PROVE FALSE
      <4>1. Parent[k] = j /\ Parent[k] = n BY <1>1, <1>3, <3>1 DEF Children
      <4>2. QED BY <1>3, <4>1
    <3>2. QED BY <3>1 DEF Kids
  <2>3. QED BY <2>1, <2>2 DEF Gathered
<1>5. ASSUME NEW y \in a, n \in Path[y] PROVE y \in Children[n]
  <2>1. y \notin Kids(J) BY <1>5 DEF Gathered
  <2>2. y \notin Kids(SplitNodes(c)) BY <1>5, SplitKids
  <2>3. y \in Rooted(c) \cup Inner(c.active) BY <1>0, <1>5, <2>2 DEF Gathered, Spread
  <2>4. y # n BY <1>1, <1>3, <1>5, <2>2 DEF Gathered, Spread
  <2>5. PICK p \in Joining(c) : y \in Children[p] /\ n >= p BY <1>5, <2>3, <2>4, ParentJoins
  <2>6. p \in Node BY <1>0
  <2>7. p = n
    <3>1. SUFFICES ASSUME p # n PROVE FALSE OBVIOUS
    <3>2. p < n BY <1>1, <2>5, <2>6, <3>1 DEF Node
    <3>3. p \in J BY <3>2
    <3>4. QED BY <2>1, <2>5, <3>3 DEF Kids
  <2>8. QED BY <2>5, <2>7
<1>6. ActiveBelow(a, n) = Children[n]
  <2>1. a \subseteq Node
    <3>1. \A m \in SplitNodes(c) : Children[m] \subseteq Node BY DEF SplitNodes, Reach, Children
    <3>2. J \subseteq Node BY <1>3
    <3>3. QED BY <1>0, <3>1, <3>2 DEF Gathered, Spread, Kids
  <2>2. \A k \in Children[n] : k \in Branch[n] BY <1>1, <1>2, InBranch
  <2>3. QED BY <1>1, <1>4, <1>5, <2>1, <2>2, InBranch DEF ActiveBelow
<1>7. Children[n] # {}
  <2>1. PICK x \in c.active : x \in Branch[n] /\ n \notin c.active BY <1>1 DEF Inner
  <2>2. x \in Node /\ n \in Path[x] /\ n # x BY <1>1, <2>1, InBranch
  <2>3. QED BY <2>2, PathThroughChild
<1>8. \/ ~IsSplitDemanded(c, n)
      \/ \E k \in Children[n] : ~IsEligible(c, k)
      \/ \E h \in Groups(c) : h.op = "Join" /\ n \in Deactivates(h)
  <2>1. CASE n \in Dead(c) BY <2>1 DEF Dead
  <2>2. CASE Parent[n] \in Joining(c) /\ n \in Children[Parent[n]]
    <3> DEFINE h == [op |-> "Join", anchor |-> Parent[n]]
    <3>1. h \in Groups(c) BY <2>2 DEF Groups, Op, Joining
    <3>2. h.op = "Join" /\ n \in Deactivates(h) BY <2>2 DEF Deactivates
    <3>3. QED BY <3>1, <3>2
  <2>3. QED BY <1>1, <2>1, <2>2
<1>9. (a \ Children[n]) \cup {n} = Gathered(c, J \cup {n})
  <2>1. Kids(J \cup {n}) = Kids(J) \cup Children[n] BY DEF Kids
  <2>2. n \notin Children[n] BY <1>2
  <2>3. n \notin Kids(J)
    <3>1. ASSUME NEW j \in J, n \in Children[j] PROVE FALSE
      <4>1. n < j BY <1>3, <3>1, ChildPath
      <4>2. QED BY <1>1, <1>3, <4>1 DEF Node
    <3>2. QED BY <3>1 DEF Kids
  <2>4. QED BY <2>1, <2>2, <2>3 DEF Gathered
<1>10. IsReady(c, n) BY <1>0, <1>1 DEF IsReady
<1> HIDE DEF a
<1>11. QED BY <1>6, <1>7, <1>8, <1>9, <1>10 DEF a, ValidShape, Project, Activates, Deactivates

\* A root that is hidden in the replay is shown, with nothing below it.
LEMMA ReplayOff ==
    ASSUME NEW c, FrontierOK(c), NEW n \in Leaving(c), NEW D \in SUBSET Leaving(c), n \notin D
    PROVE  \A g : g = [op |-> "RootDeactivate", anchor |-> n] =>
             /\ \A G : ValidShape(c, Gathered(c, Joining(c)) \ D, G, g)
             /\ Project(Gathered(c, Joining(c)) \ D, g) = Gathered(c, Joining(c)) \ (D \cup {n})
<1>0. /\ Rooted(c) \in SUBSET Node /\ Apart(Rooted(c)) /\ Inner(Rooted(c)) = Inner(c.active)
      /\ Rooted(c) = Base(c) \cup Off(c) /\ Off(c) \cap Base(c) = {} /\ Off(c) \subseteq Roots
      /\ Joining(c) \subseteq Inner(c.active) /\ Dead(c) \subseteq Joining(c) /\ Inner(c.active) \subseteq Node
  BY RootedIs
<1> DEFINE W == Gathered(c, Joining(c))
<1>1. n \in Roots /\ (n \in Off(c) \/ n \in Retired(c)) BY <1>0 DEF Leaving, Retired
<1>2. n \in Node /\ Path[n] = {n} /\ Parent[n] = 0 BY <1>1, RootPath DEF Roots
<1>3. n \notin Kids(Joining(c))
  <2>1. ASSUME NEW j \in Joining(c), n \in Children[j] PROVE FALSE
    <3>1. j \in Node /\ Parent[n] = j BY <1>0, <2>1 DEF Children
    <3>2. QED BY <1>2, <3>1 DEF Node
  <2>2. QED BY <2>1 DEF Kids
<1>4. n \in Retired(c) => n \in Dead(c)
  <2>1. SUFFICES ASSUME n \in Retired(c) PROVE n \in Dead(c) OBVIOUS
  <2>2. n \in Reach(c, Splitting(c)) /\ n \notin c.load BY <2>1 DEF Retired, Divided
  <2>3. n \in Joined(c) BY <1>2, <2>2 DEF Reach
  <2>4. n \notin Base(c) BY <1>1, <2>2, BaseIs DEF Fit
  <2>5. QED BY <2>3, <2>4 DEF Joined, Collapse
<1>5. ~BranchIsDemanded(c, n) \/ ~IsReady(c, n)
  <2>1. CASE n \in Off(c)
    <3>1. n \notin Fit(c) BY <2>1 DEF Off
    <3>2. QED BY <1>2, <3>1, Demanded DEF Fit, IsReady
  <2>2. CASE n \in Retired(c) BY <1>2, <2>2, Demanded DEF Retired
  <2>3. QED BY <1>1, <2>1, <2>2
<1>6. n \in W
  <2>1. CASE n \in Off(c)
    <3>1. n \in Rooted(c) BY <1>0, <2>1
    <3>2. n \notin c.load BY <2>1 DEF Off, Fit, FrontierOK
    <3>3. n \notin SplitNodes(c) BY <3>2 DEF SplitNodes, Splitting, IsSplitDemanded
    <3>4. QED BY <1>3, <3>1, <3>3 DEF Gathered, Spread
  <2>2. CASE n \in Retired(c) BY <1>0, <1>3, <1>4, <2>2 DEF Gathered
  <2>3. QED BY <1>1, <2>1, <2>2
<1>7. ASSUME NEW y \in W, n \in Path[y] PROVE y = n
  <2>1. y \notin Kids(Joining(c)) BY <1>7 DEF Gathered
  <2>2. CASE n \in Retired(c)
    <3>1. n \in Joining(c) BY <1>0, <1>4, <2>2
    <3>2. y \notin Kids(SplitNodes(c)) BY <1>7, <3>1, SplitKids
    <3>3. y \in Rooted(c) \cup Inner(c.active) BY <1>0, <1>7, <3>2 DEF Gathered, Spread
    <3>4. QED BY <1>7, <2>1, <3>1, <3>3, ParentJoins DEF Kids
  <2>3. CASE n \in Off(c)
    <3>0. n \in Rooted(c) /\ n \notin Inner(c.active) /\ n \notin Base(c) BY <1>0, <2>3 DEF Inner
    <3>1. CASE y \in Rooted(c) BY <1>0, <1>7, <3>0, <3>1 DEF Apart
    <3>2. CASE y \in Kids(SplitNodes(c))
      <4>1. PICK m \in SplitNodes(c) : y \in Children[m] BY <3>2 DEF Kids
      <4>2. m \in Node BY <4>1, SplitRegion
      <4>3. PICK x \in Base(c) : x \in Path[m] BY <4>1, SplitRegion
      <4>4. Path[y] = {y} \cup Path[m] /\ m \in Path[y] /\ y \in Node BY <4>1, <4>2, ChildPath, PathAbove
      <4>5. y # n
        <5>1. Parent[y] = m BY <4>1, <4>2 DEF Children
        <5>2. QED BY <1>2, <4>2, <5>1 DEF Node
      <4>6. n \in Path[m] BY <1>7, <4>4, <4>5
      <4>7. n \in Path[x] \/ x \in Path[n] BY <4>2, <4>3, <4>6, PathIsChain
      <4>8. n = x BY <1>0, <1>2, <3>0, <4>3, <4>7 DEF Apart
      <4>9. QED BY <3>0, <4>3, <4>8
    <3>3. CASE y \in Joining(c)
      <4>1. y \in Inner(Rooted(c)) BY <1>0, <3>3
      <4>2. y # n => n \in Inner(Rooted(c)) BY <1>0, <1>7, <4>1, InnerAbove
      <4>3. QED BY <1>0, <3>0, <4>2
    <3>4. QED BY <1>7, <3>1, <3>2, <3>3 DEF Gathered, Spread
  <2>4. QED BY <1>1, <2>2, <2>3
<1>8. ActiveBelow(W \ D, n) = {n}
  <2>1. n \in Branch[n] BY <1>2, PathAbove, InBranch
  <2>2. QED BY <1>2, <1>6, <1>7, <2>1, InBranch DEF ActiveBelow
<1>9. n \in W \ D BY <1>6
<1>10. (W \ D) \ {n} = W \ (D \cup {n}) OBVIOUS
<1> HIDE DEF W
<1>11. QED BY <1>1, <1>5, <1>8, <1>9, <1>10 DEF W, ValidShape, Project, Activates, Deactivates

\* What the replay ends with is what the draft has shown.
LEMMA ReplayEnd ==
    ASSUME NEW c, FrontierOK(c)
    PROVE  Gathered(c, Joining(c)) \ Leaving(c) = Divided(c) \ Retired(c)
<1>0. /\ Rooted(c) \in SUBSET Node /\ Inner(Rooted(c)) = Inner(c.active)
      /\ Rooted(c) = Base(c) \cup Off(c) /\ Off(c) \cap Base(c) = {} /\ Off(c) \subseteq Roots
      /\ Off(c) \subseteq c.active
      /\ Joining(c) \subseteq Inner(c.active) /\ Dead(c) \subseteq Joining(c) /\ Inner(c.active) \subseteq Node
      /\ Dead(c) \subseteq Inner(c.active) /\ Joined(c) \in SUBSET Node
  BY RootedIs, JoinedIs DEF Dead
<1>1. Joined(c) \subseteq Reach(c, Splitting(c))
  <2>1. ASSUME NEW y \in Joined(c) PROVE y \in Reach(c, Splitting(c))
    <3>1. y \in Node /\ y \in Path[y] BY <1>0, PathAbove
    <3>2. \A m \in Path[y] : y \in Path[m] => m = y BY <3>1, PathOrder
    <3>3. QED BY <3>1, <3>2 DEF Reach
  <2>2. QED BY <2>1
<1>2. Kids(SplitNodes(c)) \subseteq Reach(c, Splitting(c))
  <2>1. ASSUME NEW m \in SplitNodes(c), NEW y \in Children[m] PROVE y \in Reach(c, Splitting(c))
    <3>0. m \in Node /\ m \in Splitting(c) BY DEF SplitNodes, Reach
    <3>1. PICK x \in Joined(c) : /\ x \in Path[m]
                                 /\ \A k \in Path[m] : x \in Path[k] /\ k # m => k \in Splitting(c)
      BY DEF SplitNodes, Reach
    <3>2. y \in Node /\ Path[y] = {y} \cup Path[m] BY <3>0, ChildPath
    <3>3. QED BY <3>0, <3>1, <3>2 DEF Reach
  <2>2. QED BY <2>1 DEF Kids
<1>3. ASSUME NEW y \in Gathered(c, Joining(c)), y \notin Leaving(c)
      PROVE  y \in Divided(c) /\ y \notin Retired(c)
  <2>1. y \notin Off(c) /\ y \notin Retired(c) /\ y \notin Kids(Joining(c))
    BY <1>3 DEF Leaving, Gathered
  <2>2. ASSUME y \in Base(c) \cup Inner(c.active), NEW d \in Path[y], d \in Dead(c) PROVE d = y
    <3>1. d \in Joining(c) /\ y \in Rooted(c) \cup Inner(c.active) BY <1>0, <2>2
    <3>2. QED BY <2>1, <2>2, <3>1, ParentJoins DEF Kids
  <2>3. CASE y \in Joining(c)
    <3>1. y \in Dead(c)
      <4>1. y \in Dead(c) \/ (Parent[y] \in Joining(c) /\ y \in Children[Parent[y]])
        BY <2>3, JoinRegion DEF Joining
      <4>2. QED BY <2>1, <4>1 DEF Kids
    <3>2. y \in Joined(c) BY <1>0, <2>2, <3>1 DEF Joined, Collapse
    <3>3. y \notin Splitting(c) BY <3>1 DEF Dead, Splitting
    <3>4. QED BY <1>1, <2>1, <3>2, <3>3 DEF Divided
  <2>4. CASE y \notin Joining(c)
    <3>1. y \in Rooted(c) \cup Kids(SplitNodes(c)) /\ y \notin SplitNodes(c)
      BY <1>3, <2>4 DEF Gathered, Spread
    <3>2. y \in Reach(c, Splitting(c))
      <4>1. CASE y \in Kids(SplitNodes(c)) BY <1>2, <4>1
      <4>2. CASE y \in Rooted(c)
        <5>1. y \in Base(c) BY <1>0, <2>1, <4>2
        <5>2. y \in Joined(c) BY <2>2, <5>1 DEF Joined, Collapse
        <5>3. QED BY <1>1, <5>2
      <4>3. QED BY <3>1, <4>1, <4>2
    <3>3. QED BY <2>1, <3>1, <3>2 DEF Divided, SplitNodes
  <2>5. QED BY <2>3, <2>4
<1>4. ASSUME NEW y \in Divided(c), y \notin Retired(c)
      PROVE  y \in Gathered(c, Joining(c)) /\ y \notin Leaving(c)
  <2>1. y \in Node /\ y \notin Splitting(c) /\ y \notin SplitNodes(c) BY <1>4 DEF Divided, Reach, SplitNodes
  <2>2. PICK x \in Joined(c) : /\ x \in Path[y]
                               /\ \A m \in Path[y] : x \in Path[m] /\ m # y => m \in Splitting(c)
    BY <1>4 DEF Divided, Reach
  <2>3. CASE x = y
    <3>1. y \in Base(c) \cup Dead(c) /\ \A m \in Path[y] : m \in Dead(c) => m = y
      BY <2>2, <2>3 DEF Joined, Collapse
    <3>2. y \notin Kids(Joining(c))
      <4>1. ASSUME NEW p \in Joining(c), y \in Children[p] PROVE FALSE
        <5>1. p \in Node /\ Path[y] = {y} \cup Path[p] /\ y \notin Path[p] BY <1>0, <4>1, ChildPath
        <5>2. Path[p] \cap Dead(c) # {} BY <4>1 DEF Joining, Under
        <5>3. QED BY <3>1, <5>1, <5>2
      <4>2. QED BY <4>1 DEF Kids
    <3>3. y \in Rooted(c) \cup Joining(c) /\ y \notin Off(c)
      <4>1. y \in Dead(c) => y \notin c.active BY <1>0 DEF Inner
      <4>2. QED BY <1>0, <3>1, <4>1
    <3>4. QED BY <1>4, <2>1, <3>2, <3>3 DEF Gathered, Spread, Leaving
  <2>4. CASE x # y
    <3>1. Path[y] = {y} \cup (IF Parent[y] = 0 THEN {} ELSE Path[Parent[y]]) BY <2>1, PathIs
    <3>2. Parent[y] # 0 /\ Parent[y] \in Node /\ x \in Path[Parent[y]] /\ Path[Parent[y]] \subseteq Path[y]
      BY <2>1, <2>2, <2>4, <3>1, TreeAssumption
    <3>3. y \in Children[Parent[y]] BY <2>1, <3>2 DEF Children
    <3>4. Parent[y] # y /\ Parent[y] \in Path[y] /\ y \notin Path[Parent[y]]
      BY <3>2, <3>3, ChildPath, PathAbove
    <3>5. Parent[y] \in Splitting(c) BY <2>2, <3>2, <3>4
    <3>6. Parent[y] \in Reach(c, Splitting(c)) BY <2>2, <3>2, <3>4 DEF Reach
    <3>7. y \in Kids(SplitNodes(c)) BY <3>3, <3>5, <3>6 DEF SplitNodes, Kids
    <3>8. y \notin Kids(Joining(c)) BY <3>7, SplitKids
    <3>9. y \notin Roots BY <3>2 DEF Roots
    <3>10. y \notin Off(c) BY <1>0, <3>9
    <3>11. QED BY <1>4, <2>1, <3>7, <3>8, <3>10 DEF Gathered, Spread, Leaving
  <2>5. QED BY <2>3, <2>4
<1>5. QED BY <1>3, <1>4

----------------------------------------------------------------------------
(* The replay *)

\* The replay after i of the groups of Order.
Replayed(c, i) ==
    [active |-> IF i <= NodeCount THEN c.active \cup UpTo(On(c), i)
                ELSE IF i <= NodeCount + NodeCount
                THEN Spread(c, DownTo(SplitNodes(c), i - NodeCount))
                ELSE IF i <= NodeCount + NodeCount + NodeCount
                THEN Gathered(c, UpTo(Joining(c), i - (NodeCount + NodeCount)))
                ELSE Gathered(c, Joining(c)) \ UpTo(Leaving(c), i - (NodeCount + NodeCount + NodeCount)),
     valid |-> TRUE]

\* Where one part of the order ends the next one begins.
LEMMA ReplaySeams ==
    ASSUME NEW c, FrontierOK(c)
    PROVE  /\ Replayed(c, 0).active = c.active
           /\ \A i \in 0..NodeCount :
                 /\ Replayed(c, i).active = c.active \cup UpTo(On(c), i)
                 /\ Replayed(c, NodeCount + i).active = Spread(c, DownTo(SplitNodes(c), i))
                 /\ Replayed(c, NodeCount + NodeCount + i).active = Gathered(c, UpTo(Joining(c), i))
                 /\ Replayed(c, NodeCount + NodeCount + NodeCount + i).active
                      = Gathered(c, Joining(c)) \ UpTo(Leaving(c), i)
<1>1. NodeCount \in Nat BY TreeAssumption
<1>2. /\ On(c) \in SUBSET Node /\ SplitNodes(c) \in SUBSET Node /\ Joining(c) \in SUBSET Node
      /\ Leaving(c) \in SUBSET Node
  <2>1. Roots \subseteq Node BY DEF Roots
  <2>2. QED BY <2>1, RootedIs DEF SplitNodes, Reach, Leaving, Retired
<1>3. /\ UpTo(On(c), 0) = {} /\ UpTo(On(c), NodeCount) = On(c)
      /\ DownTo(SplitNodes(c), 0) = {} /\ DownTo(SplitNodes(c), NodeCount) = SplitNodes(c)
      /\ UpTo(Joining(c), 0) = {} /\ UpTo(Joining(c), NodeCount) = Joining(c)
      /\ UpTo(Leaving(c), 0) = {}
  BY <1>2, UpToStep, DownToStep
<1>4. /\ c.active \cup On(c) = Spread(c, {})
      /\ Spread(c, SplitNodes(c)) = Gathered(c, {})
  <2>1. Kids({}) = {} BY DEF Kids
  <2>2. QED BY <2>1 DEF Spread, Gathered, Rooted
<1>5. ASSUME NEW i \in 0..NodeCount
      PROVE /\ Replayed(c, i).active = c.active \cup UpTo(On(c), i)
            /\ Replayed(c, NodeCount + i).active = Spread(c, DownTo(SplitNodes(c), i))
            /\ Replayed(c, NodeCount + NodeCount + i).active = Gathered(c, UpTo(Joining(c), i))
            /\ Replayed(c, NodeCount + NodeCount + NodeCount + i).active
                 = Gathered(c, Joining(c)) \ UpTo(Leaving(c), i)
  <2>1. Replayed(c, i).active = c.active \cup UpTo(On(c), i) BY <1>1 DEF Replayed
  <2>2. Replayed(c, NodeCount + i).active = Spread(c, DownTo(SplitNodes(c), i))
    <3>1. CASE i = 0
      <4>1. NodeCount + i = NodeCount /\ NodeCount <= NodeCount BY <1>1, <3>1
      <4>2. QED BY <1>3, <1>4, <3>1, <4>1 DEF Replayed
    <3>2. CASE i # 0
      <4>1. ~(NodeCount + i <= NodeCount) /\ NodeCount + i <= NodeCount + NodeCount
            /\ (NodeCount + i) - NodeCount = i
        BY <1>1, <3>2
      <4>2. QED BY <4>1 DEF Replayed
    <3>3. QED BY <3>1, <3>2
  <2>3. Replayed(c, NodeCount + NodeCount + i).active = Gathered(c, UpTo(Joining(c), i))
    <3> DEFINE M == NodeCount + NodeCount
    <3>1. CASE i = 0
      <4>1. M + i = M /\ M <= M /\ M - NodeCount = NodeCount /\ (M <= NodeCount => NodeCount = 0) BY <1>1, <3>1
      <4>2. CASE ~(M <= NodeCount) BY <1>3, <1>4, <3>1, <4>1, <4>2 DEF Replayed
      <4>3. CASE M <= NodeCount
        <5>1. M = NodeCount /\ NodeCount = 0 BY <1>1, <4>1, <4>3
        <5>2. Replayed(c, M + i).active = c.active \cup UpTo(On(c), M + i) BY <3>1, <4>1, <4>3 DEF Replayed
        <5>3. QED BY <1>3, <1>4, <3>1, <4>1, <5>1, <5>2
      <4>4. QED BY <4>2, <4>3
    <3>2. CASE i # 0
      <4>1. ~(M + i <= NodeCount) /\ ~(M + i <= M) /\ M + i <= M + NodeCount /\ (M + i) - M = i
        BY <1>1, <3>2
      <4>2. QED BY <4>1 DEF Replayed
    <3>3. QED BY <3>1, <3>2
  <2>4. Replayed(c, NodeCount + NodeCount + NodeCount + i).active
          = Gathered(c, Joining(c)) \ UpTo(Leaving(c), i)
    <3> DEFINE M == NodeCount + NodeCount
               K == M + NodeCount
    <3>1. CASE i = 0
      <4>1. NodeCount # 0 => ~(K <= NodeCount) /\ ~(K <= M) /\ K <= K /\ K - M = NodeCount BY <1>1
      <4>2. K + i = K BY <1>1, <3>1
      <4>3. CASE NodeCount # 0 BY <1>3, <3>1, <4>1, <4>2, <4>3 DEF Replayed
      <4>4. CASE NodeCount = 0
        <5>1. K + i = 0 /\ 0 <= NodeCount BY <1>1, <3>1, <4>4
        <5>2. Replayed(c, K + i).active = c.active \cup UpTo(On(c), 0) BY <5>1 DEF Replayed
        <5>3. QED BY <1>3, <1>4, <3>1, <4>4, <5>2
      <4>5. QED BY <4>3, <4>4
    <3>2. CASE i # 0
      <4>1. ~(K + i <= NodeCount) /\ ~(K + i <= M) /\ ~(K + i <= K) /\ (K + i) - K = i
        BY <1>1, <3>2
      <4>2. QED BY <4>1 DEF Replayed
    <3>3. QED BY <3>1, <3>2
  <2>5. QED BY <2>1, <2>2, <2>3, <2>4
<1>6. Replayed(c, 0).active = c.active
  <2>1. 0 \in 0..NodeCount BY <1>1
  <2>2. QED BY <1>3, <1>5, <2>1
<1>7. QED BY <1>5, <1>6

\* Which groups there are.
LEMMA GroupsAre ==
    ASSUME NEW c, NEW n
    PROVE  /\ [op |-> "RootActivate", anchor |-> n] \in Groups(c) <=> n \in On(c)
           /\ [op |-> "Split", anchor |-> n] \in Groups(c) <=> n \in SplitNodes(c)
           /\ [op |-> "Join", anchor |-> n] \in Groups(c) <=> n \in Joining(c)
           /\ [op |-> "RootDeactivate", anchor |-> n] \in Groups(c) <=> n \in Leaving(c)
<1>1. \A o, S, p : [op |-> o, anchor |-> n] \in Op(p, S) <=> o = p /\ n \in S
  BY DEF Op
<1>2. /\ "RootActivate" # "Split" /\ "RootActivate" # "Join" /\ "RootActivate" # "RootDeactivate"
      /\ "Split" # "Join" /\ "Split" # "RootDeactivate" /\ "Join" # "RootDeactivate"
  OBVIOUS
<1>3. QED BY <1>1, <1>2 DEF Groups, Joining, Leaving

\* A step of replay_topology_groups, with the groups G.
Replays(c, G, s, g) == [active |-> Project(s.active, g),
                        valid  |-> s.valid /\ ValidShape(c, s.active, G, g)]

\* Each group of the draft is possible when its turn comes, and leads to the next
\* stage of the replay.
LEMMA ReplayStep ==
    ASSUME NEW c, FrontierOK(c), NEW j \in 1..(NodeCount + NodeCount + NodeCount + NodeCount)
    PROVE  Replayed(c, j) = IF Order[j] \in Groups(c)
                            THEN Replays(c, Groups(c), Replayed(c, j - 1), Order[j])
                            ELSE Replayed(c, j - 1)
<1> DEFINE N == NodeCount
           G == Groups(c)
<1>0. N \in Nat BY TreeAssumption
<1>1. /\ On(c) \in SUBSET Node /\ SplitNodes(c) \in SUBSET Node /\ Joining(c) \in SUBSET Node
      /\ Leaving(c) \in SUBSET Node
  <2>1. Roots \subseteq Node BY DEF Roots
  <2>2. QED BY <2>1, RootedIs DEF SplitNodes, Reach, Leaving, Retired
<1>2. \A k : Replayed(c, k) = [active |-> Replayed(c, k).active, valid |-> TRUE] BY DEF Replayed
<1>3. ASSUME NEW k, NEW b, NEW g, NEW a, Replayed(c, k).active = a, Replayed(c, b).active = Project(a, g),
             ValidShape(c, a, G, g)
      PROVE  Replayed(c, b) = Replays(c, G, Replayed(c, k), g)
  <2>1. Replayed(c, k).valid = TRUE BY DEF Replayed
  <2>2. Replayed(c, b) = [active |-> Project(a, g), valid |-> TRUE] BY <1>2, <1>3
  <2>3. (Replayed(c, k).valid /\ ValidShape(c, Replayed(c, k).active, G, g)) = TRUE BY <1>3, <2>1
  <2> HIDE DEF G
  <2>4. QED BY <1>3, <2>2, <2>3 DEF Replays
<1>4. ASSUME NEW k, NEW b, Replayed(c, k).active = Replayed(c, b).active PROVE Replayed(c, k) = Replayed(c, b)
  BY <1>2, <1>4
<1>5. CASE j \in 1..N
  <2>1. Order[j] = [op |-> "RootActivate", anchor |-> j] /\ j - 1 \in 0..N /\ j \in 0..N
    <3>1. Order[j] = [op |-> "RootActivate", anchor |-> j] BY <1>5, OrderIs
    <3>2. QED BY <1>0, <1>5, <3>1
  <2>2. /\ Replayed(c, j - 1).active = c.active \cup UpTo(On(c), j - 1)
        /\ Replayed(c, j).active = c.active \cup UpTo(On(c), j)
    BY <2>1, ReplaySeams
  <2>3. CASE j \in On(c)
    <3>1. Order[j] \in G BY <2>1, <2>3, GroupsAre
    <3>2. UpTo(On(c), j) = UpTo(On(c), j - 1) \cup {j} /\ j \notin UpTo(On(c), j - 1)
      BY <1>1, <1>5, <2>3, UpToStep
    <3>3. UpTo(On(c), j - 1) \in SUBSET On(c) BY DEF UpTo
    <3>4. /\ ValidShape(c, c.active \cup UpTo(On(c), j - 1), G, Order[j])
          /\ Project(c.active \cup UpTo(On(c), j - 1), Order[j]) = c.active \cup UpTo(On(c), j)
      <4> DEFINE D == UpTo(On(c), j - 1)
      <4>1. D \in SUBSET On(c) /\ j \notin D BY <3>2, <3>3
      <4>2. UpTo(On(c), j) = D \cup {j} BY <3>2
      <4> HIDE DEF D
      <4>3. /\ ValidShape(c, c.active \cup D, G, Order[j])
            /\ Project(c.active \cup D, Order[j]) = c.active \cup (D \cup {j})
        BY <2>1, <2>3, <4>1, ReplayRoot
      <4>4. QED BY <4>2, <4>3 DEF D
    <3>5. Replayed(c, j) = Replays(c, G, Replayed(c, j - 1), Order[j]) BY <1>3, <2>2, <3>4
    <3>6. QED BY <3>1, <3>5
  <2>4. CASE j \notin On(c)
    <3>1. Order[j] \notin G BY <2>1, <2>4, GroupsAre
    <3>2. UpTo(On(c), j) = UpTo(On(c), j - 1) BY <1>1, <1>5, <2>4, UpToStep
    <3>3. Replayed(c, j) = Replayed(c, j - 1) BY <1>4, <2>2, <3>2
    <3>4. QED BY <3>1, <3>3
  <2>5. QED BY <2>3, <2>4
<1>6. CASE \E i \in 1..N : j = N + i
  <2>0. PICK i \in 1..N : j = N + i BY <1>6
  <2> DEFINE n == N + 1 - i
             S == SplitNodes(c)
  <2>1. /\ Order[j] = [op |-> "Split", anchor |-> n] /\ i - 1 \in 0..N /\ i \in 0..N
        /\ j - 1 = N + (i - 1) /\ n \in Node
    <3>1. Order[j] = [op |-> "Split", anchor |-> n] BY <2>0, OrderIs
    <3>2. QED BY <1>0, <2>0, <3>1 DEF Node
  <2>2. /\ Replayed(c, j - 1).active = Spread(c, DownTo(S, i - 1))
        /\ Replayed(c, j).active = Spread(c, DownTo(S, i))
    BY <2>0, <2>1, ReplaySeams
  <2>3. /\ n \in S => DownTo(S, i) = DownTo(S, i - 1) \cup {n}
        /\ n \notin S => DownTo(S, i) = DownTo(S, i - 1)
        /\ \A m \in Node : m \in DownTo(S, i - 1) <=> m \in S /\ n < m
    BY <1>1, <2>1, DownToStep
  <2> HIDE DEF n
  <2>4. CASE n \in S
    <3>1. Order[j] \in G BY <2>1, <2>4, GroupsAre
    <3>2. DownTo(S, i - 1) = {m \in S : n < m}
      <4>1. DownTo(S, i - 1) \subseteq S BY DEF DownTo
      <4>2. QED BY <1>1, <2>3, <4>1
    <3>3. /\ ValidShape(c, Spread(c, DownTo(S, i - 1)), G, Order[j])
          /\ Project(Spread(c, DownTo(S, i - 1)), Order[j]) = Spread(c, DownTo(S, i))
      <4> DEFINE P == DownTo(S, i - 1)
      <4>1. P = {m \in SplitNodes(c) : n < m} /\ n \in SplitNodes(c) BY <2>4, <3>2
      <4>2. DownTo(S, i) = P \cup {n} BY <2>3, <2>4
      <4> HIDE DEF P
      <4>3. /\ ValidShape(c, Spread(c, P), G, Order[j])
            /\ Project(Spread(c, P), Order[j]) = Spread(c, P \cup {n})
        BY <2>1, <4>1, ReplaySplit
      <4>4. QED BY <4>2, <4>3 DEF P
    <3>4. Replayed(c, j) = Replays(c, G, Replayed(c, j - 1), Order[j]) BY <1>3, <2>2, <3>3
    <3>5. QED BY <3>1, <3>4
  <2>5. CASE n \notin S
    <3>1. Order[j] \notin G BY <2>1, <2>5, GroupsAre
    <3>2. Replayed(c, j) = Replayed(c, j - 1) BY <1>4, <2>2, <2>3, <2>5
    <3>3. QED BY <3>1, <3>2
  <2>6. QED BY <2>4, <2>5
<1>7. CASE \E i \in 1..N : j = N + N + i
  <2>0. PICK i \in 1..N : j = N + N + i BY <1>7
  <2> DEFINE S == Joining(c)
  <2>1. /\ Order[j] = [op |-> "Join", anchor |-> i] /\ i - 1 \in 0..N /\ i \in 0..N
        /\ j - 1 = N + N + (i - 1)
    <3>1. Order[j] = [op |-> "Join", anchor |-> i] BY <2>0, OrderIs
    <3>2. QED BY <1>0, <2>0, <3>1
  <2>2. /\ Replayed(c, j - 1).active = Gathered(c, UpTo(S, i - 1))
        /\ Replayed(c, j).active = Gathered(c, UpTo(S, i))
    BY <2>0, <2>1, ReplaySeams
  <2>3. CASE i \in S
    <3>1. Order[j] \in G BY <2>1, <2>3, GroupsAre
    <3>2. UpTo(S, i) = UpTo(S, i - 1) \cup {i} BY <1>1, <2>3, UpToStep
    <3>3. UpTo(S, i - 1) = {m \in S : m < i}
      <4>1. \A m \in S : m <= i - 1 <=> m < i BY <1>1, <1>0 DEF Node
      <4>2. QED BY <4>1 DEF UpTo
    <3>4. /\ ValidShape(c, Gathered(c, UpTo(S, i - 1)), G, Order[j])
          /\ Project(Gathered(c, UpTo(S, i - 1)), Order[j]) = Gathered(c, UpTo(S, i))
      BY <2>1, <2>3, <3>2, <3>3, ReplayJoin
    <3>5. Replayed(c, j) = Replays(c, G, Replayed(c, j - 1), Order[j]) BY <1>3, <2>2, <3>4
    <3>6. QED BY <3>1, <3>5
  <2>4. CASE i \notin S
    <3>1. Order[j] \notin G BY <2>1, <2>4, GroupsAre
    <3>2. UpTo(S, i) = UpTo(S, i - 1) BY <1>1, <2>4, UpToStep
    <3>3. Replayed(c, j) = Replayed(c, j - 1) BY <1>4, <2>2, <3>2
    <3>4. QED BY <3>1, <3>3
  <2>5. QED BY <2>3, <2>4
<1>8. CASE \E i \in 1..N : j = N + N + N + i
  <2>0. PICK i \in 1..N : j = N + N + N + i BY <1>8
  <2> DEFINE S == Leaving(c)
             W == Gathered(c, Joining(c))
  <2>1. /\ Order[j] = [op |-> "RootDeactivate", anchor |-> i] /\ i - 1 \in 0..N /\ i \in 0..N
        /\ j - 1 = N + N + N + (i - 1)
    <3>1. Order[j] = [op |-> "RootDeactivate", anchor |-> i] BY <2>0, OrderIs
    <3>2. QED BY <1>0, <2>0, <3>1
  <2>2. /\ Replayed(c, j - 1).active = W \ UpTo(S, i - 1)
        /\ Replayed(c, j).active = W \ UpTo(S, i)
    BY <2>0, <2>1, ReplaySeams
  <2>3. CASE i \in S
    <3>1. Order[j] \in G BY <2>1, <2>3, GroupsAre
    <3>2. UpTo(S, i) = UpTo(S, i - 1) \cup {i} /\ i \notin UpTo(S, i - 1) BY <1>1, <2>3, UpToStep
    <3>3. UpTo(S, i - 1) \in SUBSET S BY DEF UpTo
    <3>4. /\ ValidShape(c, W \ UpTo(S, i - 1), G, Order[j])
          /\ Project(W \ UpTo(S, i - 1), Order[j]) = W \ UpTo(S, i)
      BY <2>1, <2>3, <3>2, <3>3, ReplayOff
    <3>5. Replayed(c, j) = Replays(c, G, Replayed(c, j - 1), Order[j]) BY <1>3, <2>2, <3>4
    <3>6. QED BY <3>1, <3>5
  <2>4. CASE i \notin S
    <3>1. Order[j] \notin G BY <2>1, <2>4, GroupsAre
    <3>2. UpTo(S, i) = UpTo(S, i - 1) BY <1>1, <2>4, UpToStep
    <3>3. Replayed(c, j) = Replayed(c, j - 1) BY <1>4, <2>2, <3>2
    <3>4. QED BY <3>1, <3>3
  <2>5. QED BY <2>3, <2>4
<1>9. \/ j \in 1..N \/ j - N \in 1..N \/ j - (N + N) \in 1..N \/ j - (N + N + N) \in 1..N
  BY <1>0
<1>10. /\ j = N + (j - N) /\ j = N + N + (j - (N + N)) /\ j = N + N + N + (j - (N + N + N))
  BY <1>0
<1>11. QED BY <1>5, <1>6, <1>7, <1>8, <1>9, <1>10

\* The replay of a draft's groups finds each of them possible and shows what
\* the draft has.
LEMMA ReplayIs ==
    ASSUME NEW c, FrontierOK(c)
    PROVE  Replay(c, Groups(c)) = [active |-> Divided(c) \ Retired(c), valid |-> TRUE]
<1> DEFINE A(i) == Replayed(c, i)
           Step(s, g) == Replays(c, Groups(c), s, g)
           d0 == [active |-> c.active, valid |-> TRUE]
           S == Groups(c)
           M == NodeCount + NodeCount + NodeCount + NodeCount
<1>0. M \in Nat /\ Len(Order) = M /\ NodeCount \in Nat BY OrderIs
<1>1. A(0) = d0
  <2>1. Replayed(c, 0).active = c.active BY ReplaySeams
  <2>2. Replayed(c, 0) = [active |-> Replayed(c, 0).active, valid |-> TRUE] BY DEF Replayed
  <2>3. QED BY <2>1, <2>2
<1>2. A(M).active = Divided(c) \ Retired(c)
  <2>1. NodeCount \in 0..NodeCount BY <1>0
  <2>2. A(M).active = Gathered(c, Joining(c)) \ UpTo(Leaving(c), NodeCount) BY <2>1, ReplaySeams
  <2>3. Leaving(c) \in SUBSET Node
    <3>1. Roots \subseteq Node BY DEF Roots
    <3>2. QED BY <3>1, RootedIs DEF Leaving, Retired
  <2>4. UpTo(Leaving(c), NodeCount) = Leaving(c) BY <2>3, UpToStep
  <2>5. QED BY <2>2, <2>4, ReplayEnd
<1>3. A(M) = [active |-> A(M).active, valid |-> TRUE] BY DEF Replayed
<1>4. \A j \in 1..M : A(j) = IF Order[j] \in S THEN Step(A(j - 1), Order[j]) ELSE A(j - 1)
  BY ReplayStep
<1> DEFINE Walks(f) == f = [i \in 0..Len(Order) |->
                             IF i = 0 THEN d0
                             ELSE IF Order[i] \in S THEN Step(f[i - 1], Order[i])
                             ELSE f[i - 1]]
           g == [i \in 0..M |-> A(i)]
<1>5. Replay(c, Groups(c)) = (CHOOSE f : Walks(f))[M]
  BY <1>0 DEF Replay, Pass, Replays
<1> HIDE DEF A, Step, d0, S, M
<1>6. \A i \in 1..M : i # 0 /\ i \in 0..M /\ i - 1 \in 0..M BY <1>0
<1>7. Walks(g)
  <2>1. \A i \in 0..M : i = 0 \/ i \in 1..M BY <1>0
  <2>2. \A i \in 0..M :
           A(i) = IF i = 0 THEN d0
                  ELSE IF Order[i] \in S THEN Step(g[i - 1], Order[i]) ELSE g[i - 1]
    BY <1>1, <1>4, <1>6, <2>1
  <2>3. QED BY <1>0, <2>2
<1>8. ASSUME NEW f, Walks(f) PROVE f[M] = A(M)
  <2>0. 0 \in 0..M /\ M \in 0..M BY <1>0
  <2>1. f[0] = g[0] BY <1>0, <1>1, <1>8, <2>0
  <2>2. ASSUME NEW i \in 1..M, f[i - 1] = g[i - 1] PROVE f[i] = g[i]
    BY <1>0, <1>4, <1>6, <1>8, <2>2
  <2>3. g[M] = A(M) BY <2>0
  <2> HIDE DEF g
  <2>4. \A i \in 0..M : f[i] = g[i]
    <3> HIDE DEF Walks
    <3>1. M \in Nat BY <1>0
    <3>2. QED BY <2>1, <2>2, <3>1, SameWalk
  <2>5. QED BY <2>0, <2>3, <2>4
<1>9. (CHOOSE f : Walks(f))[M] = A(M)
  <2> HIDE DEF Walks
  <2>1. QED BY <1>7, <1>8
<1>10. QED BY <1>2, <1>3, <1>5, <1>9

\* What a reconciliation of such a frontier publishes.
LEMMA ReconcileIs ==
    ASSUME NEW c, FrontierOK(c), NEW touched, SeenAll(c, UNION {Path[n] : n \in touched})
    PROVE  Reconcile(c, touched) = [groups |-> Groups(c), active |-> Shown(c), valid |-> TRUE]
<1>1. Draft(c, touched).groups = Groups(c)
  <2>1. Draft(c, touched) = [active |-> Divided(c) \ Retired(c), groups |-> Groups(c)] BY DraftIs
  <2>2. QED BY <2>1
<1>2. Replay(c, Groups(c)).active = Shown(c) /\ Replay(c, Groups(c)).valid = TRUE
  <2>1. Replay(c, Groups(c)) = [active |-> Divided(c) \ Retired(c), valid |-> TRUE] BY ReplayIs
  <2>2. QED BY <2>1, DraftIsIdeal
<1>3. QED BY <1>1, <1>2 DEF Reconcile

----------------------------------------------------------------------------
(* The ideal frontier *)

\* A set of nodes has a finest one.
LEMMA FinestNode ==
    ASSUME NEW S \in SUBSET Node, S # {}
    PROVE  \E n \in S : \A m \in S : ~(m < n)
<1>1. S \in SUBSET Nat BY DEF Node
<1>2. PICK n \in S : \A m \in S : ~(<<m, n>> \in OpToRel(<, Nat))
  BY <1>1, NatLessThanWellFounded, WFMin
<1>3. ASSUME NEW m \in S, m < n PROVE FALSE
  <2>1. <<m, n>> \in OpToRel(<, Nat) BY <1>1, <1>3 DEF OpToRel
  <2>2. QED BY <1>2, <2>1
<1>4. QED BY <1>3

\* The viewer's demand and what is kept are closed upwards.
DemandOK ==
    /\ load \subseteq resident
    /\ \A n \in load : Path[n] \subseteq load
    /\ \A n \in resident : Path[n] \subseteq resident

\* The nodes of the ideal frontier are apart, and all above them has been
\* accepted and splits.
LEMMA IdealIs ==
    ASSUME TypeOK, DemandOK
    PROVE  /\ Ideal \in SUBSET Node /\ Ideal \subseteq load /\ Apart(Ideal)
           /\ \A n \in Ideal \cup Inner(Ideal) : n \in Node /\ accepted[n] # 0
           /\ \A n \in Inner(Ideal) : Splits(n)
<1>1. Ideal \in SUBSET Node /\ Ideal \subseteq load BY DEF Ideal, TypeOK
<1>2. \A x \in Ideal : /\ x \in Node /\ x \in load /\ accepted[RootOf[x]] # 0 /\ ~Splits(x)
                       /\ \A m \in Path[x] : m # x => Splits(m)
  BY <1>1 DEF Ideal
<1>3. Apart(Ideal)
  <2>1. \A x \in Ideal : x \in Path[x] BY <1>1, PathAbove
  <2>2. QED BY <1>2, <2>1 DEF Apart
<1>4. ASSUME NEW x \in Ideal, NEW n \in Path[x] PROVE accepted[n] # 0 /\ n \in Node
  <2>1. n \in Node /\ x \in Node BY <1>2, PathAbove
  <2>2. Path[n] = {n} \cup (IF Parent[n] = 0 THEN {} ELSE Path[Parent[n]]) BY <2>1, PathIs
  <2>3. CASE Parent[n] = 0
    <3>1. n \in Roots BY <2>1, <2>3 DEF Roots
    <3>2. n = RootOf[x] BY <2>1, <3>1, PathHasRoot
    <3>3. QED BY <1>2, <2>1, <3>2
  <2>4. CASE Parent[n] # 0
    <3>1. Parent[n] \in Node /\ n \in Children[Parent[n]] BY <2>1, <2>4, TreeAssumption DEF Children
    <3>2. Parent[n] \in Path[n] /\ Parent[n] # n BY <2>2, <2>4, <3>1, ChildPath, PathAbove
    <3>3. Parent[n] \in Path[x] /\ Parent[n] # x BY <2>1, <3>2, PathWithin, PathOrder
    <3>4. Splits(Parent[n]) BY <1>2, <3>3
    <3>5. QED BY <2>1, <3>1, <3>4 DEF Splits
  <2>5. QED BY <2>3, <2>4
<1>5. ASSUME NEW n \in Inner(Ideal) PROVE n \in Node /\ accepted[n] # 0 /\ Splits(n)
  <2>1. n \in Node /\ n \notin Ideal BY DEF Inner
  <2>2. PICK x \in Ideal : x \in Branch[n] BY DEF Inner
  <2>3. n \in Path[x] /\ n # x BY <2>1, <2>2, InBranch
  <2>4. QED BY <1>2, <1>4, <2>3
<1>6. \A n \in Ideal : n \in Path[n] BY <1>1, PathAbove
<1>7. QED BY <1>1, <1>3, <1>4, <1>5, <1>6

\* Below a demanded node that all above makes room for, something is ideal.
LEMMA IdealCovers ==
    ASSUME TypeOK, DemandOK, NEW n \in load, accepted[RootOf[n]] # 0,
           \A m \in Path[n] : m # n => Splits(m)
    PROVE  Branch[n] \cap Ideal # {}
<1>0. load \subseteq Node /\ n \in Node BY DEF TypeOK
<1> DEFINE T == {x \in Node : /\ x \in load /\ n \in Path[x]
                             /\ \A m \in Path[x] : m # x => Splits(m)}
<1>1. n \in T BY <1>0, PathAbove
<1>2. PICK x \in T : \A m \in T : ~(m < x)
  <2>1. T \in SUBSET Node /\ T # {} BY <1>1
  <2> HIDE DEF T
  <2>2. QED BY <2>1, FinestNode
<1>3. ~Splits(x)
  <2>1. SUFFICES ASSUME Splits(x) PROVE FALSE OBVIOUS
  <2>2. PICK k \in Children[x] : k \in load BY <2>1 DEF Splits, IsSplitDemanded
  <2>3. k \in Node /\ k < x /\ Path[k] = {k} \cup Path[x] BY <2>2, ChildPath
  <2>4. k \in T BY <1>2, <2>1, <2>2, <2>3
  <2>5. QED BY <1>2, <2>3, <2>4
<1>4. RootOf[n] = RootOf[x] BY <1>2, RootOfPath
<1>5. x \in Ideal BY <1>2, <1>3, <1>4 DEF Ideal
<1>6. x \in Branch[n] BY <1>0, <1>2, InBranch
<1>7. QED BY <1>5, <1>6

----------------------------------------------------------------------------
(* The strengthening of FrontierIsIdeal *)

\* Entries with a mesh or a request have a revision, a mesh has its data, and
\* what is pending has its mesh.
MeshedOK == \A n \in Node :
    /\ (mesh[n].applied # 0 \/ mesh[n].request # 0) => mesh[n].requested # 0
    /\ mesh[n].applied # 0 => n \in halo
    /\ n \in pending \cap resident => mesh[n].applied # 0

\* What has been accepted is resident and has that mesh, or a later one that
\* waits to be accepted; and its root has one.
AcceptedOK == \A n \in Node : accepted[n] # 0 =>
    /\ n \in resident /\ mesh[n].applied # 0 /\ mesh[RootOf[n]].applied # 0
    /\ mesh[n].applied = accepted[n] \/ n \in pending

\* Between two ticks only finer meshes wait, for their root.
PendingOK == ~ticking => \A n \in pending : n \notin resident \/ IsDeferred(n)

\* The inductive strengthening of FrontierIsIdeal, TickNeverRefused and
\* ActiveIsMeshed, together with IInv.
PlanOK == DemandOK /\ MeshedOK /\ AcceptedOK /\ PendingOK /\ FrontierIsIdeal /\ ~refused

\* At rest, what has no children there is ideal.
LEMMA InitPlanOK == Init => PlanOK
<1> SUFFICES ASSUME NEW l \in Scenes, Scene(l) PROVE PlanOK BY DEF Init
<1>1. /\ l \in Views /\ l \subseteq Node /\ \A n \in l : Path[n] \subseteq l
      /\ \A n \in Node : Children[n] \cap l = {} \/ Children[n] \subseteq l
  <2>1. l \in Views BY ViewsAssumption
  <2>2. \A n \in Node : Children[n] \cap l \in {{}, Children[n]} BY <2>1, ViewsAssumption
  <2>3. QED BY <2>1, <2>2, ViewsAssumption
<1>2. /\ load = l /\ resident = l /\ halo = l /\ pending = {} /\ ~refused
      /\ active = {n \in l : Children[n] \cap l = {}}
      /\ \A n \in Node : accepted[n] = IF n \in l THEN 1 ELSE 0
      /\ \A n \in Node : mesh[n] = IF n \in l THEN Settled ELSE Vacant
  BY DEF Scene
<1>3. DemandOK BY <1>1, <1>2 DEF DemandOK
<1>4. /\ Settled.applied = 1 /\ Settled.requested = 1
      /\ Vacant.applied = 0 /\ Vacant.request = 0
  BY DEF Settled, Vacant
<1>5. MeshedOK BY <1>2, <1>4 DEF MeshedOK
<1>6. \A n \in l : RootOf[n] \in l /\ RootOf[n] \in Node BY <1>1, PathHasRoot
<1>7. AcceptedOK BY <1>1, <1>2, <1>4, <1>6 DEF AcceptedOK
<1>8. \A n \in Node : Splits(n) <=> n \in l /\ Children[n] \cap l # {}
  <2>1. \A n \in Node : Children[n] \subseteq Node BY DEF Children
  <2>2. QED BY <1>1, <1>2, <2>1 DEF Splits, IsSplitDemanded
<1>9. ASSUME NEW n \in l, NEW m \in Path[n], m # n PROVE Splits(m)
  <2>1. n \in Node /\ m \in l /\ m \in Node BY <1>1, <1>9
  <2>2. PICK k \in Children[m] : k \in Path[n] BY <1>9, <2>1, PathThroughChild
  <2>3. QED BY <1>1, <1>8, <2>1, <2>2
<1>10. active = Ideal
  <2>1. \A n \in l : accepted[RootOf[n]] # 0 BY <1>2, <1>6
  <2>2. \A n \in l : n \in Node BY <1>1
  <2>3. QED BY <1>2, <1>8, <1>9, <2>1, <2>2 DEF Ideal
<1>11. QED BY <1>2, <1>3, <1>5, <1>7, <1>10 DEF PlanOK, PendingOK, FrontierIsIdeal

----------------------------------------------------------------------------
(* Answers and edits *)

\* A step that leaves demand, coverage and meshes alone.
LEMMA QuietStep ==
    ASSUME IInv, PlanOK, UNCHANGED <<load, resident, accepted, active, pending, refused>>,
           halo \subseteq halo',
           \A n \in Node : /\ mesh'[n].applied = mesh[n].applied
                           /\ mesh'[n].applied # 0 \/ mesh'[n].request # 0 => mesh'[n].requested # 0,
           pending = {} \/ ticking' \/ ticking' = ticking
    PROVE  PlanOK'
<1>1. DemandOK' BY DEF PlanOK, DemandOK
<1>2. MeshedOK' BY DEF PlanOK, MeshedOK
<1>3. \A n \in Node : RootOf[n] \in Node BY PathHasRoot, PathAbove
<1>4. AcceptedOK' BY <1>3 DEF PlanOK, AcceptedOK
<1>5. Ideal' = Ideal BY DEF Ideal, Splits
<1>6. FrontierIsIdeal' BY <1>5 DEF PlanOK, FrontierIsIdeal
<1>7. PendingOK'
  <2>1. SUFFICES ASSUME ~ticking', NEW n \in pending PROVE n \notin resident \/ IsDeferred(n)'
    BY DEF PendingOK
  <2>2. n \notin resident \/ IsDeferred(n) BY <2>1 DEF PlanOK, PendingOK
  <2>3. n \in Node BY DEF IInv, TypeOK
  <2>4. mesh'[RootOf[n]].applied = mesh[RootOf[n]].applied BY <1>3, <2>3
  <2>5. QED BY <2>2, <2>4 DEF IsDeferred
<1>8. QED BY <1>1, <1>2, <1>4, <1>6, <1>7 DEF PlanOK

\* A loaded block changes no mesh.
LEMMA LoadKeepsPlan ==
    ASSUME IInv, PlanOK, NEW n \in Node, LoadEnds(n)
    PROVE  PlanOK'
<1>1. mesh[n] \in Entry /\ Fresh(n) \in Nat \ {0} BY FreshIsNobodys DEF IInv, TypeOK
<1>2. mesh'[n] = Arrived(mesh[n], Fresh(n)) BY DEF LoadEnds, IInv, TypeOK
<1>3. mesh'[n].applied = mesh[n].applied /\ mesh'[n].requested # 0
  BY <1>1, <1>2 DEF Arrived, Entry, PlanOK, MeshedOK
<1>4. \A k \in Node : k # n => mesh'[k] = mesh[k] BY DEF LoadEnds, IInv, TypeOK
<1>5. \A k \in Node : /\ mesh'[k].applied = mesh[k].applied
                      /\ mesh'[k].applied # 0 \/ mesh'[k].request # 0 => mesh'[k].requested # 0
  BY <1>3, <1>4 DEF PlanOK, MeshedOK
<1>6. /\ UNCHANGED <<load, resident, accepted, active, pending, refused>>
      /\ halo \subseteq halo' /\ ticking'
  BY DEF LoadEnds
<1>7. QED BY <1>5, <1>6, QuietStep

\* A mesh that is let through has a revision and its data, and waits to be accepted.
LEMMA MeshKeepsPlan ==
    ASSUME IInv, PlanOK, NEW t \in tasks, MeshEnds(t)
    PROVE  PlanOK'
<1>1. CASE ~IsCurrent(t)
  <2>1. /\ UNCHANGED <<load, resident, accepted, active, pending, refused>>
        /\ mesh' = mesh /\ halo \subseteq halo' /\ ticking'
    BY <1>1 DEF MeshEnds
  <2>2. \A k \in Node : /\ mesh'[k].applied = mesh[k].applied
                        /\ mesh'[k].applied # 0 \/ mesh'[k].request # 0 => mesh'[k].requested # 0
    BY <2>1 DEF PlanOK, MeshedOK
  <2>3. QED BY <2>1, <2>2, QuietStep
<1>2. CASE IsCurrent(t)
  <2> DEFINE b == t.node
  <2>1. b \in Node /\ b \in resident /\ b \in halo /\ t.request # 0 /\ t \in Task
    BY <1>2, CurrentIsResident DEF IInv, TypeOK, Task
  <2>2. mesh[b].requested = t.revision /\ mesh[b].request = t.request BY <1>2 DEF IsCurrent
  <2>3. t.revision # 0 BY <2>1, <2>2 DEF PlanOK, MeshedOK
  <2>4. /\ mesh' = [mesh EXCEPT ![b] = [@ EXCEPT !.applied = t.revision, !.request = 0, !.current = t.current]]
        /\ pending' = pending \cup {b}
        /\ UNCHANGED <<load, resident, accepted, active, halo, refused>> /\ ticking' = TRUE
    BY <1>2 DEF MeshEnds
  <2>5. mesh \in [Node -> Entry] BY DEF IInv, TypeOK
  <2>6. /\ mesh'[b].applied = t.revision /\ mesh'[b].requested = t.revision
        /\ \A k \in Node : k # b => mesh'[k] = mesh[k]
    BY <2>1, <2>2, <2>4, <2>5 DEF Entry
  <2> HIDE DEF b
  <2>7. DemandOK' BY <2>4 DEF PlanOK, DemandOK
  <2>8. MeshedOK' BY <2>1, <2>3, <2>4, <2>6 DEF PlanOK, MeshedOK
  <2>9. \A n \in Node : RootOf[n] \in Node BY PathHasRoot, PathAbove
  <2>10. AcceptedOK' BY <2>1, <2>3, <2>4, <2>6, <2>9 DEF PlanOK, AcceptedOK
  <2>11. Ideal' = Ideal BY <2>4 DEF Ideal, Splits
  <2>12. QED BY <2>4, <2>7, <2>8, <2>10, <2>11 DEF PlanOK, PendingOK, FrontierIsIdeal
<1>3. QED BY <1>1, <1>2

\* A refused mesh leaves the one that is there.
LEMMA RefusedKeepsPlan ==
    ASSUME IInv, PlanOK, NEW t \in tasks, MeshRefused(t)
    PROVE  PlanOK'
<1>1. t.node \in Node /\ t.request # 0 /\ mesh \in [Node -> Entry] BY DEF IInv, TypeOK, Task
<1>2. \A k \in Node : /\ mesh'[k].applied = mesh[k].applied
                      /\ mesh'[k].applied # 0 \/ mesh'[k].request # 0 => mesh'[k].requested # 0
  <2>1. CASE ~(IsCurrent(t) /\ ~mesh[t.node].queued) BY <2>1 DEF MeshRefused, PlanOK, MeshedOK
  <2>2. CASE IsCurrent(t) /\ ~mesh[t.node].queued
    <3>1. mesh' = [mesh EXCEPT ![t.node] = [@ EXCEPT !.request = Fresh(t.node), !.queued = TRUE]]
      BY <2>2 DEF MeshRefused
    <3>2. mesh[t.node].requested # 0 BY <1>1, <2>2 DEF IsCurrent, PlanOK, MeshedOK
    <3>3. /\ mesh'[t.node].applied = mesh[t.node].applied
          /\ mesh'[t.node].requested = mesh[t.node].requested
          /\ \A k \in Node : k # t.node => mesh'[k] = mesh[k]
      BY <1>1, <3>1 DEF Entry
    <3>4. QED BY <3>2, <3>3 DEF PlanOK, MeshedOK
  <2>3. QED BY <2>1, <2>2
<1>3. /\ UNCHANGED <<load, resident, accepted, active, pending, refused>>
      /\ halo \subseteq halo' /\ ticking'
  BY DEF MeshRefused
<1>4. QED BY <1>2, <1>3, QuietStep

\* So does an edit.
LEMMA EditKeepsPlan ==
    ASSUME IInv, PlanOK, NEW n \in Node, Edit(n)
    PROVE  PlanOK'
<1>1. \A k \in Node : Fresh(k) \in Nat \ {0} /\ mesh[k] \in Entry
  BY FreshIsNobodys DEF IInv, TypeOK
<1>2. ASSUME NEW k \in Node
      PROVE  /\ mesh'[k].applied = mesh[k].applied
             /\ mesh'[k].applied # 0 \/ mesh'[k].request # 0 => mesh'[k].requested # 0
  <2>1. mesh'[k] = IF k \in Path[n] \cap resident THEN Edited(mesh[k], Fresh(k)) ELSE mesh[k]
    BY DEF Edit
  <2>2. CASE k \in Path[n] \cap resident
    <3>1. mesh'[k] = Edited(mesh[k], Fresh(k)) BY <2>1, <2>2
    <3>2. mesh'[k].applied = mesh[k].applied /\ mesh'[k].requested = Fresh(k)
      BY <1>1, <3>1 DEF Edited, Entry
    <3>3. QED BY <1>1, <3>2
  <2>3. CASE k \notin Path[n] \cap resident BY <2>1, <2>3 DEF PlanOK, MeshedOK
  <2>4. QED BY <2>2, <2>3
<1>3. /\ UNCHANGED <<load, resident, accepted, active, pending, refused, ticking>>
      /\ halo \subseteq halo'
  BY DEF Edit
<1>4. QED BY <1>2, <1>3, QuietStep

\* Handing a mesh out changes nothing of its entry but the queue.
LEMMA PublishKeeps ==
    ASSUME NEW m \in [Node -> Entry], NEW present, Publish(m, present)
    PROVE  \A n \in Node : /\ mesh'[n].applied = m[n].applied
                           /\ mesh'[n].requested = m[n].requested /\ mesh'[n].request = m[n].request
<1>1. \A n \in Node : mesh'[n] = IF Goes(m[n], n, present) THEN [m[n] EXCEPT !.queued = FALSE] ELSE m[n]
  BY DEF Publish
<1>2. \A n \in Node : m[n] \in Entry OBVIOUS
<1>3. QED BY <1>1, <1>2 DEF Entry

\* And a tick without a plan.
LEMMA SkipKeepsPlan ==
    ASSUME IInv, PlanOK, SkipPlan
    PROVE  PlanOK'
<1>1. /\ mesh \in [Node -> Entry] /\ Publish(mesh, halo) /\ pending = {}
      /\ UNCHANGED <<load, resident, accepted, active, pending, refused>>
  BY DEF IInv, TypeOK, SkipPlan
<1>2. \A n \in Node : /\ mesh'[n].applied = mesh[n].applied
                      /\ mesh'[n].applied # 0 \/ mesh'[n].request # 0 => mesh'[n].requested # 0
  <2>1. \A n \in Node : /\ mesh'[n].applied = mesh[n].applied
                        /\ mesh'[n].requested = mesh[n].requested /\ mesh'[n].request = mesh[n].request
    BY <1>1, PublishKeeps
  <2>2. QED BY <2>1 DEF PlanOK, MeshedOK
<1>3. halo \subseteq halo' BY <1>1 DEF Publish
<1>4. QED BY <1>1, <1>2, <1>3, QuietStep

----------------------------------------------------------------------------
(* The planner *)

\* The mesh pass of the planner gives no mesh up, and a revision to what it requests.
LEMMA PlannedKeeps ==
    ASSUME NEW e \in Entry, NEW w \in BOOLEAN, NEW i \in Nat \ {0},
           e.applied # 0 \/ e.request # 0 => e.requested # 0
    PROVE  LET p == Planned(e, w, i) IN
           /\ p.applied = e.applied
           /\ p.applied # 0 \/ p.request # 0 => p.requested # 0
<1> USE DEF Entry
<1>1. CASE ~w \/ e.applied # 0 BY <1>1 DEF Planned
<1>2. CASE ~(~w \/ e.applied # 0) /\ e.requested = 0 BY <1>2 DEF Planned
<1>3. CASE ~(~w \/ e.applied # 0) /\ e.requested # 0 /\ ~e.queued /\ e.request # 0 BY <1>3 DEF Planned
<1>4. CASE ~(~w \/ e.applied # 0) /\ e.requested # 0 /\ ~(~e.queued /\ e.request # 0) BY <1>4 DEF Planned
<1>5. QED BY <1>1, <1>2, <1>3, <1>4

\* What has been accepted or is about to be has a mesh, and its root too.
LEMMA NextAcceptedIs ==
    ASSUME IInv, PlanOK, NEW n \in Node
    PROVE  /\ accepted[n] # 0 => NextAccepted(n) # 0
           /\ NextAccepted(n) # 0 =>
                 /\ n \in resident /\ n \in halo
                 /\ mesh[n].applied # 0 /\ mesh[n].applied = NextAccepted(n)
                 /\ mesh[RootOf[n]].applied # 0
           /\ NextAccepted(n) # 0 /\ accepted[n] = 0 => n \in pending /\ IsAccepted(n)
<1>1. CASE IsAccepted(n)
  <2>1. NextAccepted(n) = mesh[n].applied BY <1>1 DEF NextAccepted
  <2>2. n \in pending /\ n \in resident /\ mesh[n].applied # 0 /\ n \in halo
    BY <1>1 DEF IsAccepted, PlanOK, MeshedOK
  <2>3. mesh[RootOf[n]].applied # 0
    <3>1. CASE n \in Roots BY <2>2, <3>1, RootPath
    <3>2. CASE n \notin Roots BY <1>1, <3>2 DEF IsAccepted, IsDeferred
    <3>3. QED BY <3>1, <3>2
  <2>4. QED BY <1>1, <2>1, <2>2, <2>3
<1>2. CASE ~IsAccepted(n)
  <2>1. NextAccepted(n) = accepted[n] BY <1>2 DEF NextAccepted
  <2>2. SUFFICES ASSUME accepted[n] # 0
                 PROVE  /\ n \in resident /\ n \in halo
                        /\ mesh[n].applied # 0 /\ mesh[n].applied = accepted[n]
                        /\ mesh[RootOf[n]].applied # 0
    BY <2>1
  <2>3. /\ n \in resident /\ mesh[n].applied # 0 /\ mesh[RootOf[n]].applied # 0
        /\ mesh[n].applied = accepted[n] \/ n \in pending
    BY <2>2 DEF PlanOK, AcceptedOK
  <2>4. n \notin pending BY <1>2, <2>3 DEF IsAccepted, IsDeferred
  <2>5. n \in halo BY <2>3 DEF PlanOK, MeshedOK
  <2>6. QED BY <2>3, <2>4, <2>5
<1>3. QED BY <1>1, <1>2

\* A new demand, with what it keeps.
Demands(l, r) ==
    /\ l \in SUBSET Node /\ r \in SUBSET Node /\ l \subseteq r
    /\ \A n \in l : Path[n] \subseteq l
    /\ \A n \in r : Path[n] \subseteq r

\* The nodes from which the planner looks upwards.
Touched(l, r) == Changed(l, r) \cup {n \in pending : IsAccepted(n)}

\* The coverage of the planner is one that a reconciliation may be asked, and
\* the nodes with changes are on the paths it looks at.
LEMMA CoverageIs ==
    ASSUME IInv, PlanOK, NEW l, NEW r, Demands(l, r)
    PROVE  /\ FrontierOK(Coverage(l, r))
           /\ SeenAll(Coverage(l, r), UNION {Path[n] : n \in Touched(l, r)})
<1> DEFINE c == Coverage(l, r)
           anchors == UNION {Path[n] : n \in Touched(l, r)}
<1>0. TypeOK /\ DemandOK /\ active = Ideal BY DEF IInv, PlanOK, FrontierIsIdeal
<1>1. /\ c.load = l /\ c.resident = r /\ c.active = Ideal
      /\ c.ready = {n \in Node : NextAccepted(n) # 0}
  BY <1>0 DEF Coverage
<1>2. /\ Ideal \in SUBSET Node /\ Ideal \subseteq load /\ Apart(Ideal)
      /\ \A n \in Ideal \cup Inner(Ideal) : n \in Node /\ accepted[n] # 0
      /\ \A n \in Inner(Ideal) : Splits(n)
  BY <1>0, IdealIs
<1> HIDE DEF c
<1>3. \A n \in Node : accepted[n] # 0 => n \in c.ready BY <1>1, NextAcceptedIs
<1>4. ASSUME NEW m \in Inner(Ideal), NEW k \in Children[m] PROVE Branch[k] \cap Ideal # {}
  <2>1. m \in Node /\ m \notin Ideal /\ Splits(m) BY <1>2, <1>4 DEF Inner
  <2>2. PICK x \in Ideal : x \in Branch[m] BY <1>4 DEF Inner
  <2>3. x \in Node /\ m \in Path[x] /\ m # x BY <2>1, <2>2, InBranch
  <2>4. k \in Node /\ Path[k] = {k} \cup Path[m] BY <2>1, <1>4, ChildPath
  <2>5. k \in load BY <2>1, <1>4 DEF Splits, IsSplitDemanded
  <2>6. accepted[RootOf[k]] # 0
    <3>1. RootOf[k] = RootOf[m] /\ RootOf[m] = RootOf[x]
      <4>1. m \in Path[k] BY <2>1, <2>4, PathAbove
      <4>2. QED BY <2>3, <2>4, <4>1, RootOfPath
    <3>2. accepted[RootOf[x]] # 0 BY DEF Ideal
    <3>3. QED BY <3>1, <3>2
  <2>7. ASSUME NEW j \in Path[k], j # k PROVE Splits(j)
    <3>1. j \in Path[m] BY <2>4, <2>7
    <3>2. j \in Path[x] /\ j # x BY <2>3, <3>1, PathWithin, PathOrder
    <3>3. QED BY <3>2 DEF Ideal
  <2>8. QED BY <1>0, <2>5, <2>6, <2>7, IdealCovers
<1>5. FrontierOK(c)
  <2>1. \A n \in Ideal \cup Inner(Ideal) : n \in c.ready BY <1>2, <1>3
  <2>2. /\ c.active \subseteq Node /\ c.load \subseteq c.resident /\ c.resident \subseteq Node
        /\ c.ready \subseteq Node /\ \A n \in c.load : Path[n] \subseteq c.load
    BY <1>1, <1>2 DEF Demands
  <2>3. QED BY <1>1, <1>2, <1>4, <2>1, <2>2 DEF FrontierOK
<1>6. \A n \in Touched(l, r) : n \in Node /\ n \in Path[n] /\ n \in anchors
  <2>1. Touched(l, r) \subseteq Node BY <1>0 DEF Touched, Changed, TypeOK
  <2>2. QED BY <2>1, PathAbove
<1>7. anchors \subseteq Node
  <2>1. \A n \in Touched(l, r) : Path[n] \subseteq Node BY <1>6, PathAbove
  <2>2. QED BY <2>1
<1>8. \A n \in Node : /\ (n \in l) # (n \in load) => n \in Touched(l, r)
                      /\ IsSplitDemanded([load |-> load], n) # IsSplitDemanded(c, n) => n \in Touched(l, r)
  <2>1. \A n \in Node : IsSplitDemanded(c, n) = IsSplitDemanded([load |-> l], n)
    BY <1>1 DEF IsSplitDemanded
  <2>2. QED BY <2>1 DEF Touched, Changed
<1>9. \A n \in Node : n \in c.ready /\ accepted[n] = 0 => n \in Touched(l, r)
  BY <1>1, NextAcceptedIs DEF Touched
<1> HIDE DEF anchors
<1>10. Off(c) \subseteq anchors
  <2>1. ASSUME NEW n \in Off(c) PROVE n \in anchors
    <3>1. n \in Ideal /\ n \in Node /\ n \notin Fit(c) BY <1>1, <1>2 DEF Off
    <3>2. n \in c.ready /\ n \in load BY <1>2, <1>3, <3>1
    <3>3. n \notin l BY <1>1, <3>1, <3>2 DEF Fit
    <3>4. QED BY <1>6, <1>8, <3>1, <3>2, <3>3
  <2>2. QED BY <2>1
<1>11. On(c) \subseteq anchors
  <2>1. ASSUME NEW n \in On(c) PROVE n \in anchors
    <3>1. n \in Roots /\ n \in l /\ n \in c.ready /\ Branch[n] \cap Ideal = {} BY <1>1 DEF On, Fit
    <3>2. n \in Node /\ Path[n] = {n} /\ RootOf[n] = n BY <3>1, RootPath
    <3>3. ~(n \in load /\ accepted[n] # 0) BY <1>0, <3>1, <3>2, IdealCovers
    <3>4. QED BY <1>6, <1>8, <1>9, <3>1, <3>2, <3>3
  <2>2. QED BY <2>1
<1>12. Dead(c) \subseteq anchors
  <2>1. ASSUME NEW n \in Dead(c) PROVE n \in anchors
    <3>1. n \in Inner(Ideal) /\ ~IsSplitDemanded(c, n) BY <1>1 DEF Dead
    <3>2. n \in Node /\ IsSplitDemanded([load |-> load], n) BY <1>2, <3>1 DEF Splits
    <3>3. QED BY <1>6, <1>8, <3>1, <3>2
  <2>2. QED BY <2>1
<1>13. c.active \cap Splitting(c) \subseteq anchors
  <2>1. ASSUME NEW n \in Ideal, n \in Splitting(c) PROVE n \in anchors
    <3>1. n \in Node /\ IsSplitDemanded(c, n) /\ Children[n] \subseteq c.ready BY <2>1 DEF Splitting
    <3>2. ~Splits(n) BY DEF Ideal
    <3>3. CASE ~IsSplitDemanded([load |-> load], n) BY <1>6, <1>8, <3>1, <3>3
    <3>4. CASE \E k \in Children[n] : accepted[k] = 0
      <4>1. PICK k \in Children[n] : accepted[k] = 0 BY <3>4
      <4>2. k \in Node /\ Path[k] = {k} \cup Path[n] /\ n \in Path[n] BY <3>1, ChildPath, PathAbove
      <4>3. k \in Touched(l, r) BY <1>9, <3>1, <4>1, <4>2
      <4>4. QED BY <4>2, <4>3 DEF anchors
    <3>5. QED BY <3>2, <3>3, <3>4 DEF Splits
  <2>2. QED BY <1>1, <2>1
<1>14. SeenAll(c, anchors) BY <1>7, <1>10, <1>11, <1>12, <1>13 DEF SeenAll
<1>15. QED BY <1>5, <1>14 DEF c, anchors

\* What is shown after the plan is resident, wanted and meshed, and what joins
\* has its data.
LEMMA SliceHolds ==
    ASSUME IInv, PlanOK, NEW l, NEW r, Demands(l, r), NEW shadows
    PROVE  LET c == Coverage(l, r) IN
           /\ SliceIsSound(c, [groups |-> Groups(c), active |-> Shown(c), valid |-> TRUE], shadows)
           /\ Shown(c) \subseteq Node
<1> DEFINE c == Coverage(l, r)
           d == [groups |-> Groups(c), active |-> Shown(c), valid |-> TRUE]
<1>0. FrontierOK(c) BY CoverageIs
<1>1. c.load = l /\ c.resident = r /\ c.ready = {n \in Node : NextAccepted(n) # 0} BY DEF Coverage
<1>2. l \subseteq r /\ l \subseteq Node BY DEF Demands
<1> HIDE DEF c
<1>3. ASSUME NEW n \in Shown(c)
      PROVE  /\ n \in r /\ n \in l /\ n \in Node
             /\ mesh[n].applied # 0 /\ mesh[n].applied = NextAccepted(n)
  <2>1. n \in l /\ n \in r /\ n \in Node BY <1>1, <1>2 DEF Shown
  <2>2. n \in c.ready
    <3>1. Path[n] = {n} \cup (IF Parent[n] = 0 THEN {} ELSE Path[Parent[n]]) BY <2>1, PathIs
    <3>2. CASE Parent[n] = 0
      <4>1. n \in Roots BY <2>1, <3>2 DEF Roots
      <4>2. QED BY <4>1, RootPath DEF Shown
    <3>3. CASE Parent[n] # 0
      <4>1. Parent[n] \in Node /\ n \in Children[Parent[n]] BY <2>1, <3>3, TreeAssumption DEF Children
      <4>2. Parent[n] \in Path[n] /\ Parent[n] # n BY <3>1, <3>3, <4>1, ChildPath, PathAbove
      <4>3. Parent[n] \in Splitting(c) BY <4>2 DEF Shown
      <4>4. QED BY <4>1, <4>3 DEF Splitting
    <3>4. QED BY <3>2, <3>3
  <2>3. QED BY <1>1, <2>1, <2>2, NextAcceptedIs
<1>4. ASSUME NEW g \in Groups(c), g.op = "Join" PROVE {g.anchor} \cup Children[g.anchor] \subseteq halo
  <2>1. g.anchor \in Joining(c)
    <3>1. /\ "Join" # "RootActivate" /\ "Join" # "RootDeactivate" /\ "Join" # "Split" OBVIOUS
    <3>2. QED BY <1>4, <3>1 DEF Groups, Op, Joining
  <2>2. /\ Joining(c) \subseteq Inner(c.active) /\ Base(c) \cup Inner(c.active) \subseteq c.ready
        /\ \A m \in Inner(c.active) : \A k \in Children[m] : k \in Base(c) \cup Inner(c.active)
    BY <1>0, RootedIs, BaseIs
  <2>3. {g.anchor} \cup Children[g.anchor] \subseteq c.ready BY <2>1, <2>2
  <2>4. QED BY <1>1, <2>3, NextAcceptedIs
<1>5. d.active = Shown(c) /\ d.groups = Groups(c) OBVIOUS
<1> HIDE DEF d
<1>6. SliceIsSound(c, d, shadows) BY <1>1, <1>3, <1>4, <1>5 DEF SliceIsSound
<1>7. QED BY <1>3, <1>6 DEF c, d

\* The planner is never refused, and what it leaves is ideal again.
LEMMA PlanKeepsPlan ==
    ASSUME IInv, PlanOK, NEW l, NEW r, Demands(l, r), Plan(l, r)
    PROVE  PlanOK'
<1> DEFINE c       == Coverage(l, r)
           touched == Changed(l, r) \cup {n \in pending : IsAccepted(n)}
           d       == Reconcile(c, touched)
           shadows == Shadows(touched, d.groups)
           m       == [n \in Node |->
                         IF n \notin r THEN Vacant
                         ELSE IF n \in shadows THEN Planned(mesh[n], n \in l, Fresh(n))
                         ELSE mesh[n]]
<1>1. d = [groups |-> Groups(c), active |-> Shown(c), valid |-> TRUE]
  <2>1. touched = Touched(l, r) BY DEF Touched
  <2>2. FrontierOK(c) /\ SeenAll(c, UNION {Path[n] : n \in touched}) BY <2>1, CoverageIs
  <2> HIDE DEF c, touched
  <2>3. QED BY <2>2, ReconcileIs
<1>2. d.valid /\ d.active = Shown(c) /\ SliceIsSound(c, d, shadows)
  <2> HIDE DEF shadows, d
  <2>1. SliceIsSound(c, d, shadows) BY <1>1, SliceHolds
  <2>2. QED BY <1>1, <2>1
<1>3. /\ Publish(m, halo \cap r)
      /\ load' = l /\ resident' = r /\ active' = Shown(c)
      /\ accepted' = [n \in Node |-> IF n \in resident \ r THEN 0 ELSE NextAccepted(n)]
      /\ pending' = {n \in pending \cap resident : IsDeferred(n)}
      /\ UNCHANGED refused
  BY <1>2 DEF Plan
<1> HIDE DEF d, shadows
<1>4. \A n \in Node : mesh[n] \in Entry /\ Fresh(n) \in Nat \ {0}
  BY FreshIsNobodys DEF IInv, TypeOK
<1>5. Vacant \in Entry /\ Vacant.applied = 0 /\ Vacant.request = 0 BY DEF Vacant, Entry
<1>6. ASSUME NEW n \in Node
      PROVE  /\ m[n] \in Entry
             /\ m[n].applied = IF n \in r THEN mesh[n].applied ELSE 0
             /\ m[n].applied # 0 \/ m[n].request # 0 => m[n].requested # 0
  <2>0. mesh[n].applied # 0 \/ mesh[n].request # 0 => mesh[n].requested # 0 BY DEF PlanOK, MeshedOK
  <2>1. CASE n \notin r BY <1>5, <2>1
  <2>2. CASE n \in r /\ n \in shadows
    <3>1. m[n] = Planned(mesh[n], n \in l, Fresh(n)) BY <2>2
    <3>2. m[n] \in Entry
      <4>1. mesh[n].queued => mesh[n].request # 0 BY DEF IInv, TypeOK
      <4>2. QED BY <1>4, <3>1, <4>1, PlannedEntry
    <3>3. (n \in l) \in BOOLEAN OBVIOUS
    <3>4. /\ Planned(mesh[n], n \in l, Fresh(n)).applied = mesh[n].applied
          /\ Planned(mesh[n], n \in l, Fresh(n)).applied # 0
             \/ Planned(mesh[n], n \in l, Fresh(n)).request # 0 =>
                Planned(mesh[n], n \in l, Fresh(n)).requested # 0
      BY <1>4, <2>0, <3>3, PlannedKeeps
    <3>5. QED BY <2>2, <3>1, <3>2, <3>4
  <2>3. CASE n \in r /\ n \notin shadows BY <1>4, <2>0, <2>3
  <2>4. QED BY <2>1, <2>2, <2>3
<1>7. m \in [Node -> Entry] BY <1>6
<1> HIDE DEF m
<1>8. \A n \in Node : /\ mesh'[n].applied = IF n \in r THEN mesh[n].applied ELSE 0
                      /\ mesh'[n].applied # 0 \/ mesh'[n].request # 0 => mesh'[n].requested # 0
  <2>1. \A n \in Node : /\ mesh'[n].applied = m[n].applied
                        /\ mesh'[n].requested = m[n].requested /\ mesh'[n].request = m[n].request
    BY <1>3, <1>7, PublishKeeps
  <2>2. QED BY <1>6, <2>1
<1>9. halo' = halo \cap r BY <1>3 DEF Publish
<1>10. \A n \in Node : accepted'[n] = IF n \in r THEN NextAccepted(n) ELSE 0
  <2>1. \A n \in Node : NextAccepted(n) # 0 => n \in resident BY NextAcceptedIs
  <2>2. QED BY <1>3, <2>1
<1>11. DemandOK' BY <1>3 DEF Demands, DemandOK
<1>12. MeshedOK' BY <1>3, <1>8, <1>9 DEF PlanOK, MeshedOK
<1>13. \A n \in Node : RootOf[n] \in Node /\ RootOf[n] \in Path[n] BY PathHasRoot, PathAbove
<1>14. AcceptedOK'
  <2>1. SUFFICES ASSUME NEW n \in Node, accepted'[n] # 0
                 PROVE  /\ n \in resident' /\ mesh'[n].applied # 0 /\ mesh'[RootOf[n]].applied # 0
                        /\ mesh'[n].applied = accepted'[n]
    BY DEF AcceptedOK
  <2>2. n \in r /\ NextAccepted(n) # 0 /\ accepted'[n] = NextAccepted(n) BY <1>10, <2>1
  <2>3. RootOf[n] \in r BY <1>13, <2>2 DEF Demands
  <2>4. /\ mesh[n].applied # 0 /\ mesh[n].applied = NextAccepted(n) /\ mesh[RootOf[n]].applied # 0
    BY <2>2, NextAcceptedIs
  <2>5. QED BY <1>3, <1>8, <1>13, <2>2, <2>3, <2>4
<1>15. PendingOK'
  <2>1. ASSUME NEW n \in pending' PROVE IsDeferred(n)'
    <3>1. n \in pending /\ IsDeferred(n) /\ n \in Node BY <1>3 DEF IInv, TypeOK
    <3>2. mesh'[RootOf[n]].applied = 0 BY <1>8, <1>13, <3>1 DEF IsDeferred
    <3>3. QED BY <3>1, <3>2 DEF IsDeferred
  <2>2. QED BY <2>1 DEF PendingOK
<1>16. Ideal' = Shown(c)
  <2>1. c.load = l /\ c.ready = {n \in Node : NextAccepted(n) # 0} BY DEF Coverage
  <2>2. l \subseteq r /\ l \subseteq Node /\ \A n \in l : Path[n] \subseteq l BY DEF Demands
  <2> HIDE DEF c
  <2>3. \A n \in l : accepted'[n] # 0 <=> n \in c.ready BY <1>10, <2>1, <2>2
  <2>4. \A n \in l : RootOf[n] \in l BY <1>13, <2>2
  <2>5. \A n \in Node : IsSplitDemanded(c, n) <=> IsSplitDemanded([load |-> l], n)
    BY <2>1 DEF IsSplitDemanded
  <2>6. ASSUME NEW n \in Node PROVE Splits(n)' <=> n \in Splitting(c)
    <3>1. IsSplitDemanded(c, n) => Children[n] \subseteq l BY <2>1 DEF IsSplitDemanded
    <3>2. Splits(n)' <=> IsSplitDemanded([load |-> l], n) /\ \A k \in Children[n] : accepted'[k] # 0
      BY <1>3 DEF Splits
    <3>3. QED BY <2>3, <2>5, <3>1, <3>2 DEF Splitting
  <2>7. \A n \in l : n \in Node /\ Path[n] \subseteq Node BY <2>2
  <2>8. Ideal' = {n \in l : /\ accepted'[RootOf[n]] # 0
                            /\ \A k \in Path[n] \ {n} : Splits(k)'
                            /\ ~Splits(n)'}
    BY <1>3 DEF Ideal
  <2>9. \A n \in l : /\ accepted'[RootOf[n]] # 0 <=> RootOf[n] \in c.ready
                     /\ (\A k \in Path[n] \ {n} : Splits(k)') <=> (\A k \in Path[n] \ {n} : k \in Splitting(c))
                     /\ Splits(n)' <=> n \in Splitting(c)
    BY <2>3, <2>4, <2>6, <2>7
  <2>10. QED BY <2>1, <2>8, <2>9 DEF Shown
<1>17. FrontierIsIdeal' BY <1>3, <1>16 DEF FrontierIsIdeal
<1>18. QED BY <1>3, <1>11, <1>12, <1>14, <1>15, <1>17 DEF PlanOK

\* Every step keeps the planner's invariant.
LEMMA NextPlanOK == IInv /\ PlanOK /\ [Next]_vars => PlanOK'
<1> SUFFICES ASSUME IInv, PlanOK, [Next]_vars PROVE PlanOK' OBVIOUS
<1>1. CASE UNCHANGED vars
  <2>1. \A n \in Node : /\ mesh'[n].applied = mesh[n].applied
                        /\ mesh'[n].applied # 0 \/ mesh'[n].request # 0 => mesh'[n].requested # 0
    BY <1>1 DEF vars, PlanOK, MeshedOK
  <2>2. QED BY <1>1, <2>1, QuietStep DEF vars
<1>2. ASSUME NEW n \in Node, LoadEnds(n) PROVE PlanOK' BY <1>2, LoadKeepsPlan
<1>3. ASSUME NEW t \in tasks, MeshEnds(t) PROVE PlanOK' BY <1>3, MeshKeepsPlan
<1>4. ASSUME NEW t \in tasks, MeshRefused(t) PROVE PlanOK' BY <1>4, RefusedKeepsPlan
<1>5. ASSUME NEW l \in Views, NEW R \in Retains, Move(l, R) PROVE PlanOK'
  <2>1. /\ l \subseteq Node /\ \A n \in l : Path[n] \subseteq l
        /\ R \subseteq Node /\ \A n \in R : Path[n] \subseteq R
    BY ViewsAssumption
  <2>2. resident \subseteq Node /\ \A n \in resident : Path[n] \subseteq resident
    BY DEF PlanOK, DemandOK, IInv, TypeOK
  <2>3. Demands(l, l \cup (resident \cap R)) BY <2>1, <2>2 DEF Demands
  <2>4. QED BY <1>5, <2>3, PlanKeepsPlan DEF Move
<1>6. CASE Stay
  <2>1. Demands(load, resident) BY DEF PlanOK, DemandOK, IInv, TypeOK, Demands
  <2>2. QED BY <1>6, <2>1, PlanKeepsPlan, SkipKeepsPlan DEF Stay
<1>7. ASSUME NEW n \in Brush, Edit(n) PROVE PlanOK'
  BY <1>7, EditKeepsPlan, ViewsAssumption
<1>8. QED BY <1>1, <1>2, <1>3, <1>4, <1>5, <1>6, <1>7 DEF Next

\* Both invariants hold in every state.
LEMMA PlanInvariance == Spec => [](IInv /\ PlanOK)
<1>1. Init => IInv /\ PlanOK BY InitInvariant, InitPlanOK
<1>2. IInv /\ PlanOK /\ [Next]_vars => (IInv /\ PlanOK)' BY NextInvariant, NextPlanOK
<1>3. QED BY <1>1, <1>2, PTL DEF Spec

\* Of any tree, viewer and order of demands, answers and edits: preview_reconcile
\* shows the coarsest node that does not split on every path, whatever was shown
\* before and in however many ticks it came.
THEOREM FrontierAlwaysIdeal == Spec => []FrontierIsIdeal
<1>1. IInv /\ PlanOK => FrontierIsIdeal BY DEF PlanOK
<1>2. QED BY <1>1, PlanInvariance, PTL

\* Of any tree, viewer and order of answers: no tick of try_process ends with the
\* error of replay_topology_groups or of the physical slice.
THEOREM NoTickRefused == Spec => []TickNeverRefused
<1>1. IInv /\ PlanOK => TickNeverRefused BY DEF PlanOK, TickNeverRefused
<1>2. QED BY <1>1, PlanInvariance, PTL

\* Of any tree, viewer and order of answers: between two ticks a shown node is
\* resident and carries the mesh that the coverage has accepted.
THEOREM ShownIsMeshed == Spec => []ActiveIsMeshed
<1>1. ASSUME IInv, PlanOK PROVE ActiveIsMeshed
  <2>1. TypeOK BY <1>1 DEF IInv
  <2>2. ASSUME ~ticking, NEW n \in active
        PROVE  n \in resident /\ mesh[n].applied # 0 /\ mesh[n].applied = accepted[n]
    <3>1. n \in Node /\ accepted[n] # 0
      BY <1>1, <2>1, IdealIs DEF PlanOK, FrontierIsIdeal
    <3>2. /\ n \in resident /\ mesh[n].applied # 0 /\ mesh[RootOf[n]].applied # 0
          /\ mesh[n].applied = accepted[n] \/ n \in pending
      BY <1>1, <3>1 DEF PlanOK, AcceptedOK
    <3>3. n \notin pending BY <1>1, <2>2, <3>2 DEF PlanOK, PendingOK, IsDeferred
    <3>4. QED BY <3>2, <3>3
  <2>3. QED BY <2>1, <2>2 DEF ActiveIsMeshed
<1>2. IInv /\ PlanOK => ActiveIsMeshed BY <1>1
<1>3. QED BY <1>2, PlanInvariance, PTL

\* Of any tree, viewer and order of answers: of two shown nodes none is above
\* the other, so that no voxel is drawn by the meshes of two LODs.
NoOverlap == \A n \in active : Path[n] \cap active = {n}

\* NoOverlap holds in every state.
THEOREM NoTwoLodsShown == Spec => []NoOverlap
<1>1. IInv /\ PlanOK => NoOverlap BY IdealIs DEF IInv, PlanOK, FrontierIsIdeal, Apart, NoOverlap
<1>2. QED BY <1>1, PlanInvariance, PTL

\* A place that is shown by some LOD stays shown by some LOD, as long as the
\* viewer asks for its root.
NoHoleOpens ==
    [][\A n \in Node :
          Children[n] = {} /\ Path[n] \cap active # {} /\ RootOf[n] \in load' =>
              Path[n] \cap active' # {}]_vars

\* An accepted node that stays resident stays accepted.
LEMMA AcceptedStays ==
    ASSUME IInv, PlanOK, NEW n \in Node, [Next]_vars, accepted[n] # 0, n \in resident'
    PROVE  accepted'[n] # 0
<1>1. NextAccepted(n) # 0 BY NextAcceptedIs
<1>2. ASSUME NEW l, NEW r, Plan(l, r) PROVE accepted'[n] # 0
  <2>1. CASE resident' = r /\ accepted' = [k \in Node |-> IF k \in resident \ r THEN 0 ELSE NextAccepted(k)]
    BY <1>1, <2>1
  <2>2. CASE accepted' = accepted BY <2>2
  <2>3. QED BY <1>2, <2>1, <2>2 DEF Plan
<1>3. CASE accepted' = accepted BY <1>3
<1>4. QED BY <1>2, <1>3 DEF Next, vars, LoadEnds, MeshEnds, MeshRefused, Move, Stay, SkipPlan, Edit

\* No step of Next opens a hole: not the joins of a viewer that moves away, not
\* the splits of finer meshes, not an edit.
THEOREM NoHoleEverOpens == Spec => NoHoleOpens
<1>1. ASSUME IInv /\ PlanOK, (IInv /\ PlanOK)', [Next]_vars, NEW n \in Node, Children[n] = {},
             Path[n] \cap active # {}, RootOf[n] \in load'
      PROVE  Path[n] \cap active' # {}
  <2>1. RootOf[n] \in Node /\ RootOf[n] \in Path[n] /\ RootOf[n] \in Roots BY PathHasRoot, PathAbove
  <2>2. accepted[RootOf[n]] # 0
    <3>1. PICK x \in active : x \in Path[n] BY <1>1
    <3>2. RootOf[x] = RootOf[n] BY <3>1, RootOfPath
    <3>3. QED BY <1>1, <3>1, <3>2 DEF PlanOK, FrontierIsIdeal, Ideal
  <2>3. RootOf[n] \in resident' BY <1>1 DEF PlanOK, DemandOK
  <2>4. accepted'[RootOf[n]] # 0 BY <1>1, <2>1, <2>2, <2>3, AcceptedStays
  <2> DEFINE D == {x \in Node : ~Splits(x)'}
  <2>5. n \in D /\ n \in Path[n] BY <1>1, PathAbove DEF Splits, IsSplitDemanded
  <2>6. PICK t \in Path[n] : t \in D /\ \A m \in Path[t] : m \in D => m = t BY <2>5, Topmost
  <2>7. t \in Node /\ Path[t] \subseteq Node /\ RootOf[t] = RootOf[n] BY <2>6, PathAbove, RootOfPath
  <2>8. \A m \in Path[t] \ {t} : Splits(m)' BY <2>6, <2>7
  <2>9. t \in load'
    <3>1. Path[t] = {t} \cup (IF Parent[t] = 0 THEN {} ELSE Path[Parent[t]]) BY <2>7, PathIs
    <3>2. CASE Parent[t] = 0
      <4>1. t \in Roots BY <2>7, <3>2 DEF Roots
      <4>2. t = RootOf[n] BY <2>6, <4>1, PathHasRoot
      <4>3. QED BY <1>1, <4>2
    <3>3. CASE Parent[t] # 0
      <4>1. Parent[t] \in Node /\ t \in Children[Parent[t]] BY <2>7, <3>3, TreeAssumption DEF Children
      <4>2. Parent[t] \in Path[t] /\ Parent[t] # t BY <3>1, <3>3, <4>1, ChildPath, PathAbove
      <4>3. Splits(Parent[t])' BY <2>8, <4>2
      <4>4. QED BY <4>1, <4>3 DEF Splits, IsSplitDemanded
    <3>4. QED BY <3>2, <3>3
  <2>10. t \in Ideal'
    <3>1. ~Splits(t)' BY <2>6
    <3>2. accepted'[RootOf[t]] # 0 BY <2>4, <2>7
    <3>3. QED BY <2>8, <2>9, <3>1, <3>2 DEF Ideal
  <2>11. active' = Ideal' BY <1>1 DEF PlanOK, FrontierIsIdeal
  <2>12. QED BY <2>6, <2>10, <2>11
<1>2. (IInv /\ PlanOK) /\ (IInv /\ PlanOK)' /\ [Next]_vars =>
          [\A n \in Node : Children[n] = {} /\ Path[n] \cap active # {} /\ RootOf[n] \in load' =>
              Path[n] \cap active' # {}]_vars
  BY <1>1
<1>3. QED BY <1>2, PlanInvariance, PTL DEF Spec, NoHoleOpens
----------------------------------------------------------------------------
(* What the viewer asks for is asked for *)

\* A request of n is queued, or a task of T is under way with it.
Served(m, T, n) ==
    m[n].request # 0 =>
        \/ m[n].queued
        \/ \E t \in T : t.node = n /\ m[n].requested = t.revision /\ m[n].request = t.request

\* Every demanded node has a mesh or is asked for, every request is served, and
\* a mesh that is not accepted waits to be.
WorkOK ==
    /\ \A n \in Node : Children[n] \cap load \in {{}, Children[n]}
    /\ \A n \in load : mesh[n].applied = 0 => mesh[n].request # 0
    /\ \A n \in Node : Served(mesh, tasks, n)
    /\ \A n \in Node : mesh[n].applied # 0 => accepted[n] # 0 \/ n \in pending

LEMMA InitWorkOK == Init => WorkOK
<1> SUFFICES ASSUME NEW l \in Scenes, Scene(l) PROVE WorkOK BY DEF Init
<1>1. l \in Views /\ l \subseteq Node BY ViewsAssumption
<1>2. \A n \in Node : Children[n] \cap l \in {{}, Children[n]} BY <1>1, ViewsAssumption
<1>3. /\ Settled.applied = 1 /\ Settled.request = 0
      /\ Vacant.applied = 0 /\ Vacant.request = 0
  BY DEF Settled, Vacant
<1>4. /\ load = l
      /\ \A n \in Node : mesh[n] = IF n \in l THEN Settled ELSE Vacant
      /\ \A n \in Node : accepted[n] = IF n \in l THEN 1 ELSE 0
  BY DEF Scene
<1>5. QED BY <1>1, <1>2, <1>3, <1>4 DEF WorkOK, Served

\* A step that leaves demand, acceptances and meshes alone, and serves whatever
\* it requests.
LEMMA QuietWork ==
    ASSUME WorkOK, load \subseteq Node, UNCHANGED <<load, accepted, pending>>,
           \A n \in Node : /\ mesh'[n].applied = mesh[n].applied
                           /\ mesh[n].request # 0 => mesh'[n].request # 0
                           /\ Served(mesh', tasks', n)
    PROVE  WorkOK'
<1>1. \A n \in load' : mesh'[n].applied = 0 => mesh'[n].request # 0 BY DEF WorkOK
<1>2. \A n \in Node : mesh'[n].applied # 0 => accepted'[n] # 0 \/ n \in pending' BY DEF WorkOK
<1>3. \A n \in Node : Children[n] \cap load' \in {{}, Children[n]} BY DEF WorkOK
<1>4. QED BY <1>1, <1>2, <1>3 DEF WorkOK

\* A block that arrives queues its mesh.
LEMMA LoadKeepsWork ==
    ASSUME IInv, WorkOK, NEW n \in Node, LoadEnds(n)
    PROVE  WorkOK'
<1>1. mesh[n] \in Entry /\ Fresh(n) \in Nat \ {0} BY FreshIsNobodys DEF IInv, TypeOK
<1>2. mesh'[n] = Arrived(mesh[n], Fresh(n)) BY DEF LoadEnds, IInv, TypeOK
<1>3. mesh'[n].applied = mesh[n].applied /\ mesh'[n].queued
  BY <1>1, <1>2 DEF Arrived, Entry
<1>4. mesh'[n].request # 0 BY <1>1, <1>2, ArrivedIsEntry
<1>5. \A k \in Node : k # n => mesh'[k] = mesh[k] BY DEF LoadEnds, IInv, TypeOK
<1>6. tasks' = tasks /\ UNCHANGED <<load, accepted, pending>> BY DEF LoadEnds
<1>7. \A k \in Node : Served(mesh', tasks', k) BY <1>3, <1>5, <1>6 DEF WorkOK, Served
<1>8. load \subseteq Node BY DEF IInv, TypeOK
<1>9. QED BY <1>3, <1>4, <1>5, <1>6, <1>7, <1>8, QuietWork

\* An answer is one to its request, which is then no longer made, or to none.
LEMMA MeshKeepsWork ==
    ASSUME IInv, PlanOK, WorkOK, NEW t \in tasks, MeshEnds(t)
    PROVE  WorkOK'
<1>0. load \subseteq Node BY DEF IInv, TypeOK
<1>1. CASE ~IsCurrent(t)
  <2>1. mesh' = mesh /\ tasks' = tasks \ {t} /\ UNCHANGED <<load, accepted, pending>>
    BY <1>1 DEF MeshEnds
  <2>2. ASSUME NEW k \in Node PROVE Served(mesh, tasks', k)
    <3>1. Served(mesh, tasks, k) BY DEF WorkOK
    <3>2. \A u \in tasks : u.node = k /\ mesh[k].requested = u.revision /\ mesh[k].request = u.request
                             => u \in tasks'
      BY <1>1, <2>1 DEF IsCurrent
    <3>3. QED BY <3>1, <3>2 DEF Served
  <2>3. QED BY <1>0, <2>1, <2>2, QuietWork
<1>2. CASE IsCurrent(t)
  <2> DEFINE b == t.node
  <2>1. b \in Node /\ t.request # 0 /\ t \in Task
    BY <1>2, CurrentIsResident DEF IInv, TypeOK, Task
  <2>2. mesh[b].requested = t.revision /\ mesh[b].request = t.request BY <1>2 DEF IsCurrent
  <2>3. t.revision # 0 BY <2>1, <2>2 DEF PlanOK, MeshedOK
  <2>4. /\ mesh' = [mesh EXCEPT ![b] = [@ EXCEPT !.applied = t.revision, !.request = 0, !.current = t.current]]
        /\ pending' = pending \cup {b} /\ tasks' = tasks \ {t}
        /\ UNCHANGED <<load, accepted>>
    BY <1>2 DEF MeshEnds
  <2>5. mesh \in [Node -> Entry] BY DEF IInv, TypeOK
  <2>6. /\ mesh'[b].applied = t.revision /\ mesh'[b].request = 0
        /\ \A k \in Node : k # b => mesh'[k] = mesh[k]
    BY <2>1, <2>4, <2>5 DEF Entry
  <2>7. ASSUME NEW k \in Node PROVE Served(mesh', tasks', k)
    <3>1. Served(mesh, tasks, k) BY DEF WorkOK
    <3>2. \A u \in tasks : u.node = k /\ k # b => u \in tasks' BY <2>4
    <3> HIDE DEF b
    <3>3. QED BY <2>6, <3>1, <3>2 DEF Served
  <2> HIDE DEF b
  <2>8. \A k \in load' : mesh'[k].applied = 0 => mesh'[k].request # 0
    BY <1>0, <2>3, <2>4, <2>6 DEF WorkOK
  <2>9. \A k \in Node : mesh'[k].applied # 0 => accepted'[k] # 0 \/ k \in pending'
    BY <2>4, <2>6 DEF WorkOK
  <2>10. \A k \in Node : Children[k] \cap load' \in {{}, Children[k]} BY <2>4 DEF WorkOK
  <2>11. QED BY <2>7, <2>8, <2>9, <2>10 DEF WorkOK
<1>3. QED BY <1>1, <1>2

\* A mesh that is refused is queued again, if it is the one that was asked for.
LEMMA RefusedKeepsWork ==
    ASSUME IInv, WorkOK, NEW t \in tasks, MeshRefused(t)
    PROVE  WorkOK'
<1>1. /\ t.node \in Node /\ t.request # 0 /\ mesh \in [Node -> Entry]
      /\ load \subseteq Node /\ Fresh(t.node) \in Nat \ {0}
  BY FreshIsNobodys DEF IInv, TypeOK, Task
<1>2. tasks' = tasks \ {t} /\ UNCHANGED <<load, accepted, pending>> BY DEF MeshRefused
<1>3. \A k \in Node : k # t.node => mesh'[k] = mesh[k]
  BY <1>1 DEF MeshRefused
<1>4. /\ mesh'[t.node].applied = mesh[t.node].applied
      /\ mesh[t.node].request # 0 => mesh'[t.node].request # 0
      /\ Served(mesh', tasks', t.node)
  <2>1. CASE IsCurrent(t) /\ ~mesh[t.node].queued
    <3>1. mesh' = [mesh EXCEPT ![t.node] = [@ EXCEPT !.request = Fresh(t.node), !.queued = TRUE]]
      BY <2>1 DEF MeshRefused
    <3>2. /\ mesh'[t.node].applied = mesh[t.node].applied
          /\ mesh'[t.node].request = Fresh(t.node) /\ mesh'[t.node].queued
      BY <1>1, <3>1 DEF Entry
    <3>3. QED BY <1>1, <3>2 DEF Served
  <2>2. CASE ~(IsCurrent(t) /\ ~mesh[t.node].queued)
    <3>1. mesh' = mesh BY <2>2 DEF MeshRefused
    <3>2. Served(mesh, tasks, t.node) BY <1>1 DEF WorkOK
    <3>3. CASE mesh[t.node].queued BY <3>1, <3>3 DEF Served
    <3>4. CASE ~mesh[t.node].queued
      <4>1. ~IsCurrent(t) BY <2>2, <3>4
      <4>2. \A u \in tasks : /\ u.node = t.node
                             /\ mesh[t.node].requested = u.revision /\ mesh[t.node].request = u.request
                             => u \in tasks'
        BY <1>2, <4>1 DEF IsCurrent
      <4>3. QED BY <3>1, <3>2, <4>2 DEF Served
    <3>5. QED BY <3>1, <3>3, <3>4
  <2>3. QED BY <2>1, <2>2
<1>5. ASSUME NEW k \in Node, k # t.node PROVE Served(mesh', tasks', k)
  <2>1. Served(mesh, tasks, k) BY DEF WorkOK
  <2>2. \A u \in tasks : u.node = k => u \in tasks' BY <1>2, <1>5
  <2>3. QED BY <1>3, <1>5, <2>1, <2>2 DEF Served
<1>6. QED BY <1>1, <1>2, <1>3, <1>4, <1>5, QuietWork

\* An edit queues what it asks for, and leaves the tasks of all others under way.
LEMMA EditKeepsWork ==
    ASSUME IInv, WorkOK, NEW n \in Node, Edit(n)
    PROVE  WorkOK'
<1> DEFINE f == [t \in tasks |-> [t EXCEPT !.current = @ /\ t.node \notin Path[n]]]
           E == Path[n] \cap resident
<1>1. tasks' = {f[t] : t \in tasks} BY DEF Edit
<1>2. \A t \in tasks : f[t].node = t.node /\ f[t].revision = t.revision /\ f[t].request = t.request
  BY DEF IInv, TypeOK, Task
<1> HIDE DEF f
<1>3. \A k \in Node : mesh'[k] = IF k \in E THEN Edited(mesh[k], Fresh(k)) ELSE mesh[k]
  BY DEF Edit
<1>4. ASSUME NEW k \in Node
      PROVE  /\ mesh'[k].applied = mesh[k].applied
             /\ mesh[k].request # 0 => mesh'[k].request # 0
             /\ Served(mesh', tasks', k)
  <2>1. CASE k \in E
    <3>1. mesh[k] \in Entry /\ Fresh(k) \in Nat \ {0} BY FreshIsNobodys DEF IInv, TypeOK
    <3>2. mesh'[k] = Edited(mesh[k], Fresh(k)) BY <1>3, <2>1
    <3>3. mesh'[k].applied = mesh[k].applied /\ mesh'[k].request = Fresh(k) /\ mesh'[k].queued
      BY <3>1, <3>2 DEF Edited, Entry
    <3>4. QED BY <3>1, <3>3 DEF Served
  <2>2. CASE k \notin E
    <3>1. mesh'[k] = mesh[k] BY <1>3, <2>2
    <3>2. Served(mesh, tasks, k) BY DEF WorkOK
    <3>3. \A t \in tasks : f[t] \in tasks' BY <1>1
    <3>4. QED BY <1>2, <3>1, <3>2, <3>3 DEF Served
  <2>3. QED BY <2>1, <2>2
<1>5. load \subseteq Node /\ UNCHANGED <<load, accepted, pending>> BY DEF Edit, IInv, TypeOK
<1>6. QED BY <1>4, <1>5, QuietWork

\* Handing a queued mesh to the pool puts a task with its request under way.
LEMMA PublishServes ==
    ASSUME NEW m \in [Node -> Entry], NEW present, Publish(m, present),
           \A n \in Node : Served(m, tasks, n)
    PROVE  \A n \in Node : Served(mesh', tasks', n)
<1> SUFFICES ASSUME NEW n \in Node PROVE Served(mesh', tasks', n) OBVIOUS
<1>1. /\ mesh'[n].requested = m[n].requested /\ mesh'[n].request = m[n].request
  BY PublishKeeps
<1>2. mesh'[n] = IF Goes(m[n], n, present) THEN [m[n] EXCEPT !.queued = FALSE] ELSE m[n]
  BY DEF Publish
<1>3. tasks' = tasks \cup {Dispatched(m[k], k) : k \in {k \in Node : Goes(m[k], k, present)}}
  BY DEF Publish
<1>4. CASE Goes(m[n], n, present)
  <2>1. Dispatched(m[n], n) \in tasks' BY <1>3, <1>4
  <2>2. /\ Dispatched(m[n], n).node = n /\ Dispatched(m[n], n).revision = m[n].requested
        /\ Dispatched(m[n], n).request = m[n].request
    BY DEF Dispatched
  <2>3. QED BY <1>1, <2>1, <2>2 DEF Served
<1>5. CASE ~Goes(m[n], n, present)
  <2>1. mesh'[n] = m[n] /\ tasks \subseteq tasks' BY <1>2, <1>3, <1>5
  <2>2. Served(m, tasks, n) OBVIOUS
  <2>3. QED BY <2>1, <2>2 DEF Served
<1>6. QED BY <1>4, <1>5

\* A tick without a plan hands out what is queued.
LEMMA SkipKeepsWork ==
    ASSUME IInv, WorkOK, SkipPlan
    PROVE  WorkOK'
<1>1. /\ mesh \in [Node -> Entry] /\ Publish(mesh, halo) /\ load \subseteq Node
      /\ UNCHANGED <<load, accepted>>
  BY DEF IInv, TypeOK, SkipPlan
<1>2. UNCHANGED pending BY DEF SkipPlan
<1>3. \A n \in Node : Served(mesh', tasks', n) BY <1>1, PublishServes DEF WorkOK
<1>4. \A n \in Node : mesh'[n].applied = mesh[n].applied /\ mesh'[n].request = mesh[n].request
  BY <1>1, PublishKeeps
<1>5. QED BY <1>1, <1>2, <1>3, <1>4, QuietWork

\* The mesh pass asks for what is wanted and has no mesh, and serves it.
LEMMA PlannedServes ==
    ASSUME NEW m, NEW p, NEW n, NEW T, NEW w \in BOOLEAN, NEW i \in Nat \ {0},
           m[n] \in Entry, Served(m, T, n), p[n] = Planned(m[n], w, i)
    PROVE  /\ Served(p, T, n)
           /\ w /\ p[n].applied = 0 => p[n].request # 0
<1> DEFINE e == m[n]
<1>1. CASE ~w \/ e.applied # 0
  <2>1. p[n].request = 0 /\ p[n].applied = e.applied BY <1>1 DEF Planned, Entry
  <2>2. QED BY <1>1, <2>1 DEF Served
<1>2. CASE ~(~w \/ e.applied # 0) /\ e.requested = 0
  <2>1. p[n].request = i /\ p[n].queued BY <1>2 DEF Planned, Entry
  <2>2. QED BY <2>1 DEF Served
<1>3. CASE ~(~w \/ e.applied # 0) /\ e.requested # 0 /\ ~e.queued /\ e.request # 0
  <2>1. p[n] = m[n] BY <1>3 DEF Planned
  <2>2. QED BY <1>3, <2>1 DEF Served
<1>4. CASE ~(~w \/ e.applied # 0) /\ e.requested # 0 /\ ~(~e.queued /\ e.request # 0)
  <2>1. p[n].request # 0 /\ p[n].queued BY <1>4 DEF Planned, Entry
  <2>2. QED BY <2>1 DEF Served
<1>5. QED BY <1>1, <1>2, <1>3, <1>4

\* A demand, and the siblings in it all or none.
Whole(l) == \A n \in Node : Children[n] \cap l \in {{}, Children[n]}

\* The planner asks for all that is newly demanded, and keeps what is not yet
\* accepted pending.
LEMMA PlanKeepsWork ==
    ASSUME IInv, PlanOK, WorkOK, NEW l, NEW r, Demands(l, r), Whole(l), Plan(l, r)
    PROVE  WorkOK'
<1> DEFINE c       == Coverage(l, r)
           touched == Changed(l, r) \cup {n \in pending : IsAccepted(n)}
           d       == Reconcile(c, touched)
           shadows == Shadows(touched, d.groups)
           m       == [n \in Node |->
                         IF n \notin r THEN Vacant
                         ELSE IF n \in shadows THEN Planned(mesh[n], n \in l, Fresh(n))
                         ELSE mesh[n]]
<1>1. refused' = FALSE
  <2>1. PlanOK' BY PlanKeepsPlan
  <2>2. refused' \in BOOLEAN BY DEF Plan, IInv, TypeOK
  <2>3. QED BY <2>1, <2>2 DEF PlanOK
<1>2. /\ Publish(m, halo \cap r)
      /\ load' = l /\ resident' = r
      /\ accepted' = [n \in Node |-> IF n \in resident \ r THEN 0 ELSE NextAccepted(n)]
      /\ pending' = {n \in pending \cap resident : IsDeferred(n)}
  BY <1>1 DEF Plan
<1>3. Changed(l, r) \subseteq shadows BY DEF Shadows
<1> HIDE DEF d, shadows
<1>4. \A n \in Node : mesh[n] \in Entry /\ Fresh(n) \in Nat \ {0}
  BY FreshIsNobodys DEF IInv, TypeOK
<1>5. Vacant \in Entry /\ Vacant.applied = 0 /\ Vacant.request = 0 BY DEF Vacant, Entry
<1>6. l \subseteq Node /\ l \subseteq r BY DEF Demands
<1>7. ASSUME NEW n \in Node
      PROVE  /\ m[n] \in Entry
             /\ m[n].applied = IF n \in r THEN mesh[n].applied ELSE 0
             /\ Served(m, tasks, n)
             /\ n \in l /\ m[n].applied = 0 => m[n].request # 0
  <2>0. Served(mesh, tasks, n) BY DEF WorkOK
  <2>1. CASE n \notin r
    <3>1. m[n] = Vacant BY <2>1
    <3>2. QED BY <1>5, <1>6, <2>1, <3>1 DEF Served
  <2>2. CASE n \in r /\ n \in shadows
    <3>1. m[n] = Planned(mesh[n], n \in l, Fresh(n)) BY <2>2
    <3>2. m[n] \in Entry
      <4>1. mesh[n].queued => mesh[n].request # 0 BY DEF IInv, TypeOK
      <4>2. QED BY <1>4, <3>1, <4>1, PlannedEntry
    <3>3. (n \in l) \in BOOLEAN OBVIOUS
    <3>4. m[n].applied = mesh[n].applied
      <4>1. mesh[n].applied # 0 \/ mesh[n].request # 0 => mesh[n].requested # 0
        BY DEF PlanOK, MeshedOK
      <4>2. Planned(mesh[n], n \in l, Fresh(n)).applied = mesh[n].applied
        BY <1>4, <3>3, <4>1, PlannedKeeps
      <4>3. QED BY <3>1, <4>2
    <3> HIDE DEF m
    <3>5. Served(m, tasks, n) /\ (n \in l /\ m[n].applied = 0 => m[n].request # 0)
      BY <1>4, <2>0, <3>1, <3>3, PlannedServes
    <3>6. QED BY <2>2, <3>2, <3>4, <3>5
  <2>3. CASE n \in r /\ n \notin shadows
    <3>1. m[n] = mesh[n] BY <2>3
    <3>2. n \in l => n \in load BY <1>3, <2>3 DEF Changed
    <3>3. n \in load => (mesh[n].applied = 0 => mesh[n].request # 0) BY DEF WorkOK
    <3> HIDE DEF m
    <3>4. QED BY <1>4, <2>0, <2>3, <3>1, <3>2, <3>3 DEF Served
  <2>4. QED BY <2>1, <2>2, <2>3
<1>8. m \in [Node -> Entry] BY <1>7
<1> HIDE DEF m
<1>9. \A n \in Node : Served(mesh', tasks', n) BY <1>2, <1>7, <1>8, PublishServes
<1>10. \A n \in Node : mesh'[n].applied = m[n].applied /\ mesh'[n].request = m[n].request
  BY <1>2, <1>8, PublishKeeps
<1>11. \A n \in load' : mesh'[n].applied = 0 => mesh'[n].request # 0
  BY <1>2, <1>6, <1>7, <1>10
<1>12. ASSUME NEW n \in Node, mesh'[n].applied # 0 PROVE accepted'[n] # 0 \/ n \in pending'
  <2>1. n \in r /\ mesh[n].applied # 0 BY <1>7, <1>10, <1>12
  <2>2. n \in resident BY <2>1 DEF IInv, TypeOK, Vacant
  <2>3. accepted'[n] = NextAccepted(n) BY <1>2, <2>1
  <2>4. accepted[n] # 0 \/ n \in pending BY <2>1 DEF WorkOK
  <2>5. CASE accepted[n] # 0 BY <2>3, <2>5, NextAcceptedIs
  <2>6. CASE n \in pending /\ IsDeferred(n) BY <1>2, <2>2, <2>6
  <2>7. CASE n \in pending /\ ~IsDeferred(n)
    <3>1. NextAccepted(n) = mesh[n].applied BY <2>2, <2>7 DEF NextAccepted, IsAccepted
    <3>2. QED BY <2>1, <2>3, <3>1
  <2>8. QED BY <2>4, <2>5, <2>6, <2>7
<1>13. \A n \in Node : Children[n] \cap load' \in {{}, Children[n]} BY <1>2 DEF Whole
<1>14. QED BY <1>9, <1>11, <1>12, <1>13 DEF WorkOK

\* Every step keeps it.
LEMMA NextWorkOK == IInv /\ PlanOK /\ WorkOK /\ [Next]_vars => WorkOK'
<1> SUFFICES ASSUME IInv, PlanOK, WorkOK, [Next]_vars PROVE WorkOK' OBVIOUS
<1>1. CASE UNCHANGED vars BY <1>1 DEF vars, WorkOK, Served
<1>2. ASSUME NEW n \in Node, LoadEnds(n) PROVE WorkOK' BY <1>2, LoadKeepsWork
<1>3. ASSUME NEW t \in tasks, MeshEnds(t) PROVE WorkOK' BY <1>3, MeshKeepsWork
<1>4. ASSUME NEW t \in tasks, MeshRefused(t) PROVE WorkOK' BY <1>4, RefusedKeepsWork
<1>5. ASSUME NEW l \in Views, NEW R \in Retains, Move(l, R) PROVE WorkOK'
  <2>1. /\ l \subseteq Node /\ \A n \in l : Path[n] \subseteq l
        /\ R \subseteq Node /\ \A n \in R : Path[n] \subseteq R
        /\ Whole(l)
    BY ViewsAssumption DEF Whole
  <2>2. resident \subseteq Node /\ \A n \in resident : Path[n] \subseteq resident
    BY DEF PlanOK, DemandOK, IInv, TypeOK
  <2>3. Demands(l, l \cup (resident \cap R)) BY <2>1, <2>2 DEF Demands
  <2>4. QED BY <1>5, <2>1, <2>3, PlanKeepsWork DEF Move
<1>6. CASE Stay
  <2>1. Demands(load, resident) BY DEF PlanOK, DemandOK, IInv, TypeOK, Demands
  <2>2. Whole(load) BY DEF WorkOK, Whole
  <2>3. QED BY <1>6, <2>1, <2>2, PlanKeepsWork, SkipKeepsWork DEF Stay
<1>7. ASSUME NEW n \in Brush, Edit(n) PROVE WorkOK'
  BY <1>7, EditKeepsWork, ViewsAssumption
<1>8. QED BY <1>1, <1>2, <1>3, <1>4, <1>5, <1>6, <1>7 DEF Next

\* With nothing queued, under way or waiting to be accepted, all that the viewer
\* asks for is shown, or replaced by finer nodes: where a terrain comes to rest
\* it is sharp, and no node is forgotten on the way.
RestIsSharp == AtRest => \A n \in load : n \in active \/ Children[n] \cap load # {}

\* Of any tree, viewer and order of demands, answers, refusals and edits. This
\* is what EventuallySharp asks for apart from the fairness that brings the rest.
THEOREM SharpAtRest == Spec => []RestIsSharp
<1>1. ASSUME IInv, PlanOK, WorkOK PROVE RestIsSharp
  <2>1. SUFFICES ASSUME AtRest, NEW n \in load, Children[n] \cap load = {} PROVE n \in active
    BY DEF RestIsSharp
  <2>2. load \subseteq Node BY <1>1 DEF IInv, TypeOK
  <2>3. ASSUME NEW k \in load PROVE accepted[k] # 0
    <3>1. Served(mesh, tasks, k) /\ k \in Node BY <1>1, <2>2 DEF WorkOK
    <3>2. tasks = {} /\ pending = {} /\ ~mesh[k].queued BY <2>1, <3>1 DEF AtRest
    <3>3. mesh[k].request = 0 BY <3>1, <3>2 DEF Served
    <3>4. QED BY <1>1, <3>1, <3>2, <3>3 DEF WorkOK
  <2>4. Path[n] \subseteq load /\ n \in Node BY <1>1, <2>2 DEF PlanOK, DemandOK
  <2>5. RootOf[n] \in load BY <2>4, PathHasRoot
  <2>6. ASSUME NEW m \in Path[n], m # n PROVE Splits(m)
    <3>1. m \in Node /\ m \in load BY <2>2, <2>4
    <3>2. PICK k \in Children[m] : k \in Path[n] BY <2>4, <2>6, <3>1, PathThroughChild
    <3>3. Children[m] \subseteq load BY <1>1, <2>4, <3>1, <3>2 DEF WorkOK
    <3>4. QED BY <2>3, <3>1, <3>2, <3>3 DEF Splits, IsSplitDemanded
  <2>7. ~Splits(n) BY <2>1 DEF Splits, IsSplitDemanded
  <2>8. n \in Ideal BY <2>3, <2>5, <2>6, <2>7 DEF Ideal
  <2>9. QED BY <1>1, <2>8 DEF PlanOK, FrontierIsIdeal
<1>2. Init => WorkOK BY InitWorkOK
<1>3. IInv /\ PlanOK /\ WorkOK => RestIsSharp BY <1>1
<1>4. QED BY <1>2, <1>3, NextWorkOK, PlanInvariance, PTL DEF Spec
=============================================================================
