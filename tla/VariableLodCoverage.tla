------------------------- MODULE VariableLodCoverage ------------------------
(***************************************************************************)
(* VariableLodCoverage::preview_reconcile: which nodes of the LOD tree are *)
(* shown after demands and acceptances have changed at some of them.  Only *)
(* the paths from the touched nodes to their roots are looked at.          *)
(*                                                                         *)
(* One feature, the visuals.  A coverage state is a record                 *)
(*   load      the nodes some viewer asks to be shown (demand.visuals)     *)
(*   resident  the nodes some viewer keeps (demand.resident)               *)
(*   ready     the nodes with an accepted snapshot                         *)
(*   active    the nodes that are shown (visual_active)                    *)
(* The summaries a branch keeps of its nodes are derived from these.  No   *)
(* join is left pending, as VariableTerrain!FrontierIsIdeal shows, so the  *)
(* groups that serve pending joins never occur.                            *)
(***************************************************************************)
EXTENDS Naturals, FiniteSets, Sequences

CONSTANTS
    NodeCount,  \* nodes are numbered in the order of CoverageKey: children first
    Parent      \* checked_parent, 0 for the coarsest LOD

Node == 1..NodeCount

ASSUME TreeAssumption ==
    /\ NodeCount \in Nat
    /\ Parent \in [Node -> Node \cup {0}]
    /\ \A n \in Node : Parent[n] = 0 \/ Parent[n] > n

Children == [n \in Node |-> {m \in Node : Parent[m] = n}]

Path[n \in Node] == {n} \cup (IF Parent[n] = 0 THEN {} ELSE Path[Parent[n]])

Branch    == [n \in Node |-> {m \in Node : n \in Path[m]}]
Roots     == {n \in Node : Parent[n] = 0}
RootOf    == [n \in Node |-> CHOOSE r \in Path[n] : r \in Roots]

----------------------------------------------------------------------------
(***************************************************************************)
(* Predicates of CoverageNode.                                             *)
(***************************************************************************)
BranchIsResident(c, n) == Branch[n] \cap c.resident # {}
BranchIsDemanded(c, n) == Branch[n] \cap c.load # {}
IsReady(c, n)          == n \in c.ready

\* split_box: loaded, and the next finer box covers its children.
IsSplitDemanded(c, n) ==
    n \in c.load /\ Children[n] # {} /\ Children[n] \subseteq c.load

IsEligible(c, n) ==
    IsReady(c, n) /\ BranchIsResident(c, n) /\ BranchIsDemanded(c, n)

ActiveBelow(a, n) == Branch[n] \cap a

----------------------------------------------------------------------------
(***************************************************************************)
(* Topology groups. A draft is the projected set of active nodes and the   *)
(* groups that led there.                                                  *)
(***************************************************************************)
Activates(g) ==
    CASE g.op \in {"RootActivate", "Join"} -> {g.anchor}
      [] g.op = "Split"                    -> Children[g.anchor]
      [] g.op = "RootDeactivate"           -> {}

Deactivates(g) ==
    CASE g.op \in {"RootDeactivate", "Split"} -> {g.anchor}
      [] g.op = "Join"                        -> Children[g.anchor]
      [] g.op = "RootActivate"                -> {}

Project(a, g) == (a \ Deactivates(g)) \cup Activates(g)

Add(d, op, n) ==
    LET g == [op |-> op, anchor |-> n]
    IN  [active |-> Project(d.active, g), groups |-> d.groups \cup {g}]

\* A root is shown when nothing below it is, and hidden when no longer eligible.
RootStep(c, d, r) ==
    CASE r \in d.active /\ ~IsEligible(c, r) -> Add(d, "RootDeactivate", r)
      [] ActiveBelow(d.active, r) = {} /\ IsEligible(c, r) -> Add(d, "RootActivate", r)
      [] OTHER -> d

\* prepare_exact_join_chain: every node between n and the frontier joins, or none.
ChainAnchors(a, n) == {m \in Branch[n] \ a : ActiveBelow(a, m) # {}}

ChainIsExact(c, a, n) ==
    \A m \in ChainAnchors(a, n) :
        /\ IsReady(c, m) /\ Children[m] # {}
        /\ \A k \in Children[m] : ActiveBelow(a, k) # {}

JoinChain(d, n) ==
    [active |-> (d.active \ Branch[n]) \cup {n},
     groups |-> d.groups \cup {[op |-> "Join", anchor |-> m] : m \in ChainAnchors(d.active, n)}]

\* The pass over the touched anchors, finer ones first.
JoinStep(c, d, n) ==
    LET MayJoin == n \notin d.active /\ ActiveBelow(d.active, n) # {} /\ IsReady(c, n) IN
    CASE MayJoin /\ ~IsSplitDemanded(c, n) /\ ChainIsExact(c, d.active, n) -> JoinChain(d, n)
      [] /\ MayJoin /\ IsSplitDemanded(c, n)
         /\ Children[n] \subseteq d.active
         /\ \E k \in Children[n] : ~IsEligible(c, k) -> Add(d, "Join", n)
      [] OTHER -> d

\* ready_split_group, for a touched node or one that a split has just shown.
MaySplit(c, a, n) ==
    /\ ActiveBelow(a, n) = {n} /\ n \in a
    /\ IsSplitDemanded(c, n)
    /\ \A k \in Children[n] : ActiveBelow(a, k) = {} /\ IsEligible(c, k)

SplitStep_TouchedOnly(c, d, n, anchors) ==
    IF n \in anchors /\ MaySplit(c, d.active, n) THEN Add(d, "Split", n) ELSE d
SplitStep(c, d, n, anchors) ==
    IF /\ n \in anchors \/ [op |-> "Split", anchor |-> Parent[n]] \in d.groups
       /\ MaySplit(c, d.active, n)
    THEN Add(d, "Split", n) ELSE d

\* A root that a join without viewers has reached is hidden again.
RetireStep_Forgotten(c, d, r) == d
RetireStep(c, d, r) ==
    IF r \in d.active /\ ~BranchIsDemanded(c, r)
    THEN Add(d, "RootDeactivate", r) ELSE d

Ascending  == [i \in Node |-> i]
Descending == [i \in Node |-> NodeCount + 1 - i]

\* Step for each of the nodes S, in the order of seq.
Pass(Step(_, _), d, seq, S) ==
    LET after[i \in 0..Len(seq)] ==
            IF i = 0 THEN d
            ELSE IF seq[i] \in S THEN Step(after[i - 1], seq[i])
            ELSE after[i - 1]
    IN  after[Len(seq)]

Draft(c, touched) ==
    LET anchors == UNION {Path[n] : n \in touched}
        roots   == anchors \cap Roots
        rooted  == Pass(LAMBDA d, r : RootStep(c, d, r),
                        [active |-> c.active, groups |-> {}], Ascending, roots)
        joined  == Pass(LAMBDA d, n : JoinStep(c, d, n), rooted, Ascending, anchors)
        divided == Pass(LAMBDA d, n : SplitStep(c, d, n, anchors), joined, Descending, Node)
    IN  Pass(LAMBDA d, r : RetireStep(c, d, r), divided, Ascending, roots)

----------------------------------------------------------------------------
(***************************************************************************)
(* replay_topology_groups: the groups again, in the order in which they    *)
(* are published, each checked against what the ones before have left.     *)
(***************************************************************************)
Order == LET Of(op, anchors) == [i \in Node |-> [op |-> op, anchor |-> anchors[i]]]
         IN  Of("RootActivate", Ascending) \o Of("Split", Descending)
             \o Of("Join", Ascending) \o Of("RootDeactivate", Ascending)

\* The target of a join is held by its owner while the topology changes.
ValidShape(c, a, groups, g) ==
    LET n == g.anchor IN
    CASE g.op = "RootActivate" -> n \in Roots /\ ActiveBelow(a, n) = {} /\ IsEligible(c, n)
      [] g.op = "Split"        -> MaySplit(c, a, n)
      [] g.op = "RootDeactivate" ->
            /\ n \in Roots /\ n \in a /\ ActiveBelow(a, n) = {n}
            /\ ~BranchIsDemanded(c, n) \/ ~IsReady(c, n)
      [] g.op = "Join" ->
            /\ Children[n] # {} /\ IsReady(c, n) /\ ActiveBelow(a, n) = Children[n]
            /\ \/ ~IsSplitDemanded(c, n)
               \/ \E k \in Children[n] : ~IsEligible(c, k)
               \/ \E h \in groups : h.op = "Join" /\ n \in Deactivates(h)

Replay(c, groups) ==
    LET Step(s, g) == [active |-> Project(s.active, g),
                       valid  |-> s.valid /\ ValidShape(c, s.active, groups, g)]
    IN  Pass(Step, [active |-> c.active, valid |-> TRUE], Order, groups)

\* What a reconciliation publishes: groups, the new frontier, or its refusal.
Reconcile(c, touched) ==
    LET groups   == Draft(c, touched).groups
        replayed == Replay(c, groups)
    IN  [groups |-> groups, active |-> replayed.active, valid |-> replayed.valid]
=============================================================================
