------------------------- MODULE MCVariableTerrain --------------------------
(* An instance of VariableTerrain for TLC: three LODs. *)
EXTENDS VariableTerrain

\* a root of two nodes, one of which has two children that are ever asked for
Family == [n \in 1..5 |-> CASE n \in {1, 2} -> 3 [] n \in {3, 4} -> 5 [] n = 5 -> 0]

AllViews  == {{}, {5}, {3, 4, 5}, 1..5}
CoarseOrSharp == {{5}, 1..5}
\* the viewer leaves everything behind, or keeps it all
Extremes  == {{}, 1..5}
=============================================================================
