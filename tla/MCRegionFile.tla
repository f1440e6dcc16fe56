----------------------------- MODULE MCRegionFile ---------------------------
(***************************************************************************)
(* RegionFile on small instances.                                          *)
(***************************************************************************)
EXTENDS RegionFile

AllSizes   == {2, 3, 5}
BothAlign  == {0, 1}
=============================================================================
