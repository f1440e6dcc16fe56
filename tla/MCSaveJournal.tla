---------------------------- MODULE MCSaveJournal ---------------------------
(***************************************************************************)
(* SaveJournal on small instances.                                         *)
(***************************************************************************)
EXTENDS SaveJournal, TLC

CONSTANTS k1, k2

OneKey  == {k1}
TwoKeys == {k1, k2}

Once       == [k \in OneKey |-> 1]
Twice      == [k \in OneKey |-> 2]
OnceEach   == [k \in TwoKeys |-> 1]

KeySymmetry == Permutations(TwoKeys)

AllCalls   == {"process", "drain", "flush", "shutdown", "resolve"}
MostCalls  == {"process", "flush", "resolve"}
=============================================================================
