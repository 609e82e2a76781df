------------------------------- MODULE MCHNDay -------------------------------
(***************************************************************************)
(* Instances of HNDay for TLC: two item types that share an item, and      *)
(* three tables, one of which gets no row on this day.                     *)
(***************************************************************************)
EXTENDS HNDay, TLC

CONSTANTS c1, s1

MCCovered == <<{c1, s1}, {s1}>>

MCTables == {"posts", "urls", "hashtags"}

MCYields == [posts |-> {c1, s1}, urls |-> {c1}, hashtags |-> {}]

FlowSymmetry == Permutations(Runs) \cup Permutations(Norms)
=============================================================================
