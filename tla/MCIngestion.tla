----------------------------- MODULE MCIngestion -----------------------------
(***************************************************************************)
(* Instances of Ingestion for TLC: three item types, of which the last two *)
(* share an item (an Ask HN post is listed under "story" and "ask_hn").    *)
(***************************************************************************)
EXTENDS Ingestion, TLC

CONSTANTS c1, c2, s1

MCCovered == <<{c1, c2}, {s1}, {s1}>>

RunSymmetry == Permutations(Runs)
=============================================================================
