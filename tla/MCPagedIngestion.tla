-------------------------- MODULE MCPagedIngestion --------------------------
(***************************************************************************)
(* Instances of PagedIngestion for TLC: a day of eight seconds, cut into   *)
(* two windows for the first type and one for the second.  Item 4 is at an *)
(* edge for the first type only, and three items share a window.           *)
(***************************************************************************)
EXTENDS PagedIngestion, TLC

MCListed == <<{1, 2, 3, 4}, {4, 5}>>
MCAt == <<1, 2, 3, 4, 6>>
MCWidth == <<4, 8>>

RunSymmetry == Permutations(Runs)
=============================================================================
