---------------------------- MODULE MCFreshness ----------------------------
(* Instances of Freshness small enough to enumerate. *)
EXTENDS Freshness, TLC

\* Commands are interchangeable.
CommandSymmetry == Permutations(Checkers)
=============================================================================
