------------------------- MODULE MCGtfsGenerations -------------------------
(* Instances of GtfsGenerations small enough to enumerate. *)
EXTENDS GtfsGenerations, TLC

\* Processes, readers and generations are interchangeable.  Only safety
\* properties are checked under symmetry.
Symmetry == Permutations(Procs) \cup Permutations(Readers) \cup Permutations(Gens)
=============================================================================
