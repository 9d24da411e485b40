--------------------------- MODULE MCAutoUpdate ---------------------------
(* Instances of AutoUpdate small enough to enumerate. *)
EXTENDS AutoUpdate, TLC

\* Workers are interchangeable.  Only safety properties use it.
WorkerSymmetry == Permutations(Workers)
=============================================================================
