------------------------- MODULE MCGeocodeThrottle -------------------------
(* Instances of GeocodeThrottle small enough to enumerate. *)
EXTENDS GeocodeThrottle
=============================================================================
