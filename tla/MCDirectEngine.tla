--------------------------- MODULE MCDirectEngine ---------------------------
(* The review loop on small instances; the bounds are in the .cfg files.     *)
EXTENDS DirectEngine, TLC
=============================================================================
