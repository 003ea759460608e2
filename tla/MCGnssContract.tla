---------------------------- MODULE MCGnssContract ----------------------------
EXTENDS GnssContract

(* A track of four points, as close as may be in one place.                *)
MCElapsed == [p \in 0 .. 3 |-> <<0, 4, 7, 12>>[p + 1]]
=============================================================================
