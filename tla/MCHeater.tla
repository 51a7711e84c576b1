------------------------------- MODULE MCHeater -------------------------------
(* Values for TLC: at the target, too cold or too hot, by a little or a lot. *)
EXTENDS Heater

MCDeltas == -2 .. 2

=============================================================================
