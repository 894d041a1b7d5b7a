--------------------------- MODULE MCHeatControl ---------------------------
(***************************************************************************)
(* HeatControl on small instances.                                         *)
(***************************************************************************)
EXTENDS HeatControl

MCDutyCycles == {0, 1}
=============================================================================
