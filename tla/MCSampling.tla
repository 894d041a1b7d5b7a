----------------------------- MODULE MCSampling -----------------------------
(***************************************************************************)
(* Sampling with two sensors and windows of two values.                    *)
(***************************************************************************)
EXTENDS Sampling

\* 16#25FC and 16#2604: between the two both bytes change, so that the low
\* byte of one with the high byte of the other makes 9476 or 9980, almost a
\* whole low byte off.  The means lie around 9600, up to which only the rules
\* for "melting" and "cold" apply, and where "cold" has all the weight.
MCReadings == {9724, 9732}
=============================================================================
