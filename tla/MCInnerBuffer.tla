--------------------------- MODULE MCInnerBuffer ---------------------------
(***************************************************************************)
(* InnerBuffer on small instances.                                         *)
(***************************************************************************)
EXTENDS InnerBuffer
=============================================================================
