--------------------------- MODULE MCCardHandler ---------------------------
(***************************************************************************)
(* CardHandler on small instances: the debounce counter takes two polls    *)
(* instead of ten, a buffer holds one line instead of ten.                 *)
(***************************************************************************)
EXTENDS CardHandler

\* A good card and a full one.
MCCards == {"READY", "FULL"}

\* Both steps of mounting a card may fail.
MCFailures == {"connect", "mount"}
=============================================================================
