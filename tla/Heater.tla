------------------------------- MODULE Heater -------------------------------
(***************************************************************************)
(* What the control core promises, without its threads, mailboxes and      *)
(* loops: a fail-safe heater.  A run and its heat begin together and end   *)
(* together.  A disable takes the heat away for good, from a running and   *)
(* from an idle heater, and only then is the run told of the error, after  *)
(* which no run begins again.  A run that is started between the disable   *)
(* and the telling gets no heat.                                           *)
(***************************************************************************)

VARIABLES
  run,        \* a run is being recorded
  heat,       \* the heaters are to be on, once all mails are read
  disabled,   \* the heaters are to be off until the next boot
  told        \* the sterilizer is in its error state

heater == <<run, heat, disabled, told>>

Init ==
  /\ run = FALSE
  /\ heat = FALSE
  /\ disabled = FALSE
  /\ told = FALSE

Start ==
  /\ ~run
  /\ ~told
  /\ run' = TRUE
  /\ heat' = ~disabled
  /\ UNCHANGED <<disabled, told>>

Stop ==
  /\ run
  /\ run' = FALSE
  /\ heat' = FALSE
  /\ UNCHANGED <<disabled, told>>

Disable ==
  /\ ~disabled
  /\ disabled' = TRUE
  /\ heat' = FALSE
  /\ UNCHANGED <<run, told>>

Tell ==
  /\ disabled
  /\ ~told
  /\ told' = TRUE
  /\ run' = FALSE
  /\ UNCHANGED <<heat, disabled>>

Next == Start \/ Stop \/ Disable \/ Tell

Spec == Init /\ [][Next]_heater
=============================================================================
