---------------------------- MODULE HeatControl ----------------------------
(***************************************************************************)
(* The control core of the device: the regulator, the sterilizer and the   *)
(* errorhandler threads, composed over their mailboxes and file buffers,   *)
(* with the environment that drives them: buttons on the display, the end  *)
(* of the sensor initialisation, errors of sensors and fuses, the PWM      *)
(* period interrupts, the SD card.                                         *)
(*                                                                         *)
(* The threads interleave at every step.  The code's scheduler allows      *)
(* fewer interleavings (the errorhandler has the highest priority, the     *)
(* other two share one and yield only where they block), so what holds     *)
(* here does not rest on the priorities.                                   *)
(***************************************************************************)
EXTENDS Regulator, Sterilizer, ErrorHandler

CONSTANTS
  MaxPresses,   \* bound: button presses in a behaviour
  MaxFaults     \* bound: sensor and fuse errors in a behaviour

ASSUME EnvironmentBounds ==
  /\ MaxPresses \in Nat
  /\ MaxFaults \in Nat

VARIABLES
  init_end,   \* the tempreader has posted SENSOR_INIT_END
  presses,    \* buttons pressed so far, for the bound
  faults      \* errors raised so far, for the bound

environment == <<init_end, presses, faults>>

vars == <<mailboxes, fileBuffers, regulator, sterilizer, errorhandler,
          environment>>

TypeOK ==
  /\ MailboxTypeOK
  /\ FileBufferTypeOK
  /\ RegulatorTypeOK
  /\ SterilizerTypeOK
  /\ ErrorHandlerTypeOK
  /\ init_end \in BOOLEAN
  /\ presses \in 0 .. MaxPresses
  /\ faults \in 0 .. MaxFaults

Init ==
  /\ MailboxInit
  /\ FileBufferInit
  /\ RegulatorInit
  /\ SterilizerInit
  /\ ErrorHandlerInit
  /\ init_end = FALSE
  /\ presses = 0
  /\ faults = 0

-----------------------------------------------------------------------------
(***************************************************************************)
(* The threads.                                                            *)
(***************************************************************************)
RegulatorStep ==
  /\ Threadregulator
  /\ UNCHANGED <<sterilizer, errorhandler, environment>>

SterilizerStep ==
  /\ Threadsterilizer(is_sterile)
  /\ UNCHANGED <<regulator, errorhandler, environment>>

ErrorHandlerStep ==
  /\ Threaderrorhandler
  /\ UNCHANGED <<fileBuffers, regulator, sterilizer, environment>>

(***************************************************************************)
(* The environment.                                                        *)
(***************************************************************************)
PwmInterrupt ==
  /\ \E c \in Channel : PwmPeriod(c)
  /\ UNCHANGED <<sterilizer, errorhandler, environment>>

\* A sensor fails, or a fuse is found blown after the debounce time.
RaiseError ==
  /\ faults < MaxFaults
  /\ faults' = faults + 1
  /\ SendErrMail
  /\ UNCHANGED <<fuzzyreg_mb, steril_mb, fileBuffers, regulator, sterilizer,
                 errorhandler, init_end, presses>>

\* The tempreader has put its first sample into the FIFO.
SensorInitEnd ==
  /\ ~init_end
  /\ init_end' = TRUE
  /\ SendMailToSterilizer("SENSOR_INIT_END")
  /\ UNCHANGED <<error_mb, fuzzyreg_mb, fileBuffers, regulator, sterilizer,
                 errorhandler, presses, faults>>

\* The display enables and disables its buttons later than the sterilizer
\* changes its state, so that any button may be pressed in any state.
PressButton ==
  /\ presses < MaxPresses
  /\ presses' = presses + 1
  /\ \E msg \in {"START", "STOP", "PRINT"} : SendMailToSterilizer(msg)
  /\ UNCHANGED <<error_mb, fuzzyreg_mb, fileBuffers, regulator, sterilizer,
                 errorhandler, init_end, faults>>

CardWrites ==
  /\ CardWriteLog \/ CardWriteResult
  /\ UNCHANGED <<mailboxes, regulator, sterilizer, errorhandler, environment>>

CardChanges ==
  /\ CardConnect \/ CardInsert \/ CardRemove
  /\ UNCHANGED <<mailboxes, regulator, sterilizer, errorhandler, environment>>

Next ==
  \/ RegulatorStep \/ SterilizerStep \/ ErrorHandlerStep
  \/ PwmInterrupt \/ RaiseError \/ SensorInitEnd \/ PressButton
  \/ CardWrites \/ CardChanges

Spec == Init /\ [][Next]_vars

(***************************************************************************)
(* Every thread loop sleeps for 10 ms and every thread gets the processor  *)
(* while the others sleep.  Nothing is assumed of buttons, errors and      *)
(* interrupts, of the card's coming and going, and of the cardhandler.     *)
(***************************************************************************)
Fairness ==
  /\ WF_vars(RegulatorStep)
  /\ WF_vars(SterilizerStep)
  /\ WF_vars(ErrorHandlerStep)

FairSpec == Spec /\ Fairness

-----------------------------------------------------------------------------
(***************************************************************************)
(* Safety.                                                                 *)
(***************************************************************************)
Holds(mb, msg) == \E k \in 1 .. Len(mb) : mb[k] = msg

\* The regulator is disabled, or on its way there whatever else is sent.
DisableUnderWay ==
  \/ reg_state = "DISABLE"
  \/ InRoutine /\ reg_target = "DISABLE"
  \/ Holds(fuzzyreg_mb, "DISABLE")

\* Fail safe: the sterilizer is never told of an error, or in its error
\* state, unless the heaters are already being disabled.  The errorhandler
\* sends the disable mail before the error mail (errorhandler.c 211-212).
FailSafe ==
  steril_state = "ERROR" \/ Holds(steril_mb, "STOPERROR") => DisableUnderWay

\* An error that got a place on the error list disables the heaters, even
\* when later errors find the list full (errorhandler.c 189-219).
ListedErrorDisables ==
  (erroritems > 0 /\ err_pc # "disable") \/ erroritems > 1 => DisableUnderWay

\* A regulator that is not active has no duty cycle and no interrupt that
\* would apply one; at most the routine that starts it has enabled the
\* interrupts of the channels it has gone through (regulator.c 330-383).
QuietUnlessActive ==
  reg_state # "ACTIVE" =>
    \A c \in Channel :
      /\ dutycycle[c] = 0
      /\ notify[c] => InRoutine /\ reg_target = "ACTIVE" /\ c < reg_ch

\* A regulator that has stopped or disabled its channels gives no heat.  The
\* comment of both routines says "Disable pwm channels and clear duty cycle"
\* (regulator.c 353, 370).  It does not hold: see the README.
NoHeatUnlessActive ==
  reg_state # "ACTIVE" /\ ~InRoutine => \A c \in Channel : ccr[c] = 0

\* What the regulator's state will be when it has no mail left: disable
\* mails win, otherwise the newest mail decides.
ReplayedState ==
  IF DisableUnderWay THEN "DISABLE"
  ELSE IF fuzzyreg_mb # << >>
       THEN TargetOf(fuzzyreg_mb[Len(fuzzyreg_mb)])
       ELSE IF InRoutine THEN reg_target ELSE reg_state

\* The heaters follow the sterilizer: once the mail is read the regulator is
\* active exactly while the sterilizer is recording, unless it is disabled.
\* Nobody heats without a run, and no run is left without heat, whatever the
\* order of buttons, samples and errors (sterilizer.c 244-279).
HeatFollowsSterilizer ==
  ReplayedState # "DISABLE" =>
    (ReplayedState = "ACTIVE" <=> steril_state = "ACTIVE")

\* A run is called a success only with a full list of sterile samples, also
\* later, when the list is saved and printed (sterilizer.c 320-346, 375).
SuccessIsSterile ==
  finalresult => /\ Len(list) = RESULT_LIST_SIZE
                 /\ \A k \in 1 .. Len(list) : list[k]

-----------------------------------------------------------------------------
(***************************************************************************)
(* What a step may never do.                                               *)
(***************************************************************************)

\* A disabled regulator and a sterilizer in error stay so until the next
\* boot: no button, late initialisation mail or end of a save gets them out.
ErrorsAreFinal ==
  [][/\ reg_state = "DISABLE" => reg_state' = "DISABLE"
     /\ steril_state = "ERROR" => steril_state' = "ERROR"]_vars

\* Once a disable is under way, the regulator begins no other routine: it
\* does not read a start or a stop that was sent before, because the disable
\* mail is posted ahead of all the others (errorhandler.c 211).
DisableComesFirst ==
  [][DisableUnderWay /\ ~InRoutine /\ InRoutine' => reg_target' = "DISABLE"]_vars

\* Only the first record of a run or a swing begins a list: records are
\* appended, never lost or rewritten, until the list is cleared as a whole,
\* which only happens while no result is being saved or printed.
RecordsAreKept ==
  [][\/ list' = list
     \/ \E b \in BOOLEAN : list' = Append(list, b)
     \/ list' = << >> /\ steril_state \in {"STOP", "ACTIVE"}]_list

-----------------------------------------------------------------------------
(***************************************************************************)
(* The control core is a fail-safe heater.  The sterilizer's state is the  *)
(* run; what the regulator is heading for, with the mails it has yet to    *)
(* read, is the heat.                                                      *)
(***************************************************************************)
H == INSTANCE Heater WITH
       run      <- steril_state = "ACTIVE",
       heat     <- ReplayedState = "ACTIVE",
       disabled <- DisableUnderWay,
       told     <- steril_state = "ERROR"

\* Every step of threads, interrupts, buttons, sensors and card starts or
\* stops a run with its heat, disables the heat, tells the sterilizer of it
\* afterwards, or changes none of these (sterilizer.c 244-279, 299-316;
\* regulator.c 330-383, 435-445; errorhandler.c 211-212).
IsFailSafeHeater == H!Spec

-----------------------------------------------------------------------------
(***************************************************************************)
(* Liveness.                                                               *)
(***************************************************************************)

\* saveLog waits for an empty item of the log buffer, saveString for one of
\* the result buffer.
LogStalled  == reg_pc \in {"log1", "log2"} /\ log_free = 0
SaveStalled == ster_pc = "write" /\ result_free = 0

\* Every reported error disables the heaters, unless the regulator waits for
\* ever for room in the log buffer (no card, or a full one).
ErrorDisablesHeat ==
  (error_mb > 0 ~> reg_state = "DISABLE") \/ <>[]LogStalled

\* Every reported error stops the run, unless the sterilizer waits for ever
\* for room in the result buffer.
ErrorStopsRun ==
  (error_mb > 0 ~> steril_state = "ERROR") \/ <>[]SaveStalled

\* The end of a run ends the heating: a regulator whose sterilizer has left
\* ACTIVE does not stay active unless a new run is started.
EndOfRunStopsHeat ==
  (steril_state = "SAVE" ~> reg_state # "ACTIVE") \/ <>[]LogStalled

\* Saving and printing come to an end.
SaveEnds ==
  (steril_state \in {"SAVE", "PRINT"} ~> steril_state \in {"STOP", "ERROR"})
    \/ <>[]SaveStalled
=============================================================================
