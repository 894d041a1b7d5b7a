----------------------------- MODULE Sterilizer -----------------------------
(***************************************************************************)
(* The sterilizer thread and its result list.  One pass of the thread loop *)
(* handles at most one message and then runs the activity of the state it  *)
(* is in: record a sample every save interval, save the list to the card,  *)
(* or print it.                                                            *)
(*                                                                         *)
(* Time is counted in passes: until is the number of passes until the save *)
(* time.  A list item is TRUE for a sterile sample, FALSE for a failure.   *)
(* The temperature comes from the regulator (getCurrentTemp).              *)
(***************************************************************************)
EXTENDS Mailboxes, FileBuffers

CONSTANTS
  RESULT_LIST_SIZE,      \* items of the result list (61 in appconf.h)
  NUM_OF_TEMP_SWING,     \* 5 in appconf.h
  SAVE_INTERVAL          \* passes in a save interval (60 s of 10 ms passes)

ASSUME SterilizerConstants ==
  /\ RESULT_LIST_SIZE \in Nat \ {0}
  /\ NUM_OF_TEMP_SWING \in Nat
  /\ SAVE_INTERVAL \in Nat \ {0, 1}

VARIABLES
  steril_state,   \* sterilizer.state
  list,           \* the items of the result list, oldest first
  finalresult,    \* result.finalresult
  num_of_swing,   \* sterilizer.num_of_swing
  until,          \* passes until result.savetime, 0 when it is reached
  ster_pc,        \* where the thread is in its loop
  lines           \* lines that saveString has not yet posted

sterilizer == <<steril_state, list, finalresult, num_of_swing, until, ster_pc,
                lines>>

SterilizerState == {"INIT", "STOP", "ACTIVE", "PRINT", "SAVE", "ERROR"}
SterilizerPc    == {"fetch", "start", "stop", "state", "end", "write", "print"}

\* The lines around the items: date, column titles and result.
ExtraLines == 3

SterilizerTypeOK ==
  /\ steril_state \in SterilizerState
  /\ list \in Seq(BOOLEAN)
  /\ Len(list) <= RESULT_LIST_SIZE
  /\ finalresult \in BOOLEAN
  /\ num_of_swing \in 0 .. NUM_OF_TEMP_SWING + 1
  /\ until \in 0 .. SAVE_INTERVAL
  /\ ster_pc \in SterilizerPc
  /\ lines \in 0 .. RESULT_LIST_SIZE + ExtraLines

SterilizerInit ==
  /\ steril_state = "INIT"
  /\ list = << >>
  /\ finalresult = FALSE
  /\ num_of_swing = 0
  /\ until = 0
  /\ ster_pc = "fetch"
  /\ lines = 0

-----------------------------------------------------------------------------
(***************************************************************************)
(* Messages: which are accepted, the state they lead to, where the pass    *)
(* goes on.                                                                *)
(***************************************************************************)
SterTakeMail ==
  /\ ster_pc = "fetch"
  /\ steril_mb # << >>
  /\ steril_mb' = Tail(steril_mb)

\* Mutant: the end of the sensor initialisation is accepted in every state.
IgnoredNotInit(msg) ==
  \/ msg = "START" /\ steril_state # "STOP"
  \/ msg = "STOP" /\ steril_state # "ACTIVE"
  \/ msg = "PRINT" /\ steril_state # "STOP"

\* Mutant: an error is only of interest while a run is active.
IgnoredErrorWhenIdle(msg) ==
  \/ msg = "SENSOR_INIT_END" /\ steril_state # "INIT"
  \/ msg = "START" /\ steril_state # "STOP"
  \/ msg \in {"STOP", "STOPERROR"} /\ steril_state # "ACTIVE"
  \/ msg = "PRINT" /\ steril_state # "STOP"

\* A message that the state does not accept.
Ignored(msg) ==
  \/ msg = "SENSOR_INIT_END" /\ steril_state # "INIT"
  \/ msg = "START" /\ steril_state # "STOP"
  \/ msg = "STOP" /\ steril_state # "ACTIVE"
  \/ msg = "PRINT" /\ steril_state # "STOP"

SterIgnore ==
  /\ SterTakeMail
  /\ Ignored(Head(steril_mb))
  /\ ster_pc' = "state"
  /\ UNCHANGED <<steril_state, list, finalresult, num_of_swing, until, lines,
                 error_mb, fuzzyreg_mb, fileBuffers>>

SterNoMail ==
  /\ ster_pc = "fetch"
  /\ steril_mb = << >>
  /\ ster_pc' = "state"
  /\ UNCHANGED <<steril_state, list, finalresult, num_of_swing, until, lines,
                 mailboxes, fileBuffers>>

\* SENSOR_INIT_END, PRINT and STOPERROR only change the state.
SterChangeState ==
  /\ SterTakeMail
  /\ LET msg == Head(steril_mb)
     IN  /\ ~Ignored(msg)
         /\ \/ msg = "SENSOR_INIT_END" /\ steril_state' = "STOP"
            \/ msg = "PRINT" /\ steril_state' = "PRINT"
            \/ msg = "STOPERROR" /\ steril_state' = "ERROR"
  /\ ster_pc' = "state"
  /\ UNCHANGED <<list, finalresult, num_of_swing, until, lines, error_mb,
                 fuzzyreg_mb, fileBuffers>>

\* Mutant: the result of the last run is not reset.
SterBeginStartKeepsResult ==
  /\ SterTakeMail
  /\ Head(steril_mb) = "START"
  /\ steril_state = "STOP"
  /\ list' = << >>
  /\ ster_pc' = "start"
  /\ UNCHANGED <<steril_state, finalresult, num_of_swing, until, lines,
                 error_mb, fuzzyreg_mb, fileBuffers>>

\* Mutant: a run can be started while a result is being saved.
SterBeginStartAnytime ==
  /\ SterTakeMail
  /\ Head(steril_mb) = "START"
  /\ list' = << >>
  /\ finalresult' = FALSE
  /\ ster_pc' = "start"
  /\ UNCHANGED <<steril_state, num_of_swing, until, lines, error_mb,
                 fuzzyreg_mb, fileBuffers>>

\* startRoutine up to the mail to the regulator.
SterBeginStart ==
  /\ SterTakeMail
  /\ Head(steril_mb) = "START"
  /\ steril_state = "STOP"
  /\ list' = << >>
  /\ finalresult' = FALSE
  /\ ster_pc' = "start"
  /\ UNCHANGED <<steril_state, num_of_swing, until, lines, error_mb,
                 fuzzyreg_mb, fileBuffers>>

SterStart ==
  /\ ster_pc = "start"
  /\ SendMailToRegulator("START")
  /\ until' = 0
  /\ steril_state' = "ACTIVE"
  /\ num_of_swing' = 0
  /\ ster_pc' = "state"
  /\ UNCHANGED <<list, finalresult, lines, error_mb, steril_mb, fileBuffers>>

SterBeginStop ==
  /\ SterTakeMail
  /\ Head(steril_mb) = "STOP"
  /\ steril_state = "ACTIVE"
  /\ ster_pc' = "stop"
  /\ UNCHANGED <<steril_state, list, finalresult, num_of_swing, until, lines,
                 error_mb, fuzzyreg_mb, fileBuffers>>

\* The thread sleeps and begins its next pass.
Sleep ==
  /\ ster_pc' = "fetch"
  /\ until' = IF until = 0 THEN 0 ELSE until - 1

\* Mutant: a run that ends by itself leaves the regulator alone.
SterStopWithoutMail ==
  /\ steril_state' = "SAVE"
  /\ \/ /\ ster_pc = "stop" /\ ster_pc' = "state"
        /\ SendMailToRegulator("STOP")
        /\ UNCHANGED until
     \/ ster_pc = "end" /\ Sleep /\ UNCHANGED fuzzyreg_mb
  /\ UNCHANGED <<list, finalresult, num_of_swing, lines, error_mb, steril_mb,
                 fileBuffers>>

\* stopRoutine, called for a message (the pass goes on in SAVE) or by the
\* ACTIVE activity (the pass ends).
SterStop ==
  /\ SendMailToRegulator("STOP")
  /\ steril_state' = "SAVE"
  /\ \/ ster_pc = "stop" /\ ster_pc' = "state" /\ UNCHANGED until
     \/ ster_pc = "end" /\ Sleep
  /\ UNCHANGED <<list, finalresult, num_of_swing, lines, error_mb, steril_mb,
                 fileBuffers>>

-----------------------------------------------------------------------------
(***************************************************************************)
(* The activity of the states.                                             *)
(***************************************************************************)
Activity(state) == ster_pc = "state" /\ steril_state = state

SterIdle ==
  /\ \E s \in {"INIT", "STOP", "ERROR"} : Activity(s)
  /\ Sleep
  /\ UNCHANGED <<steril_state, list, finalresult, num_of_swing, lines,
                 mailboxes, fileBuffers>>

\* putResultToList; without a free item nothing is recorded.
PutResult(sterile) ==
  list' = IF Len(list) < RESULT_LIST_SIZE THEN Append(list, sterile) ELSE list

\* The end of a pass that has moved the save time one interval on.
SleepAfterSave ==
  /\ ster_pc' = "fetch"
  /\ until' = SAVE_INTERVAL - 1

\* A sterile sample is recorded.  The pass ends without looking at the size.
SterRecord(sterile) ==
  /\ Activity("ACTIVE")
  /\ until = 0
  /\ sterile
  /\ PutResult(sterile)
  /\ SleepAfterSave
  /\ UNCHANGED <<steril_state, finalresult, num_of_swing, lines, mailboxes,
                 fileBuffers>>

\* The temperature has left the sterile range: the list begins anew.
SterSwing(sterile) ==
  /\ Activity("ACTIVE")
  /\ until = 0
  /\ ~sterile
  /\ list # << >>
  /\ num_of_swing <= NUM_OF_TEMP_SWING
  /\ num_of_swing' = num_of_swing + 1
  /\ list' = << >>
  /\ SleepAfterSave
  /\ UNCHANGED <<steril_state, finalresult, lines, mailboxes, fileBuffers>>

\* It has done so too often: the failure is recorded and the run ends.
SterFail(sterile) ==
  /\ Activity("ACTIVE")
  /\ until = 0
  /\ ~sterile
  /\ list # << >>
  /\ num_of_swing > NUM_OF_TEMP_SWING
  /\ PutResult(sterile)
  /\ finalresult' = FALSE
  /\ ster_pc' = "end"
  /\ UNCHANGED <<steril_state, num_of_swing, until, lines, mailboxes,
                 fileBuffers>>

\* Nothing is due, or nothing sterile was seen yet: is the list complete?
SterCheckSize(sterile) ==
  /\ Activity("ACTIVE")
  /\ until > 0 \/ (~sterile /\ list = << >>)
  /\ IF Len(list) = RESULT_LIST_SIZE
     THEN /\ finalresult' = TRUE
          /\ ster_pc' = "end"
          /\ UNCHANGED until
     ELSE /\ IF until = 0 THEN SleepAfterSave ELSE Sleep
          /\ UNCHANGED finalresult
  /\ UNCHANGED <<steril_state, list, num_of_swing, lines, mailboxes,
                 fileBuffers>>

\* Mutant: a file that does not open is not an end of the save.
SterSkipSaveOnlyEmpty ==
  /\ Activity("SAVE")
  /\ list = << >>
  /\ steril_state' = "STOP"
  /\ Sleep
  /\ UNCHANGED <<list, finalresult, num_of_swing, lines, mailboxes,
                 fileBuffers>>

\* SAVE with an empty list, or with a file that does not open.
SterSkipSave ==
  /\ Activity("SAVE")
  /\ steril_state' = "STOP"
  /\ Sleep
  /\ UNCHANGED <<list, finalresult, num_of_swing, lines, mailboxes,
                 fileBuffers>>

SterOpenResult ==
  /\ Activity("SAVE")
  /\ list # << >>
  /\ CanOpenFile
  /\ lines' = Len(list) + ExtraLines
  /\ ster_pc' = "write"
  /\ UNCHANGED <<steril_state, list, finalresult, num_of_swing, until,
                 mailboxes, fileBuffers>>

\* saveString waits for an empty item; the result file is closed after the
\* last line.
SterSaveString ==
  /\ ster_pc = "write"
  /\ PutResultItem
  /\ lines' = lines - 1
  /\ IF lines = 1
     THEN steril_state' = "STOP" /\ Sleep
     ELSE UNCHANGED <<steril_state, ster_pc, until>>
  /\ UNCHANGED <<list, finalresult, num_of_swing, mailboxes, sdc, log_free>>

\* The list goes to the printer buffer, which the printer thread always
\* drains: printing takes some time and ends.
SterBeginPrint ==
  /\ Activity("PRINT")
  /\ ster_pc' = "print"
  /\ UNCHANGED <<steril_state, list, finalresult, num_of_swing, until, lines,
                 mailboxes, fileBuffers>>

SterEndPrint ==
  /\ ster_pc = "print"
  /\ steril_state' = "STOP"
  /\ Sleep
  /\ UNCHANGED <<list, finalresult, num_of_swing, lines, mailboxes,
                 fileBuffers>>

\* One step of the thread, when getCurrentTemp says sterile or not.
Threadsterilizer(sterile) ==
  \/ SterIgnore \/ SterNoMail \/ SterChangeState
  \/ SterBeginStart \/ SterStart \/ SterBeginStop \/ SterStop
  \/ SterIdle \/ SterRecord(sterile) \/ SterSwing(sterile) \/ SterFail(sterile)
  \/ SterCheckSize(sterile) \/ SterSkipSave \/ SterOpenResult
  \/ SterSaveString \/ SterBeginPrint \/ SterEndPrint
=============================================================================
