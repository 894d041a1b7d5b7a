----------------------------- MODULE Regulator -----------------------------
(***************************************************************************)
(* The regulator thread, its three heater channels and the PWM period      *)
(* interrupt.  One pass of the thread loop                                 *)
(*   - handles at most one message (START, STOP, DISABLE),                 *)
(*   - takes at most one sample from the temperature FIFO and, when the    *)
(*     regulator is ACTIVE, sets the duty cycle of every channel, reports  *)
(*     critical temperatures and slopes, and writes the log.               *)
(* Every step below ends where another thread or an interrupt may run.     *)
(*                                                                         *)
(* Temperatures are abstracted to the decisions taken on them: whether a   *)
(* sample is sterile, whether a channel is too hot or rises too fast, and  *)
(* which duty cycle the fuzzy logic returns.                               *)
(***************************************************************************)
EXTENDS Mailboxes, FileBuffers

CONSTANTS
  CHANNEL_NUM,   \* heater channels (3 in appconf.h)
  DutyCycles     \* the values defuzzyfication may return

ASSUME RegulatorConstants ==
  /\ CHANNEL_NUM \in Nat \ {0}
  /\ DutyCycles \subseteq Nat
  /\ 0 \in DutyCycles

VARIABLES
  reg_state,     \* fuzzyreg.state
  dutycycle,     \* fuzzyreg.dutycycle
  is_sterile,    \* fuzzyreg.curr_temp.is_sterile
  reg_pc,        \* where the thread is in its loop
  reg_ch,        \* the loop variable i
  reg_target,    \* the state the running start/stop/disable routine ends in
  ccr,           \* the PWM compare register of each channel: 0 is no heat
  notify         \* whether the period interrupt of the channel is enabled

regulator == <<reg_state, dutycycle, is_sterile, reg_pc, reg_ch, reg_target,
               ccr, notify>>

Channel  == 0 .. CHANNEL_NUM - 1
RegState == {"STOP", "ACTIVE", "DISABLE"}
RegPc    == {"fetch", "out", "ntf", "sample", "temp", "postT", "duty",
             "postD", "open", "log1", "log2", "fuzzy", "postF"}

RegulatorTypeOK ==
  /\ reg_state \in RegState
  /\ dutycycle \in [Channel -> DutyCycles]
  /\ is_sterile \in BOOLEAN
  /\ reg_pc \in RegPc
  /\ reg_ch \in Channel
  /\ reg_target \in RegState
  /\ ccr \in [Channel -> DutyCycles]
  /\ notify \in [Channel -> BOOLEAN]

RegulatorInit ==
  /\ reg_state = "STOP"
  /\ dutycycle = [c \in Channel |-> 0]
  /\ is_sterile = FALSE
  /\ reg_pc = "fetch"
  /\ reg_ch = 0
  /\ reg_target = "STOP"
  /\ ccr = [c \in Channel |-> 0]
  /\ notify = [c \in Channel |-> FALSE]

-----------------------------------------------------------------------------
(***************************************************************************)
(* Messages.  Only a stopped regulator starts and only an active one       *)
(* stops, a disable is always carried out.                                 *)
(***************************************************************************)
\* Mutant: only an active regulator can be disabled.
AcceptsDisableWhenActive(msg) ==
  CASE msg = "START"   -> reg_state = "STOP"
    [] msg = "STOP"    -> reg_state = "ACTIVE"
    [] msg = "DISABLE" -> reg_state = "ACTIVE"

\* Mutant: a start is accepted by every regulator that does not heat.
AcceptsStartUnlessActive(msg) ==
  CASE msg = "START"   -> reg_state # "ACTIVE"
    [] msg = "STOP"    -> reg_state = "ACTIVE"
    [] msg = "DISABLE" -> TRUE

Accepts(msg) ==
  CASE msg = "START"   -> reg_state = "STOP"
    [] msg = "STOP"    -> reg_state = "ACTIVE"
    [] msg = "DISABLE" -> TRUE

TargetOf(msg) ==
  CASE msg = "START"   -> "ACTIVE"
    [] msg = "STOP"    -> "STOP"
    [] msg = "DISABLE" -> "DISABLE"

RegFetch ==
  /\ reg_pc = "fetch"
  /\ fuzzyreg_mb # << >>
  /\ LET msg == Head(fuzzyreg_mb)
     IN  IF Accepts(msg)
         THEN reg_pc' = "out" /\ reg_ch' = 0 /\ reg_target' = TargetOf(msg)
         ELSE reg_pc' = "sample" /\ UNCHANGED <<reg_ch, reg_target>>
  /\ fuzzyreg_mb' = Tail(fuzzyreg_mb)
  /\ UNCHANGED <<reg_state, dutycycle, is_sterile, ccr, notify,
                 error_mb, steril_mb, fileBuffers>>

RegNoMail ==
  /\ reg_pc = "fetch"
  /\ fuzzyreg_mb = << >>
  /\ reg_pc' = "sample"
  /\ UNCHANGED <<reg_state, dutycycle, is_sterile, reg_ch, reg_target, ccr,
                 notify, mailboxes, fileBuffers>>

\* First call of a routine for a channel: pwmEnableChannel with the duty
\* cycle, or pwmDisableChannel.
RegOutput ==
  /\ reg_pc = "out"
  /\ ccr' = [ccr EXCEPT ![reg_ch] = IF reg_target = "ACTIVE"
                                    THEN dutycycle[reg_ch] ELSE 0]
  /\ reg_pc' = "ntf"
  /\ UNCHANGED <<reg_state, dutycycle, is_sterile, reg_ch, reg_target, notify,
                 mailboxes, fileBuffers>>

\* Mutant: the duty cycle survives the stop and disable routines.
RegNotifyKeepsDuty ==
  /\ reg_pc = "ntf"
  /\ notify' = [notify EXCEPT ![reg_ch] = (reg_target = "ACTIVE")]
  /\ IF reg_ch = CHANNEL_NUM - 1
     THEN reg_pc' = "sample" /\ reg_ch' = 0 /\ reg_state' = reg_target
     ELSE reg_pc' = "out" /\ reg_ch' = reg_ch + 1 /\ UNCHANGED reg_state
  /\ UNCHANGED <<dutycycle, is_sterile, reg_target, ccr, mailboxes,
                 fileBuffers>>

\* Second call: the period interrupt is switched, stop and disable also
\* clear the duty cycle.  After the last channel the state changes.
RegNotify ==
  /\ reg_pc = "ntf"
  /\ notify' = [notify EXCEPT ![reg_ch] = (reg_target = "ACTIVE")]
  /\ dutycycle' = [dutycycle EXCEPT ![reg_ch] =
                     IF reg_target = "ACTIVE" THEN @ ELSE 0]
  /\ IF reg_ch = CHANNEL_NUM - 1
     THEN reg_pc' = "sample" /\ reg_ch' = 0 /\ reg_state' = reg_target
     ELSE reg_pc' = "out" /\ reg_ch' = reg_ch + 1 /\ UNCHANGED reg_state
  /\ UNCHANGED <<is_sterile, reg_target, ccr, mailboxes, fileBuffers>>

-----------------------------------------------------------------------------
(***************************************************************************)
(* Samples.                                                                *)
(***************************************************************************)
RegNoSample ==
  /\ reg_pc = "sample"
  /\ reg_pc' = "fetch"
  /\ UNCHANGED <<reg_state, dutycycle, is_sterile, reg_ch, reg_target, ccr,
                 notify, mailboxes, fileBuffers>>

RegSample ==
  /\ reg_pc = "sample"
  /\ is_sterile' \in BOOLEAN
  /\ reg_pc' = IF reg_state = "ACTIVE" THEN "temp" ELSE "fetch"
  /\ reg_ch' = 0
  /\ UNCHANGED <<reg_state, dutycycle, reg_target, ccr, notify, mailboxes,
                 fileBuffers>>

\* Is the temperature of the channel critical?
RegCheckTemp ==
  /\ reg_pc = "temp"
  /\ reg_pc' \in {"postT", "duty"}
  /\ UNCHANGED <<reg_state, dutycycle, is_sterile, reg_ch, reg_target, ccr,
                 notify, mailboxes, fileBuffers>>

\* Mutant: the loop over the channels runs once too often.
NextChannelOffByOne ==
  IF reg_ch = CHANNEL_NUM
  THEN reg_pc' = "open" /\ reg_ch' = 0
  ELSE reg_pc' = "temp" /\ reg_ch' = reg_ch + 1

\* The pass goes on with the next channel, or with the log after the last.
NextChannel ==
  IF reg_ch = CHANNEL_NUM - 1
  THEN reg_pc' = "open" /\ reg_ch' = 0
  ELSE reg_pc' = "temp" /\ reg_ch' = reg_ch + 1

\* The fuzzy logic sets the duty cycle, the slope may be critical.
RegSetDuty ==
  /\ reg_pc = "duty"
  /\ \E d \in DutyCycles : dutycycle' = [dutycycle EXCEPT ![reg_ch] = d]
  /\ \/ NextChannel
     \/ reg_pc' = "postD" /\ UNCHANGED reg_ch
  /\ UNCHANGED <<reg_state, is_sterile, reg_target, ccr, notify, mailboxes,
                 fileBuffers>>

\* sendErrMail in the three places of a pass.
RegSendErrMail ==
  /\ SendErrMail
  /\ \/ reg_pc = "postT" /\ reg_pc' = "duty" /\ UNCHANGED reg_ch
     \/ reg_pc = "postD" /\ NextChannel
     \/ reg_pc = "postF" /\ reg_pc' = "fetch" /\ UNCHANGED reg_ch
  /\ UNCHANGED <<reg_state, dutycycle, is_sterile, reg_target, ccr, notify,
                 fuzzyreg_mb, steril_mb, fileBuffers>>

\* openLogFile may always fail, it succeeds only on a mounted card.
RegOpenLog ==
  /\ reg_pc = "open"
  /\ \/ CanOpenFile /\ reg_pc' = "log1"
     \/ reg_pc' = "fuzzy"
  /\ UNCHANGED <<reg_state, dutycycle, is_sterile, reg_ch, reg_target, ccr,
                 notify, mailboxes, fileBuffers>>

\* saveLog posts two items and waits for an empty item before each.
RegSaveLog ==
  /\ PutLogItem
  /\ \/ reg_pc = "log1" /\ reg_pc' = "log2"
     \/ reg_pc = "log2" /\ reg_pc' = "fuzzy"
  /\ UNCHANGED <<reg_state, dutycycle, is_sterile, reg_ch, reg_target, ccr,
                 notify, mailboxes, sdc, result_free>>

\* Were there fuzzy logic errors?
RegFuzzyErrors ==
  /\ reg_pc = "fuzzy"
  /\ reg_pc' \in {"fetch", "postF"}
  /\ UNCHANGED <<reg_state, dutycycle, is_sterile, reg_ch, reg_target, ccr,
                 notify, mailboxes, fileBuffers>>

-----------------------------------------------------------------------------
\* The period interrupt of a channel, once a second while it is enabled.
PwmPeriod(c) ==
  /\ notify[c]
  /\ ccr' = [ccr EXCEPT ![c] = dutycycle[c]]
  /\ UNCHANGED <<reg_state, dutycycle, is_sterile, reg_pc, reg_ch, reg_target,
                 notify, mailboxes, fileBuffers>>

Threadregulator ==
  \/ RegFetch \/ RegNoMail \/ RegOutput \/ RegNotify
  \/ RegNoSample \/ RegSample \/ RegCheckTemp \/ RegSetDuty
  \/ RegSendErrMail \/ RegOpenLog \/ RegSaveLog \/ RegFuzzyErrors

\* The regulator carries out a start, stop or disable routine.
InRoutine == reg_pc \in {"out", "ntf"}
=============================================================================
