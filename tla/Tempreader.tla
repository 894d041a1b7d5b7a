----------------------------- MODULE Tempreader -----------------------------
(***************************************************************************)
(* The tempreader thread.  Once a second it reads each temperature sensor  *)
(* in two I2C transfers, low byte first, while the sensor goes on          *)
(* measuring, and shifts the value into the channel's window of the last   *)
(* RUNNING_AVG_FIFO_SIZE values.  When the windows are full it reports,    *)
(* through a hysteresis, the mean of each channel, its change since the    *)
(* last report, and whether all channels are sterile.                      *)
(*                                                                         *)
(* Temperatures are sensor units of 1/128 degree, two bytes wide.          *)
(***************************************************************************)
EXTENDS Integers, Sequences, Sums

CONSTANTS
  CHANNEL_NUM,             \* sensors (3 in appconf.h)
  RUNNING_AVG_FIFO_SIZE,   \* values of a window (16)
  H_DELTA,                 \* width of the hysteresis (4)
  STERILE_TEMP,            \* 14592, which is 114 degrees
  TEMP_FIFO_SIZE,          \* samples in the temperature FIFO (4)
  Readings,                \* what a sensor may measure
  NoReading,               \* history: a window entry that was never measured
  MaxFaults                \* bound: transfers that fail, or that come upon
                           \* another measurement than the one before

\* The range of an ADT7410 sensor is -55 to 150 degrees.
SensorRange == -7040 .. 19200

ASSUME TempreaderConstants ==
  /\ CHANNEL_NUM \in Nat \ {0}
  /\ RUNNING_AVG_FIFO_SIZE \in Nat \ {0}
  /\ H_DELTA \in 0 .. 256
  /\ STERILE_TEMP \in SensorRange
  /\ TEMP_FIFO_SIZE \in Nat \ {0}
  /\ Readings \subseteq SensorRange
  /\ NoReading \notin Int
  /\ MaxFaults \in Nat

VARIABLES
  tr_pc,        \* where the thread is: "init" or "loop"
  ch,           \* the loop variable of the channels
  tr_state,     \* tempreader.state: "INIT" until the first report
  sensorstate,  \* "INIT", "OK" or "ERROR" of each channel
  rxlow,        \* rxbuff[0], the low byte of the last value that was read
  res,          \* the local variable of that name
  runavg,       \* runavgfifo: the window of each channel, newest first
  runavg_size,  \* runavgfifo_size
  h_max, h_min, \* the hysteresis of each channel
  prev_temp,    \* what was reported last
  tempFIFO,     \* samples on the way to the regulator, oldest first
  truth,        \* history: what the sensors measured at the second transfer
  mixed,        \* history: the low byte of a value is of another measurement
  faults        \* how many transfers were disturbed so, for the bound

windows    == <<runavg, runavg_size>>
hysteresis == <<h_max, h_min, prev_temp>>
tempreader == <<tr_pc, ch, tr_state, sensorstate, rxlow, res, windows,
                hysteresis, truth, mixed, faults>>

Channel == 0 .. CHANNEL_NUM - 1
Slot    == 1 .. RUNNING_AVG_FIFO_SIZE

INT16_MAX == 32767
Int16     == -INT16_MAX - 1 .. INT16_MAX

Sample == [temp : [Channel -> Int16], dtemp : [Channel -> Int16],
           is_sterile : BOOLEAN]

TempreaderTypeOK ==
  /\ tr_pc \in {"init", "loop"}
  /\ ch \in 0 .. CHANNEL_NUM
  /\ tr_state \in {"INIT", "OK"}
  /\ sensorstate \in [Channel -> {"INIT", "OK", "ERROR"}]
  /\ rxlow \in 0 .. 255
  /\ res \in Int16
  /\ runavg \in [Channel -> [Slot -> Int16]]
  /\ runavg_size \in 0 .. RUNNING_AVG_FIFO_SIZE
  /\ h_max \in [Channel -> Int16]
  /\ h_min \in [Channel -> Int16]
  /\ prev_temp \in [Channel -> Int16]
  /\ tempFIFO \in Seq(Sample)
  /\ Len(tempFIFO) <= TEMP_FIFO_SIZE
  /\ truth \in [Channel -> [Slot -> Readings \cup {NoReading}]]
  /\ mixed \in [Channel -> [Slot -> BOOLEAN]]
  /\ faults \in 0 .. MaxFaults

TempreaderInit ==
  /\ tr_pc = "init"
  /\ ch = 0
  /\ tr_state = "INIT"
  /\ sensorstate = [c \in Channel |-> "INIT"]
  /\ rxlow = 0
  /\ res = 0
  /\ runavg = [c \in Channel |-> [i \in Slot |-> 0]]
  /\ runavg_size = 0
  /\ h_max = [c \in Channel |-> H_DELTA]
  /\ h_min = [c \in Channel |-> 0]
  /\ prev_temp = [c \in Channel |-> 0]
  /\ tempFIFO = << >>
  /\ truth = [c \in Channel |-> [i \in Slot |-> NoReading]]
  /\ mixed = [c \in Channel |-> [i \in Slot |-> FALSE]]
  /\ faults = 0

-----------------------------------------------------------------------------
(***************************************************************************)
(* Configuring the sensors at the start of the thread.                     *)
(***************************************************************************)
Fault ==
  /\ faults < MaxFaults
  /\ faults' = faults + 1

\* The sensor does not answer; its error is mailed.
SensorFails == sensorstate' = [sensorstate EXCEPT ![ch] = "ERROR"] /\ Fault

ConfigureSensor ==
  /\ tr_pc = "init"
  /\ ch < CHANNEL_NUM
  /\ SensorFails \/ UNCHANGED <<sensorstate, faults>>
  /\ ch' = ch + 1
  /\ UNCHANGED <<tr_pc, tr_state, rxlow, res, windows, hysteresis, tempFIFO,
                 truth, mixed>>

StartTimer ==
  /\ tr_pc = "init"
  /\ ch = CHANNEL_NUM
  /\ tr_pc' = "loop"
  /\ ch' = 0
  /\ UNCHANGED <<tr_state, sensorstate, rxlow, res, windows, hysteresis,
                 tempFIFO, truth, mixed, faults>>

-----------------------------------------------------------------------------
(***************************************************************************)
(* One pass: all channels are read.  The thread lets others run only in    *)
(* I2C transfers and when it waits for the timer, which it does before     *)
(* channel 0.                                                              *)
(***************************************************************************)
Reading == tr_pc = "loop" /\ ch < CHANNEL_NUM

\* The newest value of a window is its first.
Shifted(window, value) ==
  [i \in Slot |-> IF i = 1 THEN value ELSE window[i - 1]]

\* The two bytes of a value, and the value of two bytes.
Low(value) == value % 256
Combined(value, low) == (value \div 256) * 256 + low

\* The second transfer succeeds, and its status alone is looked at: if the
\* first one failed, rxbuff[0] still holds the low byte read before.  The
\* sensor may measure another value between the two.
ReadSensor ==
  /\ Reading
  /\ sensorstate[ch] # "ERROR"
  /\ \E early, value \in Readings :
       /\ \/ rxlow' = Low(value) /\ UNCHANGED faults
          \/ rxlow' = Low(early) /\ Fault
          \/ UNCHANGED rxlow /\ Fault
       /\ res' = Combined(value, rxlow')
       /\ truth' = [truth EXCEPT ![ch] = Shifted(@, value)]
       /\ mixed' = [mixed EXCEPT ![ch] = Shifted(@, rxlow' # Low(value))]
  /\ runavg' = [runavg EXCEPT ![ch] = Shifted(@, res')]
  /\ ch' = ch + 1
  /\ UNCHANGED <<tr_pc, tr_state, sensorstate, runavg_size, hysteresis,
                 tempFIFO>>

\* The second transfer fails: the channel is given up, and keeps its window
\* in this pass.  The first one may have succeeded.
ReadFails ==
  /\ Reading
  /\ sensorstate[ch] # "ERROR"
  /\ SensorFails
  /\ \/ \E value \in Readings : rxlow' = Low(value)
     \/ UNCHANGED rxlow
  /\ ch' = ch + 1
  /\ UNCHANGED <<tr_pc, tr_state, res, windows, hysteresis, tempFIFO, truth,
                 mixed>>

\* Mutant: a channel that was given up is waited for.
ReadDeadChannelWaits ==
  /\ Reading
  /\ sensorstate[ch] = "ERROR"
  /\ UNCHANGED <<tr_pc, ch, tr_state, sensorstate, rxlow, res, windows,
                 hysteresis, tempFIFO, truth, mixed, faults>>

\* A channel that was given up goes on with what res holds: the value of the
\* channel before it, or of the last channel in the last pass.
ReadDeadChannel ==
  /\ Reading
  /\ sensorstate[ch] = "ERROR"
  /\ runavg' = [runavg EXCEPT ![ch] = Shifted(@, res)]
  /\ truth' = [truth EXCEPT ![ch] = Shifted(@, NoReading)]
  /\ mixed' = [mixed EXCEPT ![ch] = Shifted(@, FALSE)]
  /\ ch' = ch + 1
  /\ UNCHANGED <<tr_pc, tr_state, sensorstate, rxlow, res, runavg_size,
                 hysteresis, tempFIFO, faults>>

AllRead == tr_pc = "loop" /\ ch = CHANNEL_NUM

\* Mutant: the report does not wait until the windows are full.
WindowsFullAnyway == TRUE

WindowsFull == runavg_size = RUNNING_AVG_FIFO_SIZE

\* Until the windows have been filled once, nothing is reported.
FillWindow ==
  /\ AllRead
  /\ ~WindowsFull
  /\ runavg_size' = runavg_size + 1
  /\ ch' = 0
  /\ UNCHANGED <<tr_pc, tr_state, sensorstate, rxlow, res, runavg, hysteresis,
                 tempFIFO, truth, mixed, faults>>

-----------------------------------------------------------------------------
(***************************************************************************)
(* The report.                                                             *)
(***************************************************************************)
\* The division of C cuts towards zero.
Quotient(a, b) == IF a >= 0 THEN a \div b ELSE -((-a) \div b)

Mean(window) ==
  Quotient(Sum(window, RUNNING_AVG_FIFO_SIZE), RUNNING_AVG_FIFO_SIZE)

\* Mutant: only the lower end of the band follows a rising mean.
NewMaxStays(c) ==
  IF Mean(runavg[c]) < h_min[c] THEN Mean(runavg[c]) + H_DELTA ELSE h_max[c]

\* The band of the hysteresis is pushed up or down by the mean.
NewMax(c) ==
  LET avg == Mean(runavg[c])
  IN  IF avg > h_max[c] THEN avg
      ELSE IF avg < h_min[c] THEN avg + H_DELTA
      ELSE h_max[c]

NewMin(c) ==
  LET avg == Mean(runavg[c])
  IN  IF avg > h_max[c] THEN avg - H_DELTA
      ELSE IF avg < h_min[c] THEN avg
      ELSE h_min[c]

\* What is reported of a channel is the lower end of its band.  (The code
\* counts the sterile channels and compares with 3, which is CHANNEL_NUM.)
Report ==
  [temp |-> [c \in Channel |-> NewMin(c)],
   dtemp |-> [c \in Channel |-> NewMin(c) - prev_temp[c]],
   is_sterile |-> \A c \in Channel : NewMin(c) > STERILE_TEMP]

\* Mutant: the item is not tested.
PostSampleUntested ==
  /\ AllRead
  /\ WindowsFull
  /\ tempFIFO' = Append(tempFIFO, Report)
  /\ sensorstate' = [c \in Channel |->
                       IF sensorstate[c] = "INIT" THEN "OK" ELSE sensorstate[c]]
  /\ h_max' = [c \in Channel |-> NewMax(c)]
  /\ h_min' = [c \in Channel |-> NewMin(c)]
  /\ prev_temp' = [c \in Channel |-> NewMin(c)]
  /\ res' = NewMin(CHANNEL_NUM - 1)
  /\ tr_state' = "OK"
  /\ ch' = 0
  /\ UNCHANGED <<tr_pc, rxlow, windows, truth, mixed, faults>>

\* The FIFO has an item: the report is posted.  The first one also ends the
\* initialisation (SENSOR_INIT_END is mailed).
PostSample ==
  /\ AllRead
  /\ WindowsFull
  /\ Len(tempFIFO) < TEMP_FIFO_SIZE
  /\ tempFIFO' = Append(tempFIFO, Report)
  /\ sensorstate' = [c \in Channel |->
                       IF sensorstate[c] = "INIT" THEN "OK" ELSE sensorstate[c]]
  /\ h_max' = [c \in Channel |-> NewMax(c)]
  /\ h_min' = [c \in Channel |-> NewMin(c)]
  /\ prev_temp' = [c \in Channel |-> NewMin(c)]
  /\ res' = NewMin(CHANNEL_NUM - 1)
  /\ tr_state' = "OK"
  /\ ch' = 0
  /\ UNCHANGED <<tr_pc, rxlow, windows, truth, mixed, faults>>

\* Mutant: what would have been reported is taken for reported.
SkipSampleForgets ==
  /\ AllRead
  /\ WindowsFull
  /\ tempFIFO # << >>
  /\ prev_temp' = [c \in Channel |-> NewMin(c)]
  /\ ch' = 0
  /\ UNCHANGED <<tr_pc, tr_state, sensorstate, rxlow, res, windows, h_max,
                 h_min, tempFIFO, truth, mixed, faults>>

\* It has none, which may be so before it is full (see module TempFifo): the
\* pass reports nothing.
SkipSample ==
  /\ AllRead
  /\ WindowsFull
  /\ tempFIFO # << >>
  /\ ch' = 0
  /\ UNCHANGED <<tr_pc, tr_state, sensorstate, rxlow, res, windows, hysteresis,
                 tempFIFO, truth, mixed, faults>>

Threadtempreader ==
  \/ ConfigureSensor \/ StartTimer
  \/ ReadSensor \/ ReadFails \/ ReadDeadChannel
  \/ FillWindow \/ PostSample \/ SkipSample
=============================================================================
