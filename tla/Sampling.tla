------------------------------ MODULE Sampling ------------------------------
(***************************************************************************)
(* From a temperature sensor to a duty cycle: the tempreader, the          *)
(* temperature FIFO, and the control law that an ACTIVE regulator applies  *)
(* to a sample.  When the regulator is ACTIVE, and what becomes of its     *)
(* duty cycles, is in module Regulator.                                    *)
(***************************************************************************)
EXTENDS Tempreader, FuzzyLogic

VARIABLE curr_temp     \* fuzzyreg.curr_temp

vars == <<tempreader, tempFIFO, curr_temp>>

TypeOK == TempreaderTypeOK /\ curr_temp \in Sample

Zeros == [c \in Channel |-> 0]

Init ==
  /\ TempreaderInit
  /\ curr_temp = [temp |-> Zeros, dtemp |-> Zeros, is_sterile |-> FALSE]

\* The regulator takes over the oldest sample.
TakeSample ==
  /\ tempFIFO # << >>
  /\ curr_temp' = Head(tempFIFO)
  /\ tempFIFO' = Tail(tempFIFO)
  /\ UNCHANGED tempreader

\* What fuzzyregulator may set a duty cycle to, if it is ACTIVE.
dutycycle(sample, c) == defuzzyfication(sample.temp[c], sample.dtemp[c])

Read == Threadtempreader /\ UNCHANGED curr_temp

Next == Read \/ TakeSample

Spec == Init /\ [][Next]_vars

\* The timer goes on, I2C transfers end, and the regulator loops.
Fairness == WF_vars(Read) /\ WF_vars(TakeSample)
FairSpec == Spec /\ Fairness

-----------------------------------------------------------------------------
\* A low byte that was lost, or measured before the high byte changed, leaves
\* at most this error in a value.
ByteError(c) == IF \E i \in Slot : mixed[c][i] THEN 255 ELSE 0

Working(c) == sensorstate[c] # "ERROR"

\* What is reported of a working channel is close to what its sensor really
\* measured in the last RUNNING_AVG_FIFO_SIZE passes: off by no more than the
\* hysteresis, and one low byte if the window has a value of two measurements;
\* what came before, a lost byte or a failed channel, leaves no trace, and
\* nothing is made up of values from before the first read (tempreader.c
\* 133-186).
ReportsAreMeasured ==
  AllRead /\ WindowsFull =>
    \A c \in Channel : Working(c) =>
      /\ \A i \in Slot : truth[c][i] # NoReading
      /\ LET real == Mean(truth[c])
         IN  /\ NewMin(c) <= real + ByteError(c)
             /\ NewMin(c) >= real - ByteError(c) - H_DELTA

\* The hysteresis does its work: a report differs from the one before only if
\* the mean has left the band, and then the mean is at its edge.
SteadyReports ==
  [][\A c \in Channel :
       /\ prev_temp'[c] > prev_temp[c] =>
            Mean(runavg[c]) = prev_temp'[c] + H_DELTA
       /\ prev_temp'[c] < prev_temp[c] => Mean(runavg[c]) = prev_temp'[c]]_vars

\* The changes of temperature that the regulator gets add up to the
\* temperature, also when samples were skipped because the FIFO had no item.
SlopesAddUp ==
  [][\A c \in Channel : curr_temp' # curr_temp =>
       curr_temp'.dtemp[c] = curr_temp'.temp[c] - curr_temp.temp[c]]_vars

\* The control law is total: a rule fires for every sample, so that
\* defuzzyfication does not divide by zero, and FUZZY_LOGIC_ERR_MSG is never
\* mailed.
ControlIsTotal ==
  [][curr_temp' # curr_temp =>
       \A s \in {curr_temp'}, c \in Channel :
         /\ ~RuleError(s.temp[c], s.dtemp[c])
         /\ SumWeight(Rules(s.temp[c], s.dtemp[c])) > 0]_vars

\* Of two channels whose temperatures change alike, the hotter one is not
\* heated harder, but for the one percent that the rounding of the floats
\* can cost the colder one, up to the sterile range (from 114 degrees on,
\* where the rules for "sterile" heat again to hold the temperature).
HotterIsHeatedLess ==
  [][curr_temp' # curr_temp =>
       \A s \in {curr_temp'}, c, d \in Channel :
         /\ s.dtemp[c] = s.dtemp[d]
         /\ s.temp[c] < s.temp[d]
         /\ s.temp[d] < 14592
         => \A x \in dutycycle(s, c), y \in dutycycle(s, d) :
              y <= x + PWM_STEP]_vars

\* The initialisation ends, also with sensors that do not answer.
InitEnds == <>(tr_state = "OK")
=============================================================================
