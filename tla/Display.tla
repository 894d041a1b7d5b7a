------------------------------ MODULE Display ------------------------------
(***************************************************************************)
(* The display.  A thread that has something to show writes it into        *)
(* appdata and then asks for a draw job, in two critical sections.  The    *)
(* lcdcontrol thread takes the jobs one by one; a drawing function reads   *)
(* appdata without the mutex, so that other threads may come between its   *)
(* reads.  A job is dropped when none is free.                             *)
(*                                                                         *)
(* The jobs also enable and disable the buttons, and the buttons are mails *)
(* to the sterilizer, whose states are drawn: the loop is closed here with *)
(* the calls that the sterilizer makes in each of its states.              *)
(*                                                                         *)
(* Not in the model: layout, the date, the error list (which is written    *)
(* without a job).  A field stands for all that is drawn with it: one      *)
(* channel for the three, the final result for the two dates of a run.     *)
(***************************************************************************)
EXTENDS Integers, Sequences

CONSTANTS
  DRAW_JOB_QUEUE_SIZE,     \* draw jobs (20 in appconf.h)
  STERILIZER_MAILBOX_SIZE, \* mails to the sterilizer (10)
  MaxValue,                \* bound: temperatures, duty cycles, samples, states
  MaxPresses,              \* bound: buttons pressed, and so runs
  MaxUpdates               \* bound: what the other threads show, swings, errors

ASSUME DisplayConstants ==
  /\ DRAW_JOB_QUEUE_SIZE \in Nat \ {0}
  /\ STERILIZER_MAILBOX_SIZE \in Nat \ {0}
  /\ MaxValue \in Nat
  /\ MaxPresses \in Nat
  /\ MaxUpdates \in Nat

Thread == {"sterilizer", "regulator", "tempreader", "cardhandler"}
Button == {"start", "stop", "print"}

\* Mails to the sterilizer: of the buttons, the tempreader, the errorhandler.
Msg == {"start", "stop", "print", "SENSOR_INIT_END", "STOPERROR_STERILIZER"}

SterilizerState == {"INIT", "STOP", "ACTIVE", "SAVE", "PRINT", "ERROR"}

\* The fields of appdata, and the number of items in the list gh.res_list.
Field == {"ster_state", "finalresult", "res_list", "fuzzyreg_state",
          "dutycycle", "sensorstate", "curr_temp", "sdc_state"}

DrawFunc == {"drawSterilizerState", "drawResultStart", "drawResultEnd",
             "drawSterileTemps", "drawHeatPower", "drawTempLables",
             "drawSdcState"}

ResultFunc == {"drawResultStart", "drawResultEnd"}

\* What a drawing function draws, in the order in which it reads it.
Drawn ==
  [drawSterilizerState |-> <<"ster_state">>,
   drawResultStart     |-> <<"finalresult">>,
   drawResultEnd       |-> <<"finalresult">>,
   drawSterileTemps    |-> <<"res_list">>,
   drawHeatPower       |-> <<"fuzzyreg_state", "dutycycle">>,
   drawTempLables      |-> <<"sensorstate", "curr_temp">>,
   drawSdcState        |-> <<"sdc_state">>,
   none                |-> << >>]

Draws(func, f) == \E i \in DOMAIN Drawn[func] : Drawn[func][i] = f

VARIABLES
  appdata,       \* what is to be shown
  ended,         \* history: displayResultEnd came after displayResultStart
  queue,         \* drawjobqueue: the functions of the jobs, oldest first
  free_item,     \* jobs in the pool
  overflow,      \* jobs that freeDrawJob refused
  stale,         \* history: fields whose last job was dropped
  shown,         \* what the widgets show
  enabled,       \* buttons that are enabled
  lcd_pc,        \* where the lcdcontrol thread is
  job,           \* the job it has taken, or "none"
  drawn,         \* how many fields of it are drawn
  mail,          \* the mail it is posting, or "none"
  steril_mb,     \* mails to the sterilizer, oldest first
  steril_state,  \* sterilizer.state
  fetch_next,    \* whether the sterilizer reads a mail before it saves
  calls,         \* display functions that each thread has to call, in order
  written,       \* whether its first one has written appdata
  presses,       \* buttons pressed, for the bound
  updates        \* calls of the other threads and of the list, for the bound

jobs       == <<queue, free_item, overflow, stale>>
data       == <<appdata, ended>>
lcd        == <<shown, enabled, lcd_pc, job, drawn, mail>>
callers    == <<calls, written>>
sterilizer == <<steril_state, fetch_next>>
bounds     == <<presses, updates>>
vars       == <<data, jobs, lcd, steril_mb, sterilizer, callers, bounds>>

-----------------------------------------------------------------------------
(***************************************************************************)
(* The exported functions: what a call writes, and the job it asks for.    *)
(***************************************************************************)
Call(func, field, value) == [func |-> func, field |-> field, value |-> value]

displaySterilizerState(state) ==
  Call("drawSterilizerState", "ster_state", state)
displayResultStart == Call("drawResultStart", "none", 0)
displayResultEnd(finalresult) ==
  Call("drawResultEnd", "finalresult", finalresult)
displayResultListItem ==
  Call("drawSterileTemps", "res_list", appdata["res_list"] + 1)
destroyDisplayedResultList == Call("drawSterileTemps", "res_list", 0)
switchToresultPage == Call("drawSdcState", "none", 0)
displayHeatPower(duty) == Call("drawHeatPower", "dutycycle", duty)
setFuzzyregState(state) == Call("none", "fuzzyreg_state", state)
setSensorState(state) == Call("drawTempLables", "sensorstate", state)
displayCurrentTemp(temp) == Call("drawTempLables", "curr_temp", temp)
displaySdcState(state) == Call("drawSdcState", "sdc_state", state)

\* Every thread has shown its first state, and that has been drawn.
Init ==
  /\ appdata = [f \in Field |-> IF f = "ster_state" THEN "INIT"
                               ELSE IF f = "finalresult" THEN "FAILURE"
                               ELSE 0]
  /\ ended = FALSE
  /\ queue = << >>
  /\ free_item = DRAW_JOB_QUEUE_SIZE
  /\ overflow = 0
  /\ stale = {}
  /\ shown = [appdata EXCEPT !["finalresult"] = "nothing"]
  /\ enabled = {}
  /\ lcd_pc = "wait"
  /\ job = "none"
  /\ drawn = 0
  /\ mail = "none"
  /\ steril_mb = << >>
  /\ steril_state = "INIT"
  /\ fetch_next = FALSE
  /\ calls = [t \in Thread |-> << >>]
  /\ written = [t \in Thread |-> FALSE]
  /\ presses = 0
  /\ updates = 0

\* The call writes its data under the mutex ...
Write(t) ==
  /\ calls[t] # << >>
  /\ ~written[t]
  /\ LET call == Head(calls[t])
     IN  /\ appdata' = [f \in Field |->
                          IF f = call.field THEN call.value ELSE appdata[f]]
         /\ ended' = IF call.func \in ResultFunc
                     THEN call.func = "drawResultEnd"
                     ELSE ended
  /\ written' = [written EXCEPT ![t] = TRUE]
  /\ UNCHANGED <<jobs, lcd, steril_mb, sterilizer, calls, bounds>>

Fields(func) == {f \in Field : Draws(func, f)}

\* Mutant: no second job is asked for while one for the function is under way.
addDrawJobOnce(t) ==
  /\ calls[t] # << >>
  /\ written[t]
  /\ LET func == Head(calls[t]).func
         asked == \/ func \in {"none", job}
                  \/ \E i \in DOMAIN queue : queue[i] = func
     IN  IF asked \/ free_item = 0
         THEN /\ stale' = IF asked THEN stale ELSE stale \cup Fields(func)
              /\ UNCHANGED <<queue, free_item>>
         ELSE /\ free_item' = free_item - 1
              /\ queue' = Append(queue, func)
              /\ stale' = stale \ Fields(func)
  /\ calls' = [calls EXCEPT ![t] = Tail(@)]
  /\ written' = [written EXCEPT ![t] = FALSE]
  /\ UNCHANGED <<overflow, data, lcd, steril_mb, sterilizer, bounds>>

\* ... and asks for a job when it has released it.
addDrawJob(t) ==
  /\ calls[t] # << >>
  /\ written[t]
  /\ LET func == Head(calls[t]).func
     IN  \/ /\ func # "none"
            /\ free_item > 0
            /\ free_item' = free_item - 1
            /\ queue' = Append(queue, func)
            /\ stale' = stale \ Fields(func)
         \/ /\ func # "none"
            /\ free_item = 0
            /\ stale' = stale \cup Fields(func)
            /\ UNCHANGED <<queue, free_item>>
         \/ /\ func = "none"
            /\ UNCHANGED <<queue, free_item, stale>>
  /\ calls' = [calls EXCEPT ![t] = Tail(@)]
  /\ written' = [written EXCEPT ![t] = FALSE]
  /\ UNCHANGED <<overflow, data, lcd, steril_mb, sterilizer, bounds>>

-----------------------------------------------------------------------------
(***************************************************************************)
(* What the threads show, and when.                                        *)
(***************************************************************************)
Idle(t) == calls[t] = << >>

\* What comes from outside, within the bound.
Update ==
  /\ updates < MaxUpdates
  /\ updates' = updates + 1

Shows(t, seq) ==
  /\ Idle(t)
  /\ Update
  /\ calls' = [calls EXCEPT ![t] = seq]
  /\ UNCHANGED <<written, data, jobs, lcd, steril_mb, sterilizer,
                 presses>>

\* Another value of a field.
Other(f) == (0 .. MaxValue) \ {appdata[f]}

\* Between the duty cycles and the temperatures of a sample the regulator may
\* wait in saveLog.  Of its states only the disabled one is drawn differently.
RegulatorShows ==
  \/ \E v \in Other("dutycycle") : Shows("regulator", <<displayHeatPower(v)>>)
  \/ \E v \in Other("curr_temp") : Shows("regulator", <<displayCurrentTemp(v)>>)
  \/ /\ appdata["fuzzyreg_state"] = 0
     /\ Shows("regulator", <<setFuzzyregState(1), displayHeatPower(0)>>)

TempreaderShows ==
  \E v \in Other("sensorstate") : Shows("tempreader", <<setSensorState(v)>>)

CardhandlerShows ==
  \E v \in Other("sdc_state") : Shows("cardhandler", <<displaySdcState(v)>>)

\* Mutant: the mailbox has no end.
PostAnyway(msg) == steril_mb' = Append(steril_mb, msg)

\* sendMailtoSterilizer waits for room in the mailbox.
Post(msg) ==
  /\ Len(steril_mb) < STERILIZER_MAILBOX_SIZE
  /\ steril_mb' = Append(steril_mb, msg)

\* All sensors are initialised.
TempreaderInitEnd ==
  /\ steril_state = "INIT"
  /\ \A i \in DOMAIN steril_mb : steril_mb[i] # "SENSOR_INIT_END"
  /\ Post("SENSOR_INIT_END")
  /\ UNCHANGED <<data, jobs, lcd, sterilizer, callers, bounds>>

ErrorhandlerStops ==
  /\ Update
  /\ Post("STOPERROR_STERILIZER")
  /\ UNCHANGED <<data, jobs, lcd, sterilizer, callers, presses>>

\* The sterilizer goes to a state and makes its calls, the last of which
\* shows the state.
SterShows(state, seq) ==
  /\ steril_state' = state
  /\ calls' = [calls EXCEPT !["sterilizer"] = seq]

SterInitEnd ==
  /\ steril_state = "INIT"
  /\ SterShows("STOP", <<displaySterilizerState("STOP")>>)

\* freeResultList and displayResultStart; an empty list is not cleared.
SterStart ==
  /\ steril_state = "STOP"
  /\ SterShows("ACTIVE",
       (IF appdata["res_list"] = 0 THEN << >>
                                   ELSE <<destroyDisplayedResultList>>)
         \o <<displayResultStart, displaySterilizerState("ACTIVE")>>)

SterEnd(seq, finalresult) ==
  /\ steril_state = "ACTIVE"
  /\ SterShows("SAVE", seq \o
       <<displayResultEnd(finalresult), displaySterilizerState("SAVE")>>)

SterPrint ==
  /\ steril_state = "STOP"
  /\ SterShows("PRINT", <<displaySterilizerState("PRINT")>>)

SterError == SterShows("ERROR", <<displaySterilizerState("ERROR")>>)

\* Mutant: a stop of a run that has no results yet is ignored as well.
IgnoredWithoutResults(msg) ==
  \/ msg = "SENSOR_INIT_END" /\ steril_state # "INIT"
  \/ msg = "stop" /\ (steril_state # "ACTIVE" \/ appdata["res_list"] = 0)
  \/ msg \in {"start", "print"} /\ steril_state # "STOP"

\* A mail is ignored in a state that it does not belong to.
Ignored(msg) ==
  \/ msg = "SENSOR_INIT_END" /\ steril_state # "INIT"
  \/ msg = "stop" /\ steril_state # "ACTIVE"
  \/ msg \in {"start", "print"} /\ steril_state # "STOP"

\* No mail is read in the middle of a save.
SterFetch ==
  /\ Idle("sterilizer")
  /\ steril_mb # << >>
  /\ fetch_next \/ steril_state \notin {"SAVE", "PRINT"}
  /\ fetch_next' = FALSE
  /\ steril_mb' = Tail(steril_mb)
  /\ LET msg == Head(steril_mb)
     IN  \/ msg = "SENSOR_INIT_END" /\ SterInitEnd
         \/ msg = "start" /\ SterStart
         \/ msg = "stop" /\ SterEnd(<< >>, "FAILURE")
         \/ msg = "print" /\ SterPrint
         \/ msg = "STOPERROR_STERILIZER" /\ SterError
         \/ Ignored(msg) /\ UNCHANGED <<steril_state, calls>>
  /\ UNCHANGED <<written, data, jobs, lcd, bounds>>

SterNoMail ==
  /\ Idle("sterilizer")
  /\ steril_mb = << >>
  /\ fetch_next
  /\ fetch_next' = FALSE
  /\ UNCHANGED <<data, jobs, lcd, steril_mb, steril_state, callers, bounds>>

\* In a run a sample is listed, or the list is cleared for a swing.
SterRecord ==
  /\ Idle("sterilizer")
  /\ steril_state = "ACTIVE"
  /\ \/ /\ appdata["res_list"] < MaxValue
        /\ calls' = [calls EXCEPT !["sterilizer"] = <<displayResultListItem>>]
        /\ UNCHANGED updates
     \/ /\ appdata["res_list"] > 0
        /\ Update
        /\ calls' = [calls EXCEPT !["sterilizer"] =
                       <<destroyDisplayedResultList>>]
  /\ UNCHANGED <<written, data, jobs, lcd, steril_mb, sterilizer, presses>>

\* The list is complete; or the swings were too many, and the sample that was
\* not sterile is listed.  The list is saved in the next pass, which reads a
\* mail first.
SterComplete ==
  /\ Idle("sterilizer")
  /\ fetch_next' = TRUE
  /\ appdata["res_list"] > 0
  /\ \/ SterEnd(<< >>, "SUCCESS") /\ UNCHANGED updates
     \/ Update /\ SterEnd(<<displayResultListItem>>, "FAILURE")
  /\ UNCHANGED <<written, data, jobs, lcd, steril_mb, presses>>

\* The list is saved, which may take for ever, or there is none.
SterSaved ==
  /\ Idle("sterilizer")
  /\ steril_state = "SAVE"
  /\ ~fetch_next
  /\ SterShows("STOP", <<displaySterilizerState("STOP"), switchToresultPage>>)
  /\ UNCHANGED <<fetch_next, written, data, jobs, lcd, steril_mb, bounds>>

SterPrinted ==
  /\ Idle("sterilizer")
  /\ steril_state = "PRINT"
  /\ SterShows("STOP", <<displaySterilizerState("STOP")>>)
  /\ UNCHANGED <<fetch_next, written, data, jobs, lcd, steril_mb, bounds>>

-----------------------------------------------------------------------------
(***************************************************************************)
(* The lcdcontrol thread.                                                  *)
(***************************************************************************)
\* drawResultStart clears the final result.
Drawing(func, f) ==
  IF func = "drawResultStart" THEN "nothing" ELSE appdata[f]

\* Mutant: the stop button is not enabled again.
EnablesNoStop ==
  [INIT |-> {}, STOP |-> {"start", "print"}, ACTIVE |-> {},
   SAVE |-> {}, PRINT |-> {}, ERROR |-> {}]

\* drawSterilizerState, as to the buttons.
Enables ==
  [INIT |-> {}, STOP |-> {"start", "print"}, ACTIVE |-> {"stop"},
   SAVE |-> {}, PRINT |-> {}, ERROR |-> {}]

Disables ==
  [INIT |-> Button, STOP |-> {"stop"}, ACTIVE |-> {"start", "print"},
   SAVE |-> {}, PRINT |-> {"print"}, ERROR |-> {"start", "stop"}]
ButtonsFor(state) == (enabled \cup Enables[state]) \ Disables[state]

\* The thread draws until the queue is empty, and then waits for an event.
Loop == IF queue = << >> THEN "wait" ELSE "jobs"

\* Nobody else takes jobs, so that it does not matter that the queue is
\* looked at without the mutex.
getDrawJob ==
  /\ lcd_pc = "jobs"
  /\ job' = Head(queue)
  /\ queue' = Tail(queue)
  /\ drawn' = 0
  /\ lcd_pc' = "draw"
  /\ UNCHANGED <<free_item, overflow, stale, shown, enabled, mail, data,
                 steril_mb, sterilizer, callers, bounds>>

\* One field is read and drawn.  That is one step: a write that comes between
\* the read and the widget asks for a job of its own afterwards.
LcdDraw ==
  /\ lcd_pc = "draw"
  /\ drawn < Len(Drawn[job])
  /\ LET f == Drawn[job][drawn + 1]
     IN  /\ shown' = [shown EXCEPT ![f] = Drawing(job, f)]
         /\ enabled' = IF f = "ster_state" THEN ButtonsFor(appdata[f])
                                           ELSE enabled
  /\ drawn' = drawn + 1
  /\ UNCHANGED <<lcd_pc, job, mail, data, jobs, steril_mb, sterilizer,
                 callers, bounds>>

\* The number of free jobs is tested without the mutex ...
CountFreeJobs ==
  /\ lcd_pc = "draw"
  /\ drawn = Len(Drawn[job])
  /\ \/ /\ free_item = DRAW_JOB_QUEUE_SIZE
        /\ overflow' = overflow + 1
        /\ job' = "none"
        /\ drawn' = 0
        /\ lcd_pc' = Loop
     \/ /\ free_item # DRAW_JOB_QUEUE_SIZE
        /\ lcd_pc' = "free"
        /\ UNCHANGED <<overflow, job, drawn>>
  /\ UNCHANGED <<queue, free_item, stale, shown, enabled, mail, data,
                 steril_mb, sterilizer, callers, bounds>>

\* Mutant: the job is not given back to the pool.
freeDrawJobLeaks ==
  /\ lcd_pc = "free"
  /\ job' = "none"
  /\ drawn' = 0
  /\ lcd_pc' = Loop
  /\ UNCHANGED <<free_item, queue, overflow, stale, shown, enabled, mail, data,
                 steril_mb, sterilizer, callers, bounds>>

\* ... and the job given back under it.
freeDrawJob ==
  /\ lcd_pc = "free"
  /\ free_item' = free_item + 1
  /\ job' = "none"
  /\ drawn' = 0
  /\ lcd_pc' = Loop
  /\ UNCHANGED <<queue, overflow, stale, shown, enabled, mail, data,
                 steril_mb, sterilizer, callers, bounds>>

\* Mutant: the thread waits for an event for ever.
LcdNoEventForEver ==
  /\ lcd_pc = "wait"
  /\ UNCHANGED vars

\* geventEventWait: after 10 ms without an event the thread looks for jobs.
LcdNoEvent ==
  /\ lcd_pc = "wait"
  /\ queue # << >>
  /\ lcd_pc' = Loop
  /\ UNCHANGED <<shown, enabled, job, drawn, mail, data, jobs, steril_mb,
                 sterilizer, callers, bounds>>

\* The user has pressed a button, which was enabled.
LcdButton ==
  /\ lcd_pc = "wait"
  /\ presses < MaxPresses
  /\ presses' = presses + 1
  /\ mail' \in enabled
  /\ lcd_pc' = "mail"
  /\ UNCHANGED <<shown, enabled, job, drawn, data, jobs, steril_mb,
                 sterilizer, callers, updates>>

\* The user has gone to another page: drawSdcState is called without a job.
LcdPage ==
  /\ lcd_pc = "wait"
  /\ shown' = [shown EXCEPT !["sdc_state"] = appdata["sdc_state"]]
  /\ lcd_pc' = Loop
  /\ UNCHANGED <<enabled, job, drawn, mail, data, jobs, steril_mb,
                 sterilizer, callers, bounds>>

LcdSendMail ==
  /\ lcd_pc = "mail"
  /\ Post(mail)
  /\ mail' = "none"
  /\ lcd_pc' = Loop
  /\ UNCHANGED <<shown, enabled, job, drawn, data, jobs, sterilizer, callers,
                 bounds>>

Sterilizer ==
  \/ SterFetch \/ SterNoMail
  \/ SterRecord \/ SterComplete \/ SterSaved \/ SterPrinted

\* A thread of NORMALPRIO+20 ends its calls before one of NORMALPRIO goes on,
\* which the lcdcontrol thread and the cardhandler have.  Among themselves these
\* threads may come between each other's calls, when they wait for the mutex.
Urgent == {"sterilizer", "regulator", "tempreader"}
NoneUrgent == \A t \in Urgent : Idle(t)

Calls(t) ==
  /\ t \in Urgent \/ NoneUrgent
  /\ Write(t) \/ addDrawJob(t)

Threadlcdcontrol ==
  /\ NoneUrgent
  /\ \/ getDrawJob \/ LcdDraw \/ CountFreeJobs \/ freeDrawJob
     \/ LcdNoEvent \/ LcdSendMail

Next ==
  \/ \E t \in Thread : Calls(t)
  \/ Sterilizer
  \/ RegulatorShows \/ TempreaderShows \/ TempreaderInitEnd
  \/ ErrorhandlerStops
  \/ NoneUrgent /\ (CardhandlerShows \/ LcdButton \/ LcdPage)
  \/ Threadlcdcontrol

Spec == Init /\ [][Next]_vars

\* Threads return from their calls, the lcdcontrol thread gets the processor,
\* and the sterilizer reads its mail and prints.  It need not end a save.
Fairness ==
  /\ WF_vars(\E t \in Thread : Calls(t))
  /\ WF_vars(Threadlcdcontrol)
  /\ WF_vars(SterFetch)
  /\ WF_vars(SterPrinted)
FairSpec == Spec /\ Fairness

-----------------------------------------------------------------------------
\* What a field may hold.
Value(f) == IF f = "ster_state" THEN SterilizerState
            ELSE IF f = "finalresult" THEN {"SUCCESS", "FAILURE"}
            ELSE Nat

\* Every variable has its type: the draw jobs are functions that exist, the
\* mails fit into the mailbox.
TypeOK ==
  /\ DOMAIN appdata = Field
  /\ \A f \in Field : appdata[f] \in Value(f)
  /\ ended \in BOOLEAN
  /\ queue \in Seq(DrawFunc)
  /\ free_item \in 0 .. DRAW_JOB_QUEUE_SIZE
  /\ overflow \in Nat
  /\ stale \subseteq Field
  /\ DOMAIN shown = Field
  /\ enabled \subseteq Button
  /\ lcd_pc \in {"jobs", "draw", "free", "wait", "mail"}
  /\ job \in DrawFunc \cup {"none"}
  /\ drawn \in 0 .. 2
  /\ mail \in Button \cup {"none"}
  /\ steril_mb \in Seq(Msg)
  /\ Len(steril_mb) <= STERILIZER_MAILBOX_SIZE
  /\ steril_state \in SterilizerState
  /\ fetch_next \in BOOLEAN
  /\ DOMAIN calls = Thread
  /\ written \in [Thread -> BOOLEAN]
  /\ presses \in 0 .. MaxPresses
  /\ updates \in 0 .. MaxUpdates

\* Every draw job is in the pool, in the queue, or being drawn, and the test
\* of freeDrawJob without the mutex never refuses one: no job leaks, however
\* the threads are interleaved (lcdcontrol.c 96-147).
JobsConserved ==
  /\ free_item + Len(queue) + (IF lcd_pc \in {"draw", "free"} THEN 1 ELSE 0)
       = DRAW_JOB_QUEUE_SIZE
  /\ overflow = 0

\* What a widget ought to show.
Wanted(f) ==
  IF f = "finalresult" /\ ~ended THEN "nothing" ELSE appdata[f]

Queued(f) == \E i \in DOMAIN queue : Draws(queue[i], f)

BeingDrawn(f) ==
  /\ lcd_pc = "draw"
  /\ \E i \in DOMAIN Drawn[job] : i > drawn /\ Drawn[job][i] = f

Asked(f) ==
  \E t \in Thread : \E i \in DOMAIN calls[t] : Draws(calls[t][i].func, f)

\* No update is lost between a write of appdata and a drawing that reads it
\* without the mutex: a widget shows what it ought to, or a job that will
\* draw it is queued, half drawn or about to be asked for - unless the last
\* job for it was dropped.
ShownOrPending ==
  \A f \in Field :
    \/ shown[f] = Wanted(f)
    \/ f \in stale
    \/ Queued(f) \/ BeingDrawn(f) \/ Asked(f)

\* The lcdcontrol thread waits for room in the mailbox of a sterilizer that
\* waits for the card.
Stuck ==
  /\ lcd_pc = "mail"
  /\ Len(steril_mb) = STERILIZER_MAILBOX_SIZE
  /\ steril_state = "SAVE"

Behind == \E f \in Field \ stale : shown[f] # Wanted(f)

\* The display catches up with what it ought to show, but for jobs that were
\* dropped, and unless a button was pressed while the sterilizer hangs in a save
\* and its mailbox is full.
DisplayCatchesUp == Behind ~> (~Behind \/ Stuck)

\* A run can be stopped by the user: the stop button gets enabled, whichever
\* states were drawn or skipped before - unless the job was dropped.
RunCanBeStopped ==
  steril_state = "ACTIVE" ~>
    (steril_state # "ACTIVE" \/ "stop" \in enabled \/ "ster_state" \in stale)

\* A stop button that was pressed in a run ends it.
StopIsObeyed ==
  (mail = "stop" /\ steril_state = "ACTIVE") ~> steril_state # "ACTIVE"
=============================================================================
