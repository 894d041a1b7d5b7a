# Beeswax sterilizer: models, checks and proofs

The program in `src/beeswax_sterilizer` runs on an STM32F746 under ChibiOS/RT.
It heats beeswax with up to three PWM driven heater channels, records once a
minute for an hour whether every channel is hot enough, stops everything when a
sensor, a fuse or the fuzzy controller fails, and writes its results to an SD
card and a printer. This directory holds TLA+ models of the parts that carry its
logic, the TLC runs that check them, and proofs checked by TLAPS.

All paths below are relative to `src/beeswax_sterilizer/src` unless they say
otherwise. `PROJECT.json` lists components, runs, mutants, findings, hazards and
theorems, and maps every definition to the lines it stands for.

## 1. Inventory

### Scheduling

Threads of one priority never preempt each other (`CH_CFG_TIME_QUANTUM` is 0);
a higher one preempts a lower one at any instruction, interrupts preempt all.
Main, lcdcontrol, cardhandler and printer run at `NORMALPRIO`; regulator,
tempreader and sterilizer at `+20`; the errorhandler at `+30`. Every loop ends in
a sleep of 10 ms, or in an event wait with that limit. Assertions are compiled
out, so that a broken precondition is not caught at run time.

### Components

| Component | State | Operations | Talks to |
|---|---|---|---|
| Regulator (`regulator.c`) | state STOP/ACTIVE/DISABLE, duty cycle, samples, timers of the slope check; PWM registers and notification flags | start, stop and disable routine; sample, fuzzy control, error checks, log; PWM period interrupts | mails from sterilizer and errorhandler; temperature FIFO; error mails; log file buffer |
| Fuzzy logic (`regulator.c`) | memberships, rule weights (per pass) | fuzzyfication, rules, defuzzyfication | called by the regulator |
| Sterilizer (`sterilizer.c`) | state INIT/STOP/ACTIVE/SAVE/PRINT/ERROR, result list, final result, swings, save time | start, stop, error; record; save; print | mails from buttons, tempreader, errorhandler; mails to the regulator; result file and printer buffers |
| Line copy by DMA (`sterilizer.c`) | DMA stream, thread reference | start, suspend, resume from the interrupt | sterilizer |
| Errorhandler (`errorhandler.c`) | list of at most 20 errors | fuse check at boot; list an error, disable the regulator, stop the sterilizer | mails from everybody; mails to regulator and sterilizer |
| Fuse inputs (`errorhandler.c`) | interrupt enable of each input, one timer | edge interrupt, debounce callback | posts to the errorhandler |
| Mailboxes | three bounded queues (20, 10, 10) | post, post ahead, fetch | all threads |
| Inner buffer (`src/stmlib/Extensions/inner_buffer`) | two linked lists of items, two counters, a mutex | get empty, post full, get full, release empty | log and result file, printer |
| Temperature FIFO (`regulator.c`, `tempreader.c`) | an inner buffer of 4 samples | put, get | tempreader to regulator |
| Tempreader (`tempreader.c`) | window and hysteresis of each channel, last report, failed channels | configure the sensors; each second read them, report or skip | temperature FIFO, error mails, SENSOR_INIT_END |
| Cardhandler (`cardhandler.c`) | card state, events, open and close flags, two file buffers, clock | poll the slot, mount, unmount, write a line, close | files are opened by sterilizer and regulator |
| Printer (`printer.c`) | an inner buffer | print a line | sterilizer |
| Display (`lcdcontrol.c`) | `appdata`, widgets, enabled buttons, draw queue of 20 jobs | display functions of all threads; draw a job, buttons START/STOP/PRINT | called by all threads; mails to the sterilizer |
| Startup (`main.c`) | | init functions, one after the other | creates all threads |

Vendored code (`src/ext_sources`, FatFs, uGFX), the board files and the USB shell
are outside; they are modelled only as far as the program uses them.

### What is hard, and what makes each part correct

* **Mails in flight.** Regulator and sterilizer keep a state of their own each
  and follow each other only by mails, which the other side may ignore. An error
  goes ahead of all mails to the regulator and behind all mails to the
  sterilizer. Correct: errors disable the heaters and stay final; the heaters
  follow the sterilizer; nobody heats without a run.
* **Interrupts in the middle of a routine.** The PWM period interrupt may come
  between any two steps of the routine that stops the channels.
* **Bounded buffers that block.** `saveLog` and `saveString` wait without a limit
  for an item that only the cardhandler can free, and it frees items only on a
  card that is mounted and not full.
* **Tests before the lock.** The inner buffer tests lists and counters before it
  takes the mutex. Correct: nothing is lost, duplicated or reordered.
* **Results that outlive a run.** `finalresult` and the list are shown, saved
  and printed later. Correct: a success is a complete list of sterile records,
  and records are not touched while they are being saved or printed.
* **Measuring.** A value takes two transfers, between which the sensor may measure
  another one, and whose failures are only half looked at; a dead channel goes on with the values of its neighbour, and a pass without
  a FIFO item reports nothing. Correct: a working channel reports what its sensor
  measured, slopes add up, every sample is covered by a rule.
* **Drawing without the mutex.** Data and draw job are two critical sections, the
  drawing functions read without one, and jobs are dropped. The jobs also enable
  the buttons. Correct: no update is lost but by a full queue, and a run can be
  stopped.
* **Cards.** They go in and out at any time, also while the thread blocks on them
  to mount them, and mounting may fail. Correct: the driver is ahead of the state
  that is shown only while a card is mounted, and the state ahead of the driver only
  with a removal under way; a card counts as inserted only after debouncing, a
  removal is always noticed, an inserted card is mounted.
* **Fuse inputs.** Three inputs share a debounce timer, an edge may interrupt its
  callback, and the mailbox may be full. Correct: a blown fuse is reported.

The full list, with lines, is under `hazards` in `PROJECT.json`.

## 2. Modules

| Module | Models | Composed by |
|---|---|---|
| `Mailboxes` | the three mailboxes and the send functions | HeatControl |
| `FileBuffers` | the file buffers as the control threads see them (abstract specification of the cardhandler) | HeatControl, CardHandler (as `FB`) |
| `Regulator` | the regulator thread and the PWM interrupts | HeatControl |
| `Sterilizer` | the sterilizer thread and its list | HeatControl |
| `ErrorHandler` | the errorhandler thread | HeatControl |
| `HeatControl` | the composition, buttons, sensors, errors, the card; all properties of the control core | `MCHeatControl` |
| `Heater` | the fail-safe heater that the control core implements: run, heat, disabled, told | HeatControl (as `H`) |
| `CardHandler` | slot, poll timer, events, files, and the two writers | `MCCardHandler` |
| `InnerBuffer`, `Fifo` | the buffer; the bounded queue it implements | `MCInnerBuffer` |
| `TempFifo` | the temperature FIFO at pointer level | - |
| `FuzzyLogic`, `Sums` | the control law as pure operators | Sampling |
| `Tempreader` | the tempreader thread | Sampling |
| `Sampling` | the way of a sample: tempreader, FIFO, regulator, duty cycle | `MCSampling` |
| `Display` | draw jobs, the calls of four threads, the lcdcontrol thread, the buttons, and the sterilizer as far as it shows states | - |
| `DmaCopy` | one line copied by DMA | - |
| `FuseMonitor` | fuse inputs and their only timer | - |
| `HeatControlTypes`, `HeatControlProofs`, `CardHandlerProofs`, `InnerBufferProofs`, `FuzzyLogicProofs`, `SamplingProofs`, `DisplayProofs`, `FuseMonitorProofs` | theorems | - |

**How steps are chosen.** A thread is modelled as one action per stretch of its
loop between two points where another thread or interrupt can see or change what
it works on: a message fetched, a message posted (which may block), one PWM
channel, a line posted, a sleep. `reg_pc`, `ster_pc`, `err_pc` and `pc` say where
a thread is. Errors of temperature, slope and fuzzy control are
nondeterministic in `Regulator`, as is the duty cycle; a sample carries only
whether it is sterile. Time is counted in passes of the sterilizer
(`SAVE_INTERVAL`). Error codes and the text of lines are left out. In `Regulator`
the PWM period interrupt `PwmPeriod` reads `dutycycle` and writes `ccr`; `ccr = 0`
stands for a disabled channel.

**HeatControl** takes `FileBuffers` for the card: `CardInsert`, `CardRemove` and
`CardWrite...` may happen at any time. `CardHandler` is the detailed version and
is shown, by TLC and by proof, to implement `FileBuffers`
(`ImplementsFileBuffers`), so that what holds in `HeatControl` with the abstract
card holds with the real one.

`HeatControl` itself implements `Heater` (`IsFailSafeHeater`): the run is the
sterilizer in ACTIVE, the heat is what the regulator will be after the mails under
way (`ReplayedState`), a disable counts from the moment its mail is posted. A run
that the user starts between the disable and the error mail is a run without heat;
the abstract `Start` says so.

**CardHandler** keeps the number of lines, not their text. A line leaves its
buffer whatever `f_write` returns, as in the code. `OpenFile` is a step of the
sterilizer (result file) or the regulator (log file), which may come between any
two steps of the cardhandler, also between the test of `CheckClose` and
`CloseFile`. The handlers of the two events come in stages, because the driver is
connected (`Connects`) long before the state is set: `f_mount` and `f_getfree`
block on the card, which `Mounts` and `MountFails` end, and all other threads and
the timer run meanwhile. The same holds for `CardFailed` and `CardRemoved`, which set the
state after the driver was disconnected, and for `CloseFile` and `FileClosed`.
A `WriteLine` is still one step from the test of `isopen` to the release of the
item: the cardhandler is the only consumer, and the buffer itself is
`InnerBuffer`. `FileBuffers` has the same window as `"MOUNTING"`: a file may open
after `CardConnect`, and its lines are drained once the card is `"READY"`. `Hasty` says whether a card may go in and out between two polls.

**InnerBuffer** splits every function into the unlocked test, the list operation
and the update of the counter under the mutex, for one producer and one
consumer, which is how each of the four buffers is used.

**TempFifo** is the one buffer whose user clears the wrong bytes; it therefore has
its own model with links and data pointers as words of memory.

**FuzzyLogic** has the numbers of `appconf.h`. A membership of 1.0 is `Unit`, a
common multiple of the widths of all slopes, so that memberships are exact. The
floats matter where the mean is cut to whole percents (`Cut`): a mean within a
thousandth of a percent of a whole percent may be cut to the percent below or above it,
so that `defuzzyfication` is a set of duty cycles. The bound is generous: some thirty
roundings of 2^-24 each, of positive values only. It allows more than
the code does in some places (99 percent for solid wax, where one membership of exactly
1.0 gives exactly 100), and never less. `Sums` holds the one loop that adds up,
as a recursive function.

**Tempreader** lets other threads in where the thread does: in the transfers of a
channel and before the next pass. A transfer that fails is one of `MaxFaults`. The
status of the first transfer is overwritten by that of the second, so that
`ReadSensor` may go on with the low byte read before. The sensor measures on its own
between the two transfers: `early` is the value whose low byte is read, `value` the
one whose high byte is read; a pass with two different ones is counted by `MaxFaults` too.
`ReadDeadChannel` shifts in what the local variable `res` happens to hold. `truth`
remembers what the sensors really measured and `mixed` which entries have bytes of two
measurements; only `ReportsAreMeasured` looks at them. `SkipSample`
may come as soon as the FIFO is not empty, because of the finding `temp_fifo`.

**Display** splits a call into `Write` (data, under the mutex) and `addDrawJob`
(job, under it again), a drawing into one read per field, and `freeDrawJob` into
its unlocked test and its locked part. `calls` is what a thread still has to
call. The threads of `NORMALPRIO+20` end their calls before one of `NORMALPRIO` goes
on, but may come between each other's when they wait for the mutex. Their values
are small numbers; the sterilizer's are its states. `stale` remembers the fields
whose last job was dropped, `ended` what the result widget ought to show. The
sterilizer is its sequence of states with the calls of each, so that buttons,
mails, states and drawings form a closed loop; `fetch_next` is there because a
list that was completed is saved only in the next pass, which reads a mail first.
The mail with which the sterilizer stops the regulator in the middle of a call
(`sterilizer.c:266`) waits for room without a limit; it is a step of its own in
`HeatControl` (`Sterilizer`), and `Display` leaves it out. So `StopIsObeyed` says nothing
of a sterilizer that waits for the regulator.

**FuseMonitor** has two steps for the callback of the timer: `FuseError` reads the
input and posts, or drops the mail at a full mailbox (`chMBPostI` does not wait);
`EnableChannel` ends it. An edge of the input may come in between, since the EXT interrupts
preempt the timer's (priorities 6 and 8, `mcuconf.h:137, 322`). `SendErrMail` and
`FetchMail` stand for the other threads at the mailbox. `reported`, `dropped` and `missed`
remember what became of the high input since it rose.

## 3. Runs

| Run | Instance | Shows |
|---|---|---|
| `heat_safety` | 1 channel, duty cycles 0 and 1, 2 records, `NUM_OF_TEMP_SWING` 0, mailboxes 1/2/2, error list of 1, 1 fuse, 3 button presses, 1 error; no card | type invariant, `FailSafe`, `ListedErrorDisables`, `QuietUnlessActive`, `HeatFollowsSterilizer`, `SuccessIsSterile`, `ErrorsAreFinal`, `DisableComesFirst`, `RecordsAreKept`, and that the whole implements `Heater` (`IsFailSafeHeater`) |
| `heat_liveness` | 1 record, buffers of 1 item, a good and a full card that come and go, 1 press, 1 error | `ErrorDisablesHeat`, `ErrorStopsRun`, `EndOfRunStopsHeat`, `SaveEnds` |
| `inner_buffer` | 3 items, 2 data values | no wild remove, nothing dropped, items conserved, implements `Fifo`, items come back if the consumer looks for them |
| `card` | 2 polls, buffers of 2, result files of 3 lines, good and full cards, both failures, 4 swaps, hasty ones too | type invariant, `BusyMeansOpen`, `StateFollowsDriver`, `DebouncedInsertion`, `ImplementsFileBuffers`, `RemovedCardIsNoticed`, `WriterIsServed` |
| `sampling` | 2 channels, windows of 2 values, a FIFO of 1, 2 readings, 1 failed or torn transfer | type invariant (16 bits), `ReportsAreMeasured`, `SteadyReports`, `SlopesAddUp`, `ControlIsTotal`, `HotterIsHeatedLess`, `InitEnds` |
| `display` | queue of 2 jobs, mailbox of 1, values 0 and 1, 2 presses, 1 update of another thread, swing or error | type invariant, `JobsConserved`, `ShownOrPending`, `DisplayCatchesUp`, `RunCanBeStopped`, `StopIsObeyed` |
| `heat_pwm`, `temp_fifo`, `dma_copy`, `fuse_monitor`, `card_insert`, `card_full` | see section 6 | what the code's comments say and the code does not do |

**Why the bounds are enough.** Three presses allow a run to be started, stopped
and started or printed again with messages of an earlier run still in flight;
mailboxes of 1 and 2 messages make every post block at times; two records tell a
full list from a partial one; two polls tell a bouncing contact from a steady
one; a result file of more lines than the buffer has items makes the writer wait;
four swaps leave both events pending with a card in or out of the slot. With one
channel the loops over the channels are still entered and left; the proofs hold
for any number. The safety run has no card because `saveLog` and `saveString`
are then skipped and the state space stays small; the liveness run has cards, and
the theorems hold for every set of cards. The error list of one item makes the
second error find the list full.

In `sampling` the readings are 9724 and 9732, 16#25FC and 16#2604, on both sides of a
byte boundary: mixed, their bytes give 9476 or 9980, almost a whole low byte off. Their
distance is more than the hysteresis, but a mean lies within it. The values that occur lie on both sides
of 9600, up to which only the rules for "melting" and "cold" are left and where "cold" has
all the weight. The sterile limit, 9720, is the lower end of the band of 9724, so
that a sample is sterile, half sterile or not. One failed or torn transfer at a time is
enough to spoil a window of two values in each of its places; the proof holds for any
number. The first report is the step from 0 to the mean, which is the steepest slope there is. What
depends on other numbers is proved for all of them. In `display` a queue of two
jobs is full at times (the start of a run asks for three), a mailbox of one makes
the button wait, and two presses start a run and stop it, start and print, or
press a button in a save that hangs; the error fills the mailbox. In `fuse_monitor` two
channels are enough to take the timer from each other, and a mailbox of one is full at
times; the theorems hold for any number of both.

`CHECK_DEADLOCK FALSE` is set where presses, errors or swaps are bounded and the
system may come to rest, or where it really hangs: without a card a thread that
waits for room in a file buffer waits for ever.

**Mutants.** Each property of a passing run has a mutant in the module it is
about: a plausible bug (a dropped guard, a missing mail, a stale result) that
makes TLC find the property violated. They are named after the definition they
replace and marked `Mutant:`.

## 4. Fairness

* `HeatControl!Fairness` is weak fairness of the three threads. Every pass ends in
  a sleep or blocks, the processor is idle most of the time, and no thread of
  these priorities loops without sleeping, so each thread that can go on does.
  Nothing is assumed of interrupts, buttons, sensors, cards, or the cardhandler:
  the properties exempt a thread that waits for ever for a free item
  (`LogStalled`, `SaveStalled`), which the code can do.
* `CardHandler!FairSpec`: the virtual timer rearms itself in its callback; the
  thread loops with a limit on its wait; a writer that has opened a file goes on
  with it when the buffer has room. Nobody is obliged to open a file or swap a card.
* `InnerBuffer!FairSpec`: both threads go on with a call they have begun, and the
  mutex is held only for a bounded number of instructions. When a thread calls again
  is up to its caller: that the consumer looks at the full list again and again
  (`LooksAgain`) is a premise of `ItemsComeBack`, not an assumption. The printer does so in
  every pass; the cardhandler does only while the card is usable and the file open
  (`cardhandler.c:279-287`), for which `WriterIsServed` and the finding `card_full` are the
  answer, and the regulator for the temperature FIFO in every pass that is not blocked.
* `Sampling!FairSpec`: the timer that wakes the tempreader runs on, transfers end with
  a result or a timeout of 4 ms, and the regulator loops.
* `Display!FairSpec`: a thread that is in its calls ends them, the lcdcontrol thread
  gets the processor, the sterilizer reads its mail when it is not in a save, and
  ends a print. It need not end a save (`SterSaved` has no fairness), because a
  writer may wait for ever for a card. No button need be pressed, no value shown.
* `DmaCopy`: a started transfer ends and the thread goes on. `FuseMonitor`: an
  armed timer fires, unless it is set again and again, and its callback ends. Nothing is
  assumed of the mailbox.

`WriterIsServed` says what is behind the exemptions: a writer waits for ever only
if there is no usable card any more, or if the cardhandler closed the file under
it. The latter happens: `CheckClose` sees an empty buffer, the writer opens the
next file, `CloseFile` clears `isopen` (`cardhandler.c:323-331`). A sterilizer in
that place waits for ever after ten lines; the regulator only posts two lines and
opens the file again after the next sample.

## 5. Proofs

All theorems hold for every value of the constants that satisfies the named
assumptions (`MailboxSizes`, `FileBufferConstants`, `RegulatorConstants`,
`SterilizerConstants`, `ErrorHandlerConstants`, `EnvironmentBounds`,
`BufferConstants`, `CardHandlerConstants`, `TempreaderConstants`, `DisplayConstants`): sizes are positive numbers,
`SAVE_INTERVAL` is at least 2 passes, 0 is a duty cycle, cards are good or full,
temperatures are in the range of the sensor (-55 to 150 degrees), the hysteresis
is at most 256 units.
TLC evaluates them in the runs.

**Control core** (`HeatControlTypes`, `HeatControlProofs`). Type correctness is
inductive once it says where loop variables are (`Typed`). The safety properties
are proved from

    HeatInv == Typed /\ RoutineInv /\ QuietInv /\ RunInv /\ ErrorInv
                     /\ MailInv /\ HeatFollowsSterilizer

* `RoutineInv`: which state a start or stop routine was entered from. Without it a
  routine might be thought to start a disabled regulator.
* `QuietInv`: `QuietUnlessActive`, and the channels a running routine has gone
  through are cleared.
* `RunInv`: which state each step of the sterilizer belongs to, and that during a
  run all records are sterile until one is not. `SuccessIsSterile` follows at the
  step that declares the success.
* `ErrorInv`: an item is on the list while the errorhandler is about to send its
  mails; the disable mail goes ahead of all others (`DisableUnderWay`), and no
  step but its own end in DISABLE takes it away. This gives `FailSafe` and
  `ListedErrorDisables`.
* `MailInv`: the disable mails are the first ones in the regulator's mailbox. A
  disable is posted ahead, everything else behind; lemmas on `Append`, on the post
  ahead and on `Tail` carry it through. This gives `DisablesComeFirst`
  (`DisableComesFirst`): a start or stop that waits in the mailbox when the error
  comes is not read before the disable.
* `HeatFollowsSterilizer` is stated on `ReplayedState`, what the regulator's state
  will be when it has read its mails; that form is inductive together with the
  above.

`NoWayBack` (`ErrorsAreFinal`) and `RecordsKept` (`RecordsAreKept`) are action
properties proved from the same invariant. `CoreIsFailSafeHeater` proves the
refinement of `Heater`: `HeatIsRun` reads the three abstract variables off the
invariant, `RunChange` lists what a step can do to the sterilizer's state,
`DisableStays` and `SterilizerDisablesNot` say what it can do to a disable, and each
combination is one abstract action or a stutter.

`HeatDoesNotReturn` (`NoHeatReturns`) bounds the finding `heat_pwm`: a channel that
is off comes on only while the regulator is active, and in a routine that stops
or disables it only at that channel or before it. So there is no other way to
heat that nobody controls than the interrupt between the two calls of section 6.

**Inner buffer** (`InnerBufferProofs`). `TypedCount` relates the
counters to the lengths of the lists, off by one while a thread holds the mutex.
That the unlocked tests are harmless follows: with one producer and one consumer
only the other thread can change a list in between, and only in the harmless
direction. Conservation of items is proved next, and with it the refinement
`BufferIsFifo`: the abstract queue is the contents of the items of the full list;
only the two list operations on that list are seen by `Fifo`.

**Cardhandler** (`CardHandlerProofs`). `CardInv` adds to the properties: a writer
that posts has lines left (`PostingInv`), the thread is at the files only on a
usable card (`LoopInv`), counter and history add up (`CountInv`, from which the
debouncing follows), and `EventInv`: whoever still believes in a card whose
removal was noticed, or is about to mount one, has the removal among its events.
`StateFollowsDriver` is not inductive without the last: a new card that replaces one
whose removal is pending disconnects the driver, and if it does not connect the
state still claims the old card, until the removal is handled. `KeepsFileBuffers` proves
the refinement. `NoFileStaysOpen` says of the flags, which both threads write, that
a file that is open has its writer at work or is to be closed: the close race of
section 4 loses a request to close only together with the file.

**Fuzzy logic** (`FuzzyLogicProofs`). The module first proves of `Sum`, by a least
counterexample, that it is a number, bounded by bounds of its terms, and positive
if a term is and none is negative. `DutyIsAPercentage` then needs only that
memberships are between 0 and `Unit` and that some rule fires: the ranges of
melting, cold, medium and hot cover all temperatures, and those of the slopes all
changes, each with an overlap, so that a minimum of two memberships is positive.

`HotterNeedsLess` says that hotter wax is not heated more, for every change of the
temperature, but for one percent: the exact mean does not grow (`MeanFalls`), and of two
ordered means the cut ones are ordered up to one percent (`CutsOrdered`). Without that
percent it is false: where the mean is exactly 100 a rounding may give 99, and a slightly
hotter channel 100. The rules are written out (`RulesExpanded`); the change enters
only through the membership that limits cold and medium and the duty cycles of
the two rules (`OneOrTwoRules`). Up to 9600 (75 degrees)
melting hands over to cold, up to 10880 (85 degrees) cold to medium, then medium
to hot; each time the later rule asks for no more and has a weight that does not
fall, the earlier one a weight that does not grow, and `MixedMean` compares the two
weighted means multiplied out. It stops at 14592 (114 degrees)
on purpose: from there to 116 degrees the rules for "sterile" heat harder than
those for "hot" alone, which holds the temperature. `DutyAtTheEnds` adds that solid
wax is heated with 99 or 100 percent and wax above 116 degrees is not heated.
`DutyIsAPercentage` says of every value that can come out that it is a whole
percent from 0 to 100. The duty cycle
is not monotone in the change of the temperature, and no theorem says so.

**Sampling** (`SamplingProofs`). Type correctness says that nothing wraps in 16
bits; it needs that windows and bands stay in the range of the sensor, a little
widened (`InRange`): a mean lies between the values of its window, and the band
follows the mean. `ReportsAreMeasured` is proved from `Truthful`, which relates
each entry of a window to the true value behind it, entry by entry: equal, or within
a low byte if the entry is mixed; means keep the relation. `ByteError(c)` is 0 unless
the window of the channel has a mixed entry, so that a lost or torn byte is
forgotten with its window. `SlopesAddUp` needs `Chained`: what the
regulator holds, the samples in the FIFO and `prev_temp` form a chain in which
each slope is the difference to the element before. `ControlIsTotal` is
`DutyIsAPercentage` for the samples that type correctness admits, and
`HotterIsHeatedLess` is `HotterNeedsLess` for two channels of one sample.
`SterileIsMeasured` (proved, and not a property of a run) says that wax is reported as sterile only
if the mean of what every working sensor measured is above the limit, but for
a low byte of another measurement: a report is the lower end of the band of the hysteresis.

**Display** (`DisplayProofs`). The invariant adds that what a thread writes is drawn
by the same call or a later one of its sequence (`CallsDraw`), and, for the result
widget, which two functions draw, that the last job of the two in the queue
agrees with what was called last (`LastResultAgrees`); `ShownOrPending` is not
inductive without it, because the older job would draw the newer state wrongly.
`Steps` reduces `Next` to the kinds of step the display can tell apart.

**Fuse inputs** (`FuseMonitorProofs`). The run `fuse_monitor` shows that a blown
fuse can be missed; the theorems say when, for every number of channels and every size
of the mailbox (the hypotheses are `CHANNEL_NUM \in Nat` and `ERR_HANDL_MAILBOX_SIZE \in
Nat`). `BlownFuseIsDebounced`: an input that is high has been posted; or the timer is set
for it; or it was missed in one of three ways: its mail was dropped at a full mailbox,
its edge came between the read and the end of a callback, or its debounce was lost
(`Lost`). The invariant `Debounced` adds that a channel with the timer or the callback has
its interrupt disabled, and never has both. `LostOnlyToAnother`: a debounce is lost only to an
edge on another input while the timer runs. `LostStaysLost`: an input that lost it is never read again.

**Only model-checked**: the liveness properties (`ErrorDisablesHeat`,
`ErrorStopsRun`, `EndOfRunStopsHeat`, `SaveEnds`, `ItemsComeBack`,
`RemovedCardIsNoticed`, `WriterIsServed`, `InitEnds`, `DisplayCatchesUp`,
`RunCanBeStopped`, `StopIsObeyed`), because ENABLED and so fairness is out of the
prover's reach. Every invariant and action property of the passing runs, and all
three refinements, have a theorem.

## 6. Where the code does not do what its comments say

* `heat_pwm` (`regulator.c:360-362, 376-378`): a routine that stops a channel
  disables the PWM channel, then its period interrupt, then clears the duty cycle.
  An interrupt between the first two enables the channel again, and nothing
  switches it off later: the heater stays on with the regulator stopped or
  disabled. `QuietUnlessActive` is what does hold, and `HeatDoesNotReturn` shows that
  this is the only such window.
* `temp_fifo` (`regulator.c:459`): the item is cleared instead of its data. The
  wiped words are its link, its data pointer, those of the next item, and the link
  of the one behind that; the FIFO refuses samples while it is not full.
* `dma_copy` (`sterilizer.c:185-192`): the transfer is started before the system is
  locked and the thread suspended; an end that comes first wakes nobody.
* `fuse_monitor` (`errorhandler.c:98-142`): two edges on two inputs within 10 ms share
  a timer; the first input is never read, and its interrupt stays off
  (`LostStaysLost`). The property leaves out the two other ways to miss a fuse, a full
  mailbox and an edge in the end of a callback (`dropped`, `missed`), of which no comment
  says that they cannot happen.
* `card_insert` (`cardhandler.c:278`): a card is taken out and put in again while the
  thread is busy (a write to a missing card takes a second to time out). Both events
  are pending; the insertion is handled first, the removal second, and the card
  stays unmounted in its slot. The run uses `Hasty = FALSE`: every swap is
  seen by the polls.
* `card_full` (`cardhandler.c:233-237, 279`): files open on a full card, but its
  buffers are not drained. The regulator hangs in `saveLog`, reads no more mails,
  and keeps its last duty cycle.

## 7. Not modelled, and the plan

Not modelled: the slope check of the regulator (nondeterministic in `Regulator`),
timestamps and the clock, the text of lines, I2C error
codes, the list of errors on the display and the layout, the serial driver, the
order of the init functions, vendored code. In `Sampling` the FIFO hands out each
sample once and in order; that its items may be damaged is `temp_fifo`. Most of
the repository is vendored (ChibiOS, its device headers, FatFs, uGFX), of which
only the behaviour that the program relies on is part of the models.

Hazards without a property say in `PROJECT.json` why. What is left, in this order:

1. The slope check with its timers (not reset by a start, elapsed time across
   midnight), and `savetime` with a system time that wraps (a small power of two),
   in `Sterilizer`.
2. Identity of files in `CardHandler`: which file a line ends up in after the close
   race or a swap, and lines lost because `f_write` fails.
3. `FuseMonitor` composed with `HeatControl`, and the circular wait of regulator and
   errorhandler with both mailboxes full.
4. Startup: the init functions as steps, threads created before their partners
   are initialised.
