-------------------------- MODULE HeatControlProofs --------------------------
(***************************************************************************)
(* Proofs of the safety properties of the control core, for every number   *)
(* of channels, all sizes and duty cycles, any number of presses and       *)
(* faults.  Each property is a conjunct of an invariant of its own; the    *)
(* lemma of a part says which other parts it needs.                        *)
(***************************************************************************)
EXTENDS HeatControlTypes, SequenceTheorems

-----------------------------------------------------------------------------
(***************************************************************************)
(* Mailboxes: what they hold, and their newest message.                    *)
(***************************************************************************)
LEMMA HoldsAppend ==
  ASSUME NEW M, NEW mb \in Seq(M), NEW msg \in M, NEW m
  PROVE  /\ Holds(Append(mb, msg), m) <=> Holds(mb, m) \/ m = msg
         /\ Append(mb, msg) # << >>
         /\ Append(mb, msg)[Len(Append(mb, msg))] = msg
  <1>1. /\ Len(mb) \in Nat /\ Len(Append(mb, msg)) = Len(mb) + 1
        /\ \A k \in 1 .. Len(mb) : Append(mb, msg)[k] = mb[k]
        /\ Append(mb, msg)[Len(mb) + 1] = msg
        /\ Append(mb, msg) # << >>
    BY AppendProperties, LenProperties
  <1>2. Append(mb, msg)[Len(Append(mb, msg))] = msg
    BY <1>1
  <1> QED
    BY <1>1, <1>2 DEF Holds

LEMMA HoldsAhead ==
  ASSUME NEW M, NEW mb \in Seq(M), NEW msg \in M, NEW m
  PROVE  Holds(<<msg>> \o mb, m) <=> Holds(mb, m) \/ m = msg
  <1> DEFINE a == <<msg>> \o mb
  <1>1. /\ Len(mb) \in Nat /\ Len(a) = Len(mb) + 1
        /\ a[1] = msg
        /\ \A k \in 1 .. Len(mb) : a[k + 1] = mb[k]
    OBVIOUS
  <1> HIDE DEF a
  <1>2. ASSUME Holds(mb, m) PROVE Holds(a, m)
    <2>1. PICK k \in 1 .. Len(mb) : mb[k] = m
      BY <1>2 DEF Holds
    <2>2. k + 1 \in 1 .. Len(a) /\ a[k + 1] = m
      BY <1>1, <2>1
    <2> QED
      BY <2>2 DEF Holds
  <1>3. ASSUME Holds(a, m), m # msg PROVE Holds(mb, m)
    <2>1. PICK k \in 1 .. Len(a) : a[k] = m
      BY <1>3 DEF Holds
    <2>2. k - 1 \in 1 .. Len(mb) /\ mb[k - 1] = m
      BY <1>1, <1>3, <2>1
    <2> QED
      BY <2>2 DEF Holds
  <1>4. ASSUME m = msg PROVE Holds(a, m)
    BY <1>1, <1>4 DEF Holds
  <1> QED
    BY <1>2, <1>3, <1>4 DEF a

LEMMA HoldsTail ==
  ASSUME NEW M, NEW mb \in Seq(M), mb # << >>, NEW m
  PROVE  /\ Holds(mb, m) <=> Holds(Tail(mb), m) \/ m = Head(mb)
         /\ Tail(mb) # << >> => Tail(mb)[Len(Tail(mb))] = mb[Len(mb)]
         /\ Tail(mb) = << >> => mb[Len(mb)] = Head(mb)
  <1> DEFINE t == Tail(mb)
  <1>1. /\ Len(mb) \in Nat \ {0} /\ Len(t) = Len(mb) - 1
        /\ Head(mb) = mb[1]
        /\ t \in Seq(M)
        /\ \A k \in 1 .. Len(t) : t[k] = mb[k + 1]
    BY HeadTailProperties, EmptySeq
  <1>1a. /\ t # << >> => Len(t) \in Nat \ {0}
        /\ t = << >> => Len(t) = 0
    BY <1>1, EmptySeq
  <1> HIDE DEF t
  <1>2. ASSUME Holds(t, m) PROVE Holds(mb, m)
    <2>1. PICK k \in 1 .. Len(t) : t[k] = m
      BY <1>2 DEF Holds
    <2>2. k + 1 \in 1 .. Len(mb) /\ mb[k + 1] = m
      BY <1>1, <2>1
    <2> QED
      BY <2>2 DEF Holds
  <1>3. ASSUME Holds(mb, m), m # Head(mb) PROVE Holds(t, m)
    <2>1. PICK k \in 1 .. Len(mb) : mb[k] = m
      BY <1>3 DEF Holds
    <2>2. k - 1 \in 1 .. Len(t) /\ t[k - 1] = m
      BY <1>1, <1>3, <2>1
    <2> QED
      BY <2>2 DEF Holds
  <1>4. ASSUME m = Head(mb) PROVE Holds(mb, m)
    BY <1>1, <1>4 DEF Holds
  <1>5. /\ t # << >> => t[Len(t)] = mb[Len(mb)]
        /\ t = << >> => mb[Len(mb)] = Head(mb)
    BY <1>1a, <1>1
  <1> QED
    BY <1>2, <1>3, <1>4, <1>5 DEF t

-----------------------------------------------------------------------------
(***************************************************************************)
(* Where the regulator can be in which state.                              *)
(***************************************************************************)
RoutineInv ==
  /\ InRoutine /\ reg_target = "ACTIVE" => reg_state = "STOP"
  /\ InRoutine /\ reg_target = "STOP" => reg_state = "ACTIVE"
  /\ reg_pc \in {"temp", "postT", "duty", "postD", "open", "log1", "log2",
                 "fuzzy", "postF"} => reg_state = "ACTIVE"

\* Outside its thread only the compare registers of the regulator change.
LEMMA OutsideRegulator ==
  ASSUME [Next]_vars, ~RegulatorStep
  PROVE  UNCHANGED <<reg_state, dutycycle, is_sterile, reg_pc, reg_ch,
                     reg_target, notify>>
  BY DEF Next, SterilizerStep, ErrorHandlerStep, PwmInterrupt, PwmPeriod,
         RaiseError, SensorInitEnd, PressButton, CardWrites, CardChanges,
         vars, regulator

\* The message that the regulator fetches.
LEMMA FetchedMail ==
  ASSUME TypeOK, RegFetch
  PROVE  /\ Head(fuzzyreg_mb) \in RegulatorMsg
         /\ fuzzyreg_mb \in Seq(RegulatorMsg)
         /\ fuzzyreg_mb # << >>
  BY FetchType DEF TypeOK, MailboxTypeOK, RegFetch

LEMMA RoutineStep ==
  ASSUME TypeOK, RoutineInv, [Next]_vars
  PROVE  RoutineInv'
  <1> USE DEF RoutineInv, InRoutine
  <1>1. CASE ~RegulatorStep
    BY <1>1, OutsideRegulator
  <1>2. CASE RegFetch
    <2>1. Head(fuzzyreg_mb) \in {"START", "STOP", "DISABLE"}
      BY <1>2, FetchedMail DEF RegulatorMsg
    <2> QED
      BY <1>2, <2>1 DEF RegFetch, Accepts, TargetOf
  <1>3. CASE RegNotify
    BY <1>3 DEF RegNotify, TypeOK, RegulatorTypeOK, RegState
  <1>4. CASE RegNoMail \/ RegOutput \/ RegNoSample \/ RegSample \/ RegCheckTemp
    BY <1>4 DEF RegNoMail, RegOutput, RegNoSample, RegSample, RegCheckTemp
  <1>5. CASE RegSetDuty \/ RegSendErrMail
    BY <1>5 DEF RegSetDuty, RegSendErrMail, NextChannel
  <1>6. CASE RegOpenLog \/ RegSaveLog \/ RegFuzzyErrors
    BY <1>6 DEF RegOpenLog, RegSaveLog, RegFuzzyErrors
  <1> QED
    BY <1>1, <1>2, <1>3, <1>4, <1>5, <1>6 DEF RegulatorStep, Threadregulator

-----------------------------------------------------------------------------
(***************************************************************************)
(* No duty cycle and no interrupt unless the regulator is active.          *)
(***************************************************************************)
ClearedChannels ==
  InRoutine /\ reg_target # "ACTIVE" =>
    \A c \in Channel : c < reg_ch => dutycycle[c] = 0 /\ ~notify[c]

QuietInv == QuietUnlessActive /\ ClearedChannels

LEMMA QuietStep ==
  ASSUME TypeOK, RoutineInv, QuietInv, [Next]_vars
  PROVE  QuietInv'
  <1> USE DEF QuietInv, QuietUnlessActive, ClearedChannels, InRoutine
  <1>a. /\ reg_ch \in Nat /\ Channel \subseteq Nat
        /\ \A c \in Channel : ~(c < 0)
        /\ \A c \in Channel : c < CHANNEL_NUM - 1 \/ c = CHANNEL_NUM - 1
    BY RegulatorConstants DEF TypeOK, RegulatorTypeOK, Channel
  <1>1. CASE ~RegulatorStep
    BY <1>1, OutsideRegulator
  <1>2. CASE RegFetch
    BY <1>2, <1>a DEF RegFetch
  <1>3. CASE RegNotify
    <2>1. /\ \A c \in Channel : c # reg_ch => /\ notify'[c] = notify[c]
                                              /\ dutycycle'[c] = dutycycle[c]
          /\ notify'[reg_ch] = (reg_target = "ACTIVE")
          /\ reg_target # "ACTIVE" => dutycycle'[reg_ch] = 0
          /\ reg_target = "ACTIVE" => dutycycle'[reg_ch] = dutycycle[reg_ch]
          /\ reg_ch \in Channel
      BY <1>3 DEF RegNotify, TypeOK, RegulatorTypeOK
    <2>2. CASE reg_ch = CHANNEL_NUM - 1
      <3>1. /\ reg_pc' = "sample" /\ reg_state' = reg_target
        BY <1>3, <2>2 DEF RegNotify
      <3>2. ASSUME reg_target # "ACTIVE", NEW c \in Channel
            PROVE  dutycycle'[c] = 0 /\ ~notify'[c]
        BY <1>3, <1>a, <2>1, <2>2, <3>2 DEF RegNotify
      <3> QED
        BY <3>1, <3>2
    <2>3. CASE reg_ch # CHANNEL_NUM - 1
      <3>1. /\ reg_pc' = "out" /\ reg_ch' = reg_ch + 1
            /\ reg_state' = reg_state /\ reg_target' = reg_target
            /\ reg_pc = "ntf"
        BY <1>3, <2>3 DEF RegNotify
      <3>2. \A c \in Channel : c < reg_ch' <=> c < reg_ch \/ c = reg_ch
        BY <1>a, <3>1
      <3>3. ClearedChannels'
        BY <2>1, <3>1, <3>2
      <3>4. QuietUnlessActive'
        BY <2>1, <3>1, <3>2
      <3> QED
        BY <3>3, <3>4
    <2> QED
      BY <2>2, <2>3
  <1>4. CASE RegNoMail \/ RegOutput \/ RegNoSample \/ RegSample \/ RegCheckTemp
    BY <1>4 DEF RegNoMail, RegOutput, RegNoSample, RegSample, RegCheckTemp
  <1>5. CASE RegSetDuty
    BY <1>5 DEF RegSetDuty, NextChannel, RoutineInv
  <1>6. CASE RegSendErrMail
    BY <1>6 DEF RegSendErrMail, NextChannel, RoutineInv
  <1>7. CASE RegOpenLog \/ RegSaveLog \/ RegFuzzyErrors
    BY <1>7 DEF RegOpenLog, RegSaveLog, RegFuzzyErrors, RoutineInv
  <1> QED
    BY <1>1, <1>2, <1>3, <1>4, <1>5, <1>6, <1>7
       DEF RegulatorStep, Threadregulator

\* A compare register that was 0 gets no value but that of a duty cycle.
LEMMA RegulatorCompares ==
  ASSUME TypeOK, [Next]_vars, NEW c \in Channel, ccr[c] = 0, ccr'[c] # 0
  PROVE  dutycycle[c] # 0
  <1>a. ccr \in [Channel -> DutyCycles]
    BY DEF TypeOK, RegulatorTypeOK
  <1>1. CASE RegOutput
    BY <1>a, <1>1 DEF RegOutput
  <1>2. CASE PwmInterrupt
    <2>1. PICK d \in Channel : PwmPeriod(d)
      BY <1>2 DEF PwmInterrupt
    <2> QED
      BY <1>a, <2>1 DEF PwmPeriod
  <1>3. CASE RegulatorStep /\ ~RegOutput
    BY <1>3 DEF RegulatorStep, Threadregulator, RegFetch, RegNoMail, RegNotify,
                RegNoSample, RegSample, RegCheckTemp, RegSetDuty,
                RegSendErrMail, RegOpenLog, RegSaveLog, RegFuzzyErrors
  <1>4. CASE ~RegulatorStep /\ ~PwmInterrupt
    BY <1>4 DEF Next, SterilizerStep, ErrorHandlerStep, RaiseError,
                SensorInitEnd, PressButton, CardWrites, CardChanges, vars,
                regulator
  <1> QED
    BY <1>1, <1>2, <1>3, <1>4

-----------------------------------------------------------------------------
(***************************************************************************)
(* Where the sterilizer can be in which state, and what its list holds.    *)
(***************************************************************************)
AllSterile == \A k \in 1 .. Len(list) : list[k]

RunInv ==
  /\ ster_pc = "start" => /\ steril_state = "STOP"
                          /\ list = << >> /\ ~finalresult
  /\ ster_pc \in {"stop", "end"} => steril_state = "ACTIVE"
  /\ ster_pc = "write" => steril_state = "SAVE"
  /\ ster_pc = "print" => steril_state = "PRINT"
  /\ steril_state = "ACTIVE" /\ ster_pc # "end" => AllSterile /\ ~finalresult
  /\ SuccessIsSterile

LEMMA RunStep ==
  ASSUME TypeOK, RunInv, [Next]_vars
  PROVE  RunInv'
  <1> USE DEF RunInv
  <1>a. /\ list \in Seq(BOOLEAN) /\ finalresult \in BOOLEAN
        /\ is_sterile \in BOOLEAN
        /\ Len(list) \in Nat
    BY DEF TypeOK, SterilizerTypeOK, RegulatorTypeOK
  <1>b. SuccessIsSterile <=>
          (finalresult => Len(list) = RESULT_LIST_SIZE /\ AllSterile)
    BY DEF SuccessIsSterile, AllSterile
  <1>c. (SuccessIsSterile <=>
          (finalresult => Len(list) = RESULT_LIST_SIZE /\ AllSterile))'
    BY DEF SuccessIsSterile, AllSterile
  <1>1. CASE ~SterilizerStep
    BY <1>1 DEF Next, RegulatorStep, ErrorHandlerStep, PwmInterrupt,
                RaiseError, SensorInitEnd, PressButton, CardWrites,
                CardChanges, vars, sterilizer, AllSterile, SuccessIsSterile
  <1>2. ASSUME UNCHANGED <<list, finalresult>>
        PROVE  /\ AllSterile' <=> AllSterile
               /\ SuccessIsSterile'
    BY <1>2 DEF AllSterile, SuccessIsSterile
  <1>3. CASE SterIgnore \/ SterNoMail
    BY <1>2, <1>3 DEF SterIgnore, SterNoMail, SterTakeMail
  <1>4. CASE SterChangeState
    BY <1>2, <1>4 DEF SterChangeState, SterTakeMail
  <1>5. CASE SterBeginStart
    <2>1. AllSterile'
      BY <1>5 DEF SterBeginStart, AllSterile
    <2> QED
      BY <1>5, <1>c, <2>1 DEF SterBeginStart, SterTakeMail
  <1>6. CASE SterStart
    <2>1. AllSterile'
      BY <1>6 DEF SterStart, AllSterile
    <2> QED
      BY <1>2, <1>6, <2>1 DEF SterStart
  <1>7. CASE SterBeginStop \/ SterStop
    BY <1>2, <1>7 DEF SterBeginStop, SterStop, SterTakeMail, Sleep
  <1>8. CASE SterIdle \/ SterSkipSave \/ SterBeginPrint \/ SterEndPrint
    BY <1>2, <1>8 DEF SterIdle, SterSkipSave, SterBeginPrint, SterEndPrint,
                      Activity, Sleep
  <1>9. CASE SterOpenResult \/ SterSaveString
    BY <1>2, <1>9 DEF SterOpenResult, SterSaveString, Activity, Sleep
  <1>10. CASE SterRecord(is_sterile)
    <2>1. /\ AllSterile /\ ~finalresult /\ finalresult' = finalresult
          /\ steril_state' = steril_state /\ ster_pc' = "fetch"
          /\ PutResult(is_sterile) /\ is_sterile = TRUE
      BY <1>a, <1>10 DEF SterRecord, Activity, SleepAfterSave
    <2>2. AllSterile'
      <3>1. CASE list' = list
        BY <2>1, <3>1 DEF AllSterile
      <3>2. CASE list' = Append(list, TRUE)
        <4>1. /\ Len(list') = Len(list) + 1
              /\ \A k \in 1 .. Len(list) : list'[k] = list[k]
              /\ list'[Len(list) + 1] = TRUE
          BY <1>a, <3>2, AppendProperties
        <4> QED
          BY <1>a, <2>1, <4>1 DEF AllSterile
      <3> QED
        BY <2>1, <3>1, <3>2 DEF PutResult
    <2> QED
      BY <1>a, <1>c, <1>10, <2>1, <2>2 DEF SterRecord
  <1>11. CASE SterSwing(is_sterile)
    <2>1. AllSterile'
      BY <1>11 DEF SterSwing, AllSterile
    <2> QED
      BY <1>c, <1>11, <2>1 DEF SterSwing, Activity, SleepAfterSave
  <1>12. CASE SterFail(is_sterile)
    BY <1>c, <1>12 DEF SterFail, Activity
  <1>13. CASE SterCheckSize(is_sterile)
    <2>1. AllSterile' <=> AllSterile
      BY <1>13 DEF SterCheckSize, AllSterile
    <2> QED
      BY <1>c, <1>13, <2>1 DEF SterCheckSize, Activity, Sleep, SleepAfterSave
  <1> QED
    BY <1>1, <1>3, <1>4, <1>5, <1>6, <1>7, <1>8, <1>9, <1>10, <1>11, <1>12,
       <1>13 DEF SterilizerStep, Threadsterilizer

-----------------------------------------------------------------------------
(***************************************************************************)
(* What the sterilizer sends, and how its state changes.                   *)
(***************************************************************************)
LEMMA SterilizerMail ==
  ASSUME TypeOK, RunInv, SterilizerStep
  PROVE  \/ /\ fuzzyreg_mb' = Append(fuzzyreg_mb, "START")
            /\ steril_state = "STOP" /\ steril_state' = "ACTIVE"
         \/ /\ fuzzyreg_mb' = Append(fuzzyreg_mb, "STOP")
            /\ steril_state = "ACTIVE" /\ steril_state' = "SAVE"
         \/ /\ UNCHANGED fuzzyreg_mb
            /\ \/ steril_state' = steril_state
               \/ /\ steril_state \notin {"ACTIVE", "ERROR"}
                  /\ steril_state' \in {"STOP", "PRINT"}
               \/ /\ Holds(steril_mb, "STOPERROR")
                  /\ steril_state' = "ERROR"
  <1> USE DEF RunInv, mailboxes
  <1>1. CASE SterStart
    BY <1>1 DEF SterStart, SendMailToRegulator
  <1>2. CASE SterStop
    BY <1>2 DEF SterStop, SendMailToRegulator
  <1>3. CASE SterChangeState
    <2>1. Holds(steril_mb, Head(steril_mb))
      BY <1>3, HoldsTail
         DEF SterChangeState, SterTakeMail, TypeOK, MailboxTypeOK
    <2> QED
      BY <1>3, <2>1 DEF SterChangeState, SterTakeMail, Ignored
  <1>4. CASE SterIgnore \/ SterNoMail \/ SterBeginStart \/ SterBeginStop
    BY <1>4 DEF SterIgnore, SterNoMail, SterBeginStart, SterBeginStop
  <1>5. CASE \/ SterIdle \/ SterRecord(is_sterile) \/ SterSwing(is_sterile)
             \/ SterFail(is_sterile) \/ SterCheckSize(is_sterile)
    BY <1>5 DEF SterIdle, SterRecord, SterSwing, SterFail, SterCheckSize
  <1>6. CASE SterSkipSave \/ SterEndPrint
    BY <1>6 DEF SterSkipSave, SterEndPrint, Activity
  <1>7. CASE SterOpenResult \/ SterSaveString \/ SterBeginPrint
    BY <1>7 DEF SterOpenResult, SterSaveString, SterBeginPrint, Activity
  <1> QED
    BY <1>1, <1>2, <1>3, <1>4, <1>5, <1>6, <1>7
       DEF SterilizerStep, Threadsterilizer

\* Nobody else changes the state of the sterilizer.
LEMMA OutsideSterilizer ==
  ASSUME [Next]_vars, ~SterilizerStep
  PROVE  UNCHANGED steril_state
  BY DEF Next, RegulatorStep, ErrorHandlerStep, PwmInterrupt, RaiseError,
         SensorInitEnd, PressButton, CardWrites, CardChanges, vars, sterilizer

\* What the threads that are neither the regulator nor the sterilizer send
\* to the regulator.
LEMMA OtherMail ==
  ASSUME [Next]_vars, ~RegulatorStep, ~SterilizerStep
  PROVE  \/ UNCHANGED fuzzyreg_mb
         \/ fuzzyreg_mb' = <<"DISABLE">> \o fuzzyreg_mb
  <1> USE DEF mailboxes, regulator
  <1>1. CASE ErrorHandlerStep
    BY <1>1 DEF ErrorHandlerStep, Threaderrorhandler, ErrBootFuse, ErrBootEnd,
                ErrList, ErrUnderflow, ErrDisableRegulator, ErrStopSterilizer,
                SendDisableMailToRegulator
  <1>2. CASE PwmInterrupt
    BY <1>2 DEF PwmInterrupt, PwmPeriod
  <1>3. CASE RaiseError \/ SensorInitEnd \/ PressButton
    BY <1>3 DEF RaiseError, SensorInitEnd, PressButton
  <1>4. CASE CardWrites \/ CardChanges
    BY <1>4 DEF CardWrites, CardChanges
  <1>5. CASE UNCHANGED vars
    BY <1>5 DEF vars
  <1> QED
    BY <1>1, <1>2, <1>3, <1>4, <1>5 DEF Next

\* The error mail comes from the errorhandler only.
LEMMA ErrorMail ==
  ASSUME TypeOK, [Next]_vars, Holds(steril_mb, "STOPERROR")'
  PROVE  Holds(steril_mb, "STOPERROR") \/ ErrStopSterilizer
  <1> USE DEF mailboxes, fileBuffers
  <1>a. steril_mb \in Seq(SterilizerMsg)
    BY DEF TypeOK, MailboxTypeOK
  <1>b. ASSUME UNCHANGED steril_mb PROVE Holds(steril_mb, "STOPERROR")
    BY <1>b DEF Holds
  <1>c. ASSUME NEW msg \in SterilizerMsg, msg # "STOPERROR",
               SendMailToSterilizer(msg)
        PROVE  Holds(steril_mb, "STOPERROR")
    <2>1. Holds(Append(steril_mb, msg), "STOPERROR")
      BY <1>c DEF SendMailToSterilizer, Holds
    <2> QED
      BY <1>a, <1>c, <2>1, HoldsAppend
  <1>d. ASSUME SterTakeMail PROVE Holds(steril_mb, "STOPERROR")
    <2>1. steril_mb # << >> /\ Holds(Tail(steril_mb), "STOPERROR")
      BY <1>d DEF SterTakeMail, Holds
    <2> QED
      BY <1>a, <2>1, HoldsTail
  <1>1. CASE RegulatorStep
    <2>1. UNCHANGED steril_mb
      BY <1>1 DEF RegulatorStep, Threadregulator, RegFetch, RegNoMail,
                  RegOutput, RegNotify, RegNoSample, RegSample, RegCheckTemp,
                  RegSetDuty, RegSendErrMail, RegOpenLog, RegSaveLog,
                  RegFuzzyErrors
    <2> QED
      BY <1>b, <2>1
  <1>2. CASE SterilizerStep
    <2>1. SterTakeMail \/ UNCHANGED steril_mb
      BY <1>2 DEF SterilizerStep, Threadsterilizer, SterIgnore, SterNoMail,
                  SterChangeState, SterBeginStart, SterStart, SterBeginStop,
                  SterStop, SterIdle, SterRecord, SterSwing, SterFail,
                  SterCheckSize, SterSkipSave, SterOpenResult,
                  SterSaveString, SterBeginPrint, SterEndPrint
    <2> QED
      BY <1>b, <1>d, <2>1
  <1>3. CASE ErrorHandlerStep
    BY <1>3, <1>b DEF ErrorHandlerStep, Threaderrorhandler, ErrBootFuse,
                      ErrBootEnd, ErrList, ErrUnderflow, ErrDisableRegulator
  <1>4. CASE SensorInitEnd
    BY <1>4, <1>c DEF SensorInitEnd, SterilizerMsg
  <1>5. CASE PressButton
    BY <1>5, <1>c DEF PressButton, SterilizerMsg
  <1>6. CASE PwmInterrupt
    BY <1>6, <1>b DEF PwmInterrupt, PwmPeriod
  <1>7. CASE RaiseError \/ CardWrites \/ CardChanges
    BY <1>7, <1>b DEF RaiseError, CardWrites, CardChanges
  <1>8. CASE UNCHANGED vars
    BY <1>8, <1>b DEF vars
  <1> QED
    BY <1>1, <1>2, <1>3, <1>4, <1>5, <1>6, <1>7, <1>8 DEF Next

-----------------------------------------------------------------------------
(***************************************************************************)
(* A disable that is under way stays under way.                            *)
(***************************************************************************)

\* A step of the regulator that fetches no mail keeps its heading.
LEMMA HeadingKept ==
  ASSUME TypeOK, RegulatorStep, ~RegFetch
  PROVE  /\ UNCHANGED fuzzyreg_mb
         /\ \/ /\ InRoutine /\ InRoutine'
               /\ UNCHANGED <<reg_state, reg_target>>
            \/ InRoutine /\ ~InRoutine' /\ reg_state' = reg_target
            \/ ~InRoutine /\ ~InRoutine' /\ UNCHANGED reg_state
  <1> USE DEF mailboxes, InRoutine
  <1>1. CASE RegNotify
    BY <1>1 DEF RegNotify
  <1>2. CASE RegNoMail \/ RegOutput \/ RegNoSample \/ RegSample \/ RegCheckTemp
    BY <1>2 DEF RegNoMail, RegOutput, RegNoSample, RegSample, RegCheckTemp
  <1>3. CASE RegSetDuty \/ RegSendErrMail
    BY <1>3 DEF RegSetDuty, RegSendErrMail, NextChannel
  <1>4. CASE RegOpenLog \/ RegSaveLog \/ RegFuzzyErrors
    BY <1>4 DEF RegOpenLog, RegSaveLog, RegFuzzyErrors
  <1> QED
    BY <1>1, <1>2, <1>3, <1>4 DEF RegulatorStep, Threadregulator

\* Outside the regulator a mailbox that holds a disable keeps it.
LEMMA MailKeepsDisable ==
  ASSUME TypeOK, RunInv, [Next]_vars, ~RegulatorStep,
         Holds(fuzzyreg_mb, "DISABLE")
  PROVE  Holds(fuzzyreg_mb', "DISABLE")
  <1>1. fuzzyreg_mb \in Seq(RegulatorMsg)
        /\ {"START", "STOP", "DISABLE"} \subseteq RegulatorMsg
    BY DEF TypeOK, MailboxTypeOK, RegulatorMsg
  <1>2. \/ UNCHANGED fuzzyreg_mb
        \/ \E msg \in RegulatorMsg : fuzzyreg_mb' = Append(fuzzyreg_mb, msg)
        \/ fuzzyreg_mb' = <<"DISABLE">> \o fuzzyreg_mb
    BY <1>1, SterilizerMail, OtherMail
  <1>3. CASE UNCHANGED fuzzyreg_mb
    BY <1>3
  <1>4. ASSUME NEW msg \in RegulatorMsg, fuzzyreg_mb' = Append(fuzzyreg_mb, msg)
        PROVE  Holds(fuzzyreg_mb', "DISABLE")
    <2>1. Holds(Append(fuzzyreg_mb, msg), "DISABLE")
      BY <1>1, HoldsAppend
    <2> QED
      BY <1>4, <2>1
  <1>5. CASE fuzzyreg_mb' = <<"DISABLE">> \o fuzzyreg_mb
    <2>1. Holds(<<"DISABLE">> \o fuzzyreg_mb, "DISABLE")
      BY <1>1, HoldsAhead
    <2> QED
      BY <1>5, <2>1
  <1> QED
    BY <1>2, <1>3, <1>4, <1>5

LEMMA DisableStays ==
  ASSUME TypeOK, RoutineInv, RunInv, [Next]_vars, DisableUnderWay
  PROVE  DisableUnderWay'
  <1>a. DisableUnderWay' <=> \/ reg_state' = "DISABLE"
                             \/ InRoutine' /\ reg_target' = "DISABLE"
                             \/ Holds(fuzzyreg_mb', "DISABLE")
    BY DEF DisableUnderWay, Holds
  <1>1. CASE ~RegulatorStep
    BY <1>1, <1>a, OutsideRegulator, MailKeepsDisable
       DEF DisableUnderWay, InRoutine
  <1>2. CASE RegulatorStep /\ ~RegFetch
    BY <1>2, <1>a, HeadingKept
       DEF DisableUnderWay, RoutineInv, TypeOK, RegulatorTypeOK, RegState
  <1>3. CASE RegFetch
    <2>1. /\ Head(fuzzyreg_mb) \in RegulatorMsg
          /\ Holds(fuzzyreg_mb, "DISABLE") <=>
               \/ Holds(Tail(fuzzyreg_mb), "DISABLE")
               \/ Head(fuzzyreg_mb) = "DISABLE"
      BY <1>3, FetchedMail, HoldsTail
    <2>2. CASE Head(fuzzyreg_mb) = "DISABLE"
      BY <1>3, <1>a, <2>2 DEF RegFetch, Accepts, TargetOf, InRoutine
    <2>3. CASE Head(fuzzyreg_mb) # "DISABLE"
      BY <1>3, <1>a, <2>1, <2>3 DEF RegFetch, DisableUnderWay, InRoutine
    <2> QED
      BY <2>2, <2>3
  <1> QED
    BY <1>1, <1>2, <1>3

-----------------------------------------------------------------------------
(***************************************************************************)
(* Disable mails are read before all the others.                           *)
(***************************************************************************)
DisablesFirst(mb) ==
  \A j \in 1 .. Len(mb) : mb[j] = "DISABLE" => \A i \in 1 .. j : mb[i] = "DISABLE"

LEMMA FirstAfterAppend ==
  ASSUME NEW M, NEW mb \in Seq(M), NEW msg \in M, msg # "DISABLE",
         DisablesFirst(mb)
  PROVE  DisablesFirst(Append(mb, msg))
  <1> DEFINE a == Append(mb, msg)
  <1>1. /\ Len(mb) \in Nat /\ Len(a) = Len(mb) + 1
        /\ \A k \in 1 .. Len(mb) : a[k] = mb[k]
        /\ a[Len(mb) + 1] = msg
    BY AppendProperties, LenProperties
  <1> HIDE DEF a
  <1>2. SUFFICES ASSUME NEW j \in 1 .. Len(a), a[j] = "DISABLE", NEW i \in 1 .. j
                 PROVE  a[i] = "DISABLE"
    BY DEF DisablesFirst, a
  <1>3. j \in 1 .. Len(mb) /\ i \in 1 .. Len(mb)
    BY <1>1, <1>2
  <1> QED
    BY <1>1, <1>2, <1>3 DEF DisablesFirst

LEMMA FirstAfterAhead ==
  ASSUME NEW M, NEW mb \in Seq(M), DisablesFirst(mb)
  PROVE  DisablesFirst(<<"DISABLE">> \o mb)
  <1> DEFINE a == <<"DISABLE">> \o mb
  <1>1. /\ Len(mb) \in Nat /\ Len(a) = Len(mb) + 1
        /\ a[1] = "DISABLE"
        /\ \A k \in 1 .. Len(mb) : a[k + 1] = mb[k]
    OBVIOUS
  <1> HIDE DEF a
  <1>2. SUFFICES ASSUME NEW j \in 1 .. Len(a), a[j] = "DISABLE", NEW i \in 1 .. j
                 PROVE  a[i] = "DISABLE"
    BY DEF DisablesFirst, a
  <1>3. CASE i = 1
    BY <1>1, <1>3
  <1>4. CASE i # 1
    <2>1. /\ j - 1 \in 1 .. Len(mb) /\ i - 1 \in 1 .. j - 1
          /\ a[j] = mb[j - 1] /\ a[i] = mb[i - 1]
      BY <1>1, <1>2, <1>4
    <2> QED
      BY <1>2, <2>1 DEF DisablesFirst
  <1> QED
    BY <1>3, <1>4

LEMMA FirstAfterTail ==
  ASSUME NEW M, NEW mb \in Seq(M), mb # << >>, DisablesFirst(mb)
  PROVE  /\ DisablesFirst(Tail(mb))
         /\ Holds(mb, "DISABLE") => Head(mb) = "DISABLE"
  <1> DEFINE t == Tail(mb)
  <1>1. /\ Len(mb) \in Nat \ {0} /\ Len(t) = Len(mb) - 1
        /\ Head(mb) = mb[1]
        /\ \A k \in 1 .. Len(t) : t[k] = mb[k + 1]
    BY HeadTailProperties, EmptySeq
  <1> HIDE DEF t
  <1>2. DisablesFirst(t)
    <2>1. SUFFICES ASSUME NEW j \in 1 .. Len(t), t[j] = "DISABLE", NEW i \in 1 .. j
                   PROVE  t[i] = "DISABLE"
      BY DEF DisablesFirst
    <2>2. /\ j + 1 \in 1 .. Len(mb) /\ i + 1 \in 1 .. j + 1
          /\ t[j] = mb[j + 1] /\ t[i] = mb[i + 1]
      BY <1>1, <2>1
    <2> QED
      BY <2>1, <2>2 DEF DisablesFirst
  <1>3. ASSUME NEW k \in 1 .. Len(mb), mb[k] = "DISABLE" PROVE mb[1] = "DISABLE"
    BY <1>3 DEF DisablesFirst
  <1> QED
    BY <1>1, <1>2, <1>3 DEF Holds, t

MailInv == DisablesFirst(fuzzyreg_mb)

LEMMA MailStep ==
  ASSUME TypeOK, RunInv, MailInv, [Next]_vars
  PROVE  MailInv'
  <1>a. fuzzyreg_mb \in Seq(RegulatorMsg)
        /\ {"START", "STOP"} \subseteq RegulatorMsg
    BY DEF TypeOK, MailboxTypeOK, RegulatorMsg
  <1>b. \/ UNCHANGED fuzzyreg_mb
        \/ \E msg \in {"START", "STOP"} : fuzzyreg_mb' = Append(fuzzyreg_mb, msg)
        \/ fuzzyreg_mb' = <<"DISABLE">> \o fuzzyreg_mb
        \/ fuzzyreg_mb # << >> /\ fuzzyreg_mb' = Tail(fuzzyreg_mb)
    <2>1. CASE RegFetch
      BY <2>1 DEF RegFetch
    <2>2. CASE RegulatorStep /\ ~RegFetch
      BY <2>2, HeadingKept
    <2>3. CASE ~RegulatorStep
      BY <2>3, SterilizerMail, OtherMail
    <2> QED
      BY <2>1, <2>2, <2>3
  <1>1. CASE UNCHANGED fuzzyreg_mb
    BY <1>1 DEF MailInv
  <1>2. ASSUME NEW msg \in {"START", "STOP"},
               fuzzyreg_mb' = Append(fuzzyreg_mb, msg)
        PROVE  MailInv'
    <2>1. DisablesFirst(Append(fuzzyreg_mb, msg))
      BY <1>a, FirstAfterAppend DEF MailInv
    <2> QED
      BY <1>2, <2>1 DEF MailInv
  <1>3. CASE fuzzyreg_mb' = <<"DISABLE">> \o fuzzyreg_mb
    <2>1. DisablesFirst(<<"DISABLE">> \o fuzzyreg_mb)
      BY <1>a, FirstAfterAhead DEF MailInv
    <2> QED
      BY <1>3, <2>1 DEF MailInv
  <1>4. CASE fuzzyreg_mb # << >> /\ fuzzyreg_mb' = Tail(fuzzyreg_mb)
    <2>1. DisablesFirst(Tail(fuzzyreg_mb))
      BY <1>a, <1>4, FirstAfterTail DEF MailInv
    <2> QED
      BY <1>4, <2>1 DEF MailInv
  <1> QED
    BY <1>b, <1>1, <1>2, <1>3, <1>4

-----------------------------------------------------------------------------
(***************************************************************************)
(* Every error that is forwarded has disabled the heaters before.          *)
(***************************************************************************)
ErrorInv ==
  /\ err_pc \in {"disable", "stoperr"} => erroritems > 0
  /\ ListedErrorDisables
  /\ FailSafe

LEMMA ListedErrorStep ==
  ASSUME TypeOK, RoutineInv, RunInv, ErrorInv, [Next]_vars
  PROVE  /\ (err_pc \in {"disable", "stoperr"} => erroritems > 0)'
         /\ ListedErrorDisables'
  <1> USE DEF ErrorInv, ListedErrorDisables
  <1>a. DisableUnderWay => DisableUnderWay'
    BY DisableStays
  <1>b. erroritems \in Nat
    BY ErrorHandlerConstants DEF TypeOK, ErrorHandlerTypeOK
  <1>1. CASE UNCHANGED errorhandler
    BY <1>1, <1>a DEF errorhandler
  <1>2. CASE ErrorHandlerStep
    <2>1. CASE ErrBootFuse \/ ErrBootEnd
      BY <2>1, <1>a, <1>b DEF ErrBootFuse, ErrBootEnd
    <2>2. CASE ErrList
      BY <2>2, <1>a, <1>b DEF ErrList, ErrTakeMail
    <2>3. CASE ErrUnderflow
      BY <2>3, <1>1 DEF ErrUnderflow
    <2>4. CASE ErrDisableRegulator
      <3>1. Holds(fuzzyreg_mb', "DISABLE")
        BY <2>4, HoldsAhead
           DEF ErrDisableRegulator, SendDisableMailToRegulator, TypeOK,
               MailboxTypeOK, RegulatorMsg
      <3>2. DisableUnderWay'
        BY <3>1 DEF DisableUnderWay, Holds
      <3> QED
        BY <2>4, <3>2, <1>b DEF ErrDisableRegulator
    <2>5. CASE ErrStopSterilizer
      BY <2>5, <1>a, <1>b DEF ErrStopSterilizer
    <2> QED
      BY <1>2, <2>1, <2>2, <2>3, <2>4, <2>5
         DEF ErrorHandlerStep, Threaderrorhandler
  <1>3. ErrorHandlerStep \/ UNCHANGED errorhandler
    BY DEF Next, RegulatorStep, SterilizerStep, PwmInterrupt, RaiseError,
           SensorInitEnd, PressButton, CardWrites, CardChanges, vars
  <1> QED
    BY <1>1, <1>2, <1>3

LEMMA FailSafeStep ==
  ASSUME TypeOK, RoutineInv, RunInv, ErrorInv, [Next]_vars
  PROVE  FailSafe'
  <1> USE DEF ErrorInv
  <1>1. DisableUnderWay => DisableUnderWay'
    BY DisableStays
  <1>2. ASSUME ErrStopSterilizer PROVE DisableUnderWay
    BY <1>2 DEF ErrStopSterilizer, ListedErrorDisables
  <1>3. Holds(steril_mb, "STOPERROR")' => DisableUnderWay
    BY <1>2, ErrorMail DEF FailSafe
  <1>4. steril_state' = "ERROR" => DisableUnderWay
    BY SterilizerMail, OutsideSterilizer DEF FailSafe
  <1> QED
    BY <1>1, <1>3, <1>4 DEF FailSafe

-----------------------------------------------------------------------------
(***************************************************************************)
(* The heaters follow the sterilizer.                                      *)
(***************************************************************************)

\* What the regulator does by itself, it was heading for.
LEMMA ReplayKept ==
  ASSUME TypeOK, RoutineInv, RunInv, RegulatorStep, ~DisableUnderWay,
         ~DisableUnderWay'
  PROVE  ReplayedState' = ReplayedState
  <1> USE DEF ReplayedState
  <1>1. CASE ~RegFetch
    <2>1. UNCHANGED fuzzyreg_mb
      BY <1>1, HeadingKept
    <2>2. CASE fuzzyreg_mb # << >>
      BY <2>1, <2>2
    <2>3. CASE fuzzyreg_mb = << >>
      BY <1>1, <2>1, <2>3, HeadingKept
    <2> QED
      BY <2>2, <2>3
  <1>2. CASE RegFetch
    <2>1. /\ Head(fuzzyreg_mb) \in {"START", "STOP", "DISABLE"}
          /\ fuzzyreg_mb \in Seq(RegulatorMsg)
          /\ fuzzyreg_mb # << >>
      BY <1>2, FetchedMail DEF RegulatorMsg
    <2>2. /\ Head(fuzzyreg_mb) # "DISABLE"
          /\ Tail(fuzzyreg_mb) # << >> =>
               Tail(fuzzyreg_mb)[Len(Tail(fuzzyreg_mb))]
                 = fuzzyreg_mb[Len(fuzzyreg_mb)]
          /\ Tail(fuzzyreg_mb) = << >> =>
               fuzzyreg_mb[Len(fuzzyreg_mb)] = Head(fuzzyreg_mb)
      BY <2>1, HoldsTail DEF DisableUnderWay
    <2>3. ReplayedState = TargetOf(fuzzyreg_mb[Len(fuzzyreg_mb)])
      BY <2>1
    <2>4. CASE Tail(fuzzyreg_mb) # << >>
      BY <1>2, <2>2, <2>3, <2>4 DEF RegFetch
    <2>5. CASE Tail(fuzzyreg_mb) = << >>
      <3>1. reg_state \in {"STOP", "ACTIVE"}
        BY DEF DisableUnderWay, TypeOK, RegulatorTypeOK, RegState
      <3>2. fuzzyreg_mb' = << >> /\ UNCHANGED reg_state
        BY <1>2, <2>5 DEF RegFetch
      <3>3. CASE Accepts(Head(fuzzyreg_mb))
        BY <1>2, <2>2, <2>3, <2>5, <3>2, <3>3 DEF RegFetch, InRoutine
      <3>4. CASE ~Accepts(Head(fuzzyreg_mb))
        <4>1. ~InRoutine' /\ TargetOf(Head(fuzzyreg_mb)) = reg_state
          BY <1>2, <2>1, <2>2, <3>1, <3>4
             DEF RegFetch, InRoutine, Accepts, TargetOf
        <4> QED
          BY <2>2, <2>3, <2>5, <3>2, <4>1
      <3> QED
        BY <3>3, <3>4
    <2> QED
      BY <2>4, <2>5
  <1> QED
    BY <1>1, <1>2

LEMMA HeatFollowsStep ==
  ASSUME TypeOK, RoutineInv, RunInv, ErrorInv, HeatFollowsSterilizer,
         [Next]_vars
  PROVE  HeatFollowsSterilizer'
  <1> SUFFICES ASSUME ~DisableUnderWay'
               PROVE  ReplayedState' = "ACTIVE" <=> steril_state' = "ACTIVE"
    BY DEF HeatFollowsSterilizer, ReplayedState
  <1>1. ~DisableUnderWay
    BY DisableStays
  <1>2. ReplayedState # "DISABLE"
    <2>1. \A k \in 1 .. Len(fuzzyreg_mb) : fuzzyreg_mb[k] # "DISABLE"
      BY <1>1 DEF DisableUnderWay, Holds
    <2>2. ASSUME fuzzyreg_mb # << >>
          PROVE  fuzzyreg_mb[Len(fuzzyreg_mb)] \in {"START", "STOP"}
      <3>1. Len(fuzzyreg_mb) \in 1 .. Len(fuzzyreg_mb)
            /\ fuzzyreg_mb[Len(fuzzyreg_mb)] \in RegulatorMsg
        BY <2>2, EmptySeq, ElementOfSeq DEF TypeOK, MailboxTypeOK
      <3> QED
        BY <2>1, <3>1 DEF RegulatorMsg
    <2> QED
      BY <1>1, <2>2 DEF ReplayedState, DisableUnderWay, TargetOf
  <1>3. ReplayedState = "ACTIVE" <=> steril_state = "ACTIVE"
    BY <1>2 DEF HeatFollowsSterilizer
  <1>4. CASE RegulatorStep
    <2>1. UNCHANGED steril_state
      BY <1>4 DEF RegulatorStep, sterilizer
    <2> QED
      BY <1>1, <1>3, <1>4, <2>1, ReplayKept
  <1>5. ASSUME ~RegulatorStep, UNCHANGED fuzzyreg_mb
        PROVE  ReplayedState' = ReplayedState
    BY <1>1, <1>5, OutsideRegulator DEF ReplayedState, InRoutine
  <1>6. ASSUME ~RegulatorStep, NEW msg \in {"START", "STOP"},
               fuzzyreg_mb' = Append(fuzzyreg_mb, msg)
        PROVE  ReplayedState' = TargetOf(msg)
    <2>1. fuzzyreg_mb \in Seq(RegulatorMsg) /\ msg \in RegulatorMsg
      BY DEF TypeOK, MailboxTypeOK, RegulatorMsg
    <2>2. fuzzyreg_mb' # << >> /\ fuzzyreg_mb'[Len(fuzzyreg_mb')] = msg
      BY <1>6, <2>1, HoldsAppend
    <2> QED
      BY <2>2 DEF ReplayedState
  <1>7. CASE SterilizerStep /\ ~RegulatorStep
    <2>1. ~Holds(steril_mb, "STOPERROR")
      BY <1>1 DEF ErrorInv, FailSafe
    <2> QED
      BY <1>3, <1>5, <1>6, <1>7, <2>1, SterilizerMail DEF TargetOf
  <1>8. CASE ~SterilizerStep /\ ~RegulatorStep
    <2>1. UNCHANGED steril_state
      BY <1>8, OutsideSterilizer
    <2>2. fuzzyreg_mb' # <<"DISABLE">> \o fuzzyreg_mb
      BY HoldsAhead
         DEF DisableUnderWay, Holds, TypeOK, MailboxTypeOK, RegulatorMsg
    <2> QED
      BY <1>3, <1>5, <1>8, <2>1, <2>2, OtherMail
  <1> QED
    BY <1>4, <1>7, <1>8

-----------------------------------------------------------------------------
(***************************************************************************)
(* The invariant, and what follows from it.                                *)
(***************************************************************************)
HeatInv ==
  /\ Typed
  /\ RoutineInv
  /\ QuietInv
  /\ RunInv
  /\ MailInv
  /\ ErrorInv
  /\ HeatFollowsSterilizer

LEMMA InitHeat == Init => HeatInv
  <1> SUFFICES ASSUME Init PROVE HeatInv
    OBVIOUS
  <1>1. Typed
    BY InitTypes
  <1>2. RoutineInv /\ QuietInv
    BY DEF Init, RegulatorInit, RoutineInv, QuietInv, QuietUnlessActive,
           ClearedChannels, InRoutine
  <1>3. RunInv
    BY DEF Init, SterilizerInit, RunInv, AllSterile, SuccessIsSterile
  <1>4. ~Holds(steril_mb, "STOPERROR") /\ MailInv
    BY DEF Init, MailboxInit, Holds, MailInv, DisablesFirst
  <1>5. ErrorInv
    BY <1>4 DEF Init, ErrorHandlerInit, SterilizerInit, ErrorInv,
                ListedErrorDisables, FailSafe
  <1>6. ReplayedState \in {"STOP", "DISABLE"}
    BY DEF Init, MailboxInit, RegulatorInit, ReplayedState, InRoutine
  <1>7. HeatFollowsSterilizer
    BY <1>6 DEF Init, SterilizerInit, HeatFollowsSterilizer
  <1> QED
    BY <1>1, <1>2, <1>3, <1>4, <1>5, <1>7 DEF HeatInv

LEMMA StepHeat == HeatInv /\ [Next]_vars => HeatInv'
  <1> SUFFICES ASSUME HeatInv, [Next]_vars PROVE HeatInv'
    OBVIOUS
  <1>1. /\ Typed /\ TypeOK /\ RoutineInv /\ QuietInv /\ RunInv /\ MailInv
        /\ ErrorInv /\ HeatFollowsSterilizer
    BY DEF HeatInv, Typed
  <1>2. Typed'
    BY <1>1, StepTypes
  <1>3. RoutineInv'
    BY <1>1, RoutineStep
  <1>4. QuietInv'
    BY <1>1, QuietStep
  <1>5. RunInv'
    BY <1>1, RunStep
  <1>6. ErrorInv'
    BY <1>1, ListedErrorStep, FailSafeStep DEF ErrorInv
  <1>7. HeatFollowsSterilizer'
    BY <1>1, HeatFollowsStep
  <1>8. MailInv'
    BY <1>1, MailStep
  <1> QED
    BY <1>2, <1>3, <1>4, <1>5, <1>6, <1>7, <1>8 DEF HeatInv

LEMMA HeatInvariant == Spec => []HeatInv
  BY InitHeat, StepHeat, PTL DEF Spec

\* The sterilizer is not told of an error before the heaters are being
\* disabled: the order of the two mails of the errorhandler
\* (errorhandler.c 211-212) is enough, whatever the mailboxes hold.
THEOREM HeatersFailSafe == Spec => []FailSafe
  BY HeatInvariant, PTL DEF HeatInv, ErrorInv

\* Every error that got a place on the error list disables the heaters
\* (errorhandler.c 189-219).
THEOREM ErrorsDisable == Spec => []ListedErrorDisables
  BY HeatInvariant, PTL DEF HeatInv, ErrorInv

\* A regulator that is not active has cleared the duty cycle of every
\* channel and leaves no interrupt enabled that would apply one
\* (regulator.c 330-383).
THEOREM QuietRegulator == Spec => []QuietUnlessActive
  BY HeatInvariant, PTL DEF HeatInv, QuietInv

\* Unless an error disables it, the regulator ends up active exactly when
\* the sterilizer records (sterilizer.c 244-279, regulator.c 435-445).
THEOREM HeatersFollow == Spec => []HeatFollowsSterilizer
  BY HeatInvariant, PTL DEF HeatInv

\* A success is a full list of sterile samples (sterilizer.c 320-346).
THEOREM SuccessMeansSterile == Spec => []SuccessIsSterile
  BY HeatInvariant, PTL DEF HeatInv, RunInv

\* Neither the disabled regulator nor the sterilizer in error ever leaves
\* that state (regulator.c 435-445, sterilizer.c 299-316).
THEOREM NoWayBack == Spec => ErrorsAreFinal
  <1> DEFINE Final == /\ reg_state = "DISABLE" => reg_state' = "DISABLE"
                      /\ steril_state = "ERROR" => steril_state' = "ERROR"
  <1>1. HeatInv /\ [Next]_vars => [Final]_vars
    <2> SUFFICES ASSUME HeatInv, [Next]_vars PROVE Final
      OBVIOUS
    <2>1. TypeOK /\ RoutineInv /\ RunInv
      BY DEF HeatInv, Typed
    <2>2. ASSUME reg_state = "DISABLE" PROVE reg_state' = "DISABLE"
      <3>1. CASE ~RegulatorStep
        BY <2>2, <3>1, OutsideRegulator
      <3>2. CASE RegulatorStep /\ ~RegFetch
        BY <2>1, <2>2, <3>2, HeadingKept
           DEF RoutineInv, TypeOK, RegulatorTypeOK, RegState
      <3>3. CASE RegFetch
        BY <2>2, <3>3 DEF RegFetch
      <3> QED
        BY <3>1, <3>2, <3>3
    <2>3. ASSUME steril_state = "ERROR" PROVE steril_state' = "ERROR"
      BY <2>1, <2>3, SterilizerMail, OutsideSterilizer
    <2> QED
      BY <2>2, <2>3
  <1> HIDE DEF Final
  <1>2. Spec => [][Final]_vars
    BY <1>1, HeatInvariant, PTL DEF Spec
  <1> QED
    BY <1>2 DEF ErrorsAreFinal, Final

\* Once a disable is under way no other routine begins: chMBPostAhead puts
\* the disable mail before every start and stop that waits (errorhandler.c
\* 211, regulator.c 429-445).
THEOREM DisablesComeFirst == Spec => DisableComesFirst
  <1> DEFINE First == DisableUnderWay /\ ~InRoutine /\ InRoutine'
                        => reg_target' = "DISABLE"
  <1>1. HeatInv /\ [Next]_vars => [First]_vars
    <2> SUFFICES ASSUME HeatInv, [Next]_vars,
                        DisableUnderWay, ~InRoutine, InRoutine'
                 PROVE  reg_target' = "DISABLE"
      OBVIOUS
    <2>1. TypeOK /\ RoutineInv /\ RunInv /\ MailInv
      BY DEF HeatInv, Typed
    <2>2. RegFetch
      BY <2>1, OutsideRegulator, HeadingKept DEF InRoutine
    <2>3. /\ Head(fuzzyreg_mb) \in {"START", "STOP", "DISABLE"}
          /\ Holds(fuzzyreg_mb, "DISABLE") => Head(fuzzyreg_mb) = "DISABLE"
      BY <2>1, <2>2, FetchedMail, FirstAfterTail DEF MailInv, RegulatorMsg
    <2>4. Accepts(Head(fuzzyreg_mb)) /\ reg_target' = TargetOf(Head(fuzzyreg_mb))
      BY <2>2 DEF RegFetch, InRoutine
    <2>5. CASE Holds(fuzzyreg_mb, "DISABLE")
      BY <2>3, <2>4, <2>5 DEF TargetOf
    <2>6. CASE reg_state = "DISABLE"
      BY <2>3, <2>4, <2>6 DEF Accepts, TargetOf
    <2> QED
      BY <2>5, <2>6 DEF DisableUnderWay
  <1> HIDE DEF First
  <1>2. Spec => [][First]_vars
    BY <1>1, HeatInvariant, PTL DEF Spec
  <1> QED
    BY <1>2 DEF DisableComesFirst, First

\* A heater that is off is switched on by an active regulator only, and in
\* the routine that stops or disables it only as long as the routine has not
\* gone through the channel.  Heat that a stopped regulator gives comes from
\* the one window that is left: an interrupt between the two calls of the
\* routine for this channel (regulator.c 330-383).
NoHeatReturns ==
  [][\A c \in Channel :
       ccr[c] = 0 /\ ccr'[c] # 0 =>
         /\ reg_state = "ACTIVE"
         /\ InRoutine => reg_target # "ACTIVE" /\ reg_ch <= c]_vars

THEOREM HeatDoesNotReturn == Spec => NoHeatReturns
  <1>1. HeatInv /\ [Next]_vars =>
          [\A c \in Channel :
             ccr[c] = 0 /\ ccr'[c] # 0 =>
               /\ reg_state = "ACTIVE"
               /\ InRoutine => reg_target # "ACTIVE" /\ reg_ch <= c]_vars
    <2> SUFFICES ASSUME HeatInv, [Next]_vars,
                        NEW c \in Channel, ccr[c] = 0, ccr'[c] # 0
                 PROVE  /\ reg_state = "ACTIVE"
                        /\ InRoutine => reg_target # "ACTIVE" /\ reg_ch <= c
      OBVIOUS
    <2>1. TypeOK /\ RoutineInv /\ QuietInv
      BY DEF HeatInv, Typed
    <2>2. dutycycle[c] # 0
      BY <2>1, RegulatorCompares
    <2>3. reg_state = "ACTIVE"
      BY <2>1, <2>2 DEF QuietInv, QuietUnlessActive
    <2>4. ASSUME InRoutine PROVE reg_target # "ACTIVE" /\ reg_ch <= c
      <3>1. reg_target # "ACTIVE"
        BY <2>1, <2>3, <2>4 DEF RoutineInv
      <3>2. ~(c < reg_ch)
        BY <2>1, <2>2, <2>4, <3>1 DEF QuietInv, ClearedChannels
      <3>3. c \in Int /\ reg_ch \in Int
        BY <2>1 DEF TypeOK, RegulatorTypeOK, Channel
      <3> QED
        BY <3>1, <3>2, <3>3
    <2> QED
      BY <2>3, <2>4
  <1> QED
    BY <1>1, HeatInvariant, PTL DEF Spec, NoHeatReturns

\* Records are appended, and a list is cleared only as a whole and while no
\* result is being saved or printed (sterilizer.c 116-160, 244-344).
THEOREM RecordsKept == Spec => RecordsAreKept
  <1> DEFINE Kept == \/ list' = list
                     \/ \E b \in BOOLEAN : list' = Append(list, b)
                     \/ list' = << >> /\ steril_state \in {"STOP", "ACTIVE"}
  <1>1. Typed /\ [Next]_vars => [Kept]_list
    <2> SUFFICES ASSUME Typed, [Next]_vars PROVE Kept
      OBVIOUS
    <2>1. is_sterile \in BOOLEAN
      BY DEF Typed, TypeOK, RegulatorTypeOK
    <2>2. CASE ~SterilizerStep
      BY <2>2 DEF Next, RegulatorStep, ErrorHandlerStep, PwmInterrupt,
                  RaiseError, SensorInitEnd, PressButton, CardWrites,
                  CardChanges, vars, sterilizer
    <2>3. CASE SterBeginStart \/ SterSwing(is_sterile)
      BY <2>3 DEF SterBeginStart, SterSwing, Activity
    <2>4. CASE SterRecord(is_sterile) \/ SterFail(is_sterile)
      BY <2>1, <2>4 DEF SterRecord, SterFail, PutResult
    <2>5. CASE \/ SterIgnore \/ SterNoMail \/ SterChangeState \/ SterStart
               \/ SterBeginStop \/ SterStop \/ SterIdle
               \/ SterCheckSize(is_sterile)
      BY <2>5 DEF SterIgnore, SterNoMail, SterChangeState, SterStart,
                  SterBeginStop, SterStop, SterIdle, SterCheckSize
    <2>6. CASE \/ SterSkipSave \/ SterOpenResult \/ SterSaveString
               \/ SterBeginPrint \/ SterEndPrint
      BY <2>6 DEF SterSkipSave, SterOpenResult, SterSaveString,
                  SterBeginPrint, SterEndPrint
    <2> QED
      BY <2>2, <2>3, <2>4, <2>5, <2>6 DEF SterilizerStep, Threadsterilizer
  <1> HIDE DEF Kept
  <1>2. Spec => [][Kept]_list
    BY <1>1, TypedInvariant, PTL DEF Spec
  <1> QED
    BY <1>2 DEF RecordsAreKept, Kept

-----------------------------------------------------------------------------
(***************************************************************************)
(* The control core implements the fail-safe heater.                       *)
(***************************************************************************)

\* What the invariants say of the abstract heater: it heats exactly a run
\* that is not disabled, and it is told only of what is disabled.
HeatIsRun ==
  /\ ReplayedState = "ACTIVE" <=> ~DisableUnderWay /\ steril_state = "ACTIVE"
  /\ steril_state = "ERROR" => DisableUnderWay
  /\ Holds(steril_mb, "STOPERROR") => DisableUnderWay

LEMMA HeatIsRunInv == HeatInv => HeatIsRun
  <1> SUFFICES ASSUME HeatInv PROVE HeatIsRun
    OBVIOUS
  <1>1. ASSUME ~DisableUnderWay PROVE ReplayedState # "DISABLE"
    <2>1. \A k \in 1 .. Len(fuzzyreg_mb) : fuzzyreg_mb[k] # "DISABLE"
      BY <1>1 DEF DisableUnderWay, Holds
    <2>2. ASSUME fuzzyreg_mb # << >>
          PROVE  fuzzyreg_mb[Len(fuzzyreg_mb)] \in {"START", "STOP"}
      <3>1. /\ Len(fuzzyreg_mb) \in 1 .. Len(fuzzyreg_mb)
            /\ fuzzyreg_mb[Len(fuzzyreg_mb)] \in RegulatorMsg
        BY <2>2, EmptySeq, ElementOfSeq
           DEF HeatInv, Typed, TypeOK, MailboxTypeOK
      <3> QED
        BY <2>1, <3>1 DEF RegulatorMsg
    <2> QED
      BY <1>1, <2>2 DEF ReplayedState, DisableUnderWay, TargetOf
  <1>2. DisableUnderWay => ReplayedState = "DISABLE"
    BY DEF ReplayedState
  <1>3. ReplayedState # "DISABLE" =>
          (ReplayedState = "ACTIVE" <=> steril_state = "ACTIVE")
    BY DEF HeatInv, HeatFollowsSterilizer
  <1>4. FailSafe
    BY DEF HeatInv, ErrorInv
  <1> QED
    BY <1>1, <1>2, <1>3, <1>4 DEF FailSafe, HeatIsRun

\* What a step does to the sterilizer, seen from its run and its error.
LEMMA RunChange ==
  ASSUME HeatInv, [Next]_vars
  PROVE  \/ steril_state' = steril_state
         \/ /\ SterilizerStep
            /\ steril_state = "STOP" /\ steril_state' = "ACTIVE"
         \/ /\ SterilizerStep
            /\ steril_state = "ACTIVE" /\ steril_state' = "SAVE"
         \/ /\ steril_state \notin {"ACTIVE", "ERROR"}
            /\ steril_state' \in {"STOP", "PRINT"}
         \/ /\ SterilizerStep /\ DisableUnderWay
            /\ steril_state' = "ERROR"
  <1>1. TypeOK /\ RunInv
    BY DEF HeatInv, Typed
  <1> QED
    BY <1>1, HeatIsRunInv, SterilizerMail, OutsideSterilizer DEF HeatIsRun

\* The sterilizer posts starts and stops, never a disable.
LEMMA SterilizerDisablesNot ==
  ASSUME HeatInv, [Next]_vars, SterilizerStep, DisableUnderWay'
  PROVE  DisableUnderWay
  <1>1. TypeOK /\ RunInv /\ fuzzyreg_mb \in Seq(RegulatorMsg)
    BY DEF HeatInv, Typed, TypeOK, MailboxTypeOK
  <1>2. UNCHANGED <<reg_state, reg_pc, reg_target>>
    BY DEF SterilizerStep, regulator
  <1>3. ASSUME Holds(fuzzyreg_mb, "DISABLE")' PROVE DisableUnderWay
    <2>1. Holds(fuzzyreg_mb', "DISABLE")
      BY <1>3 DEF Holds
    <2>2. {"START", "STOP", "DISABLE"} \subseteq RegulatorMsg
      BY DEF RegulatorMsg
    <2>3. \A msg \in {"START", "STOP"} :
            Holds(Append(fuzzyreg_mb, msg), "DISABLE") =>
              Holds(fuzzyreg_mb, "DISABLE")
      BY <1>1, <2>2, HoldsAppend
    <2>4. \/ fuzzyreg_mb' = fuzzyreg_mb
          \/ \E msg \in {"START", "STOP"} :
               fuzzyreg_mb' = Append(fuzzyreg_mb, msg)
      BY <1>1, SterilizerMail
    <2> QED
      BY <2>1, <2>3, <2>4 DEF DisableUnderWay
  <1> QED
    BY <1>2, <1>3 DEF DisableUnderWay, InRoutine

\* Whatever the threads, interrupts, buttons, sensors and the card do, is a
\* step of the fail-safe heater or none of its business (sterilizer.c
\* 244-279, regulator.c 330-383, 435-445, errorhandler.c 211-212).
THEOREM CoreIsFailSafeHeater == Spec => IsFailSafeHeater
  <1>1. Init => H!Init
    <2> SUFFICES ASSUME Init PROVE H!Init
      OBVIOUS
    <2>1. /\ reg_state = "STOP" /\ reg_pc = "fetch" /\ fuzzyreg_mb = << >>
          /\ steril_state = "INIT"
      BY DEF Init, RegulatorInit, MailboxInit, SterilizerInit
    <2>2. ~DisableUnderWay
      BY <2>1 DEF DisableUnderWay, InRoutine, Holds
    <2>3. ReplayedState = "STOP"
      BY <2>1, <2>2 DEF ReplayedState, InRoutine
    <2> QED
      BY <2>1, <2>2, <2>3 DEF H!Init
  <1>2. HeatInv' => HeatIsRun'
    BY HeatIsRunInv, PTL
  <1>3. HeatInv /\ HeatInv' /\ [Next]_vars => [H!Next]_(H!heater)
    <2> SUFFICES ASSUME HeatInv, HeatInv', [Next]_vars
                 PROVE  [H!Next]_(H!heater)
      OBVIOUS
    <2>1. TypeOK /\ RoutineInv /\ RunInv
      BY DEF HeatInv, Typed
    <2>2. DisableUnderWay => DisableUnderWay'
      BY <2>1, DisableStays
    <2>3. HeatIsRun /\ HeatIsRun'
      BY <1>2, HeatIsRunInv
    <2>4. SterilizerStep => DisableUnderWay' = DisableUnderWay
      <3>1. DisableUnderWay \in BOOLEAN /\ DisableUnderWay' \in BOOLEAN
        BY DEF DisableUnderWay
      <3>2. SterilizerStep /\ DisableUnderWay' => DisableUnderWay
        BY SterilizerDisablesNot
      <3> QED
        BY <2>2, <3>1, <3>2
    <2>5. CASE SterilizerStep /\ steril_state = "STOP"
                 /\ steril_state' = "ACTIVE"
      <3>1. H!Start
        BY <2>3, <2>4, <2>5 DEF HeatIsRun, H!Start
      <3> QED
        BY <3>1 DEF H!Next
    <2>6. CASE SterilizerStep /\ steril_state = "ACTIVE"
                 /\ steril_state' = "SAVE"
      <3>1. H!Stop
        BY <2>3, <2>4, <2>6 DEF HeatIsRun, H!Stop
      <3> QED
        BY <3>1 DEF H!Next
    <2>7. CASE SterilizerStep /\ DisableUnderWay /\ steril_state # "ERROR"
                 /\ steril_state' = "ERROR"
      <3>1. H!Tell
        BY <2>3, <2>4, <2>7 DEF HeatIsRun, H!Tell
      <3> QED
        BY <3>1 DEF H!Next
    <2>8. CASE /\ (steril_state' = "ACTIVE") = (steril_state = "ACTIVE")
               /\ (steril_state' = "ERROR") = (steril_state = "ERROR")
      <3>1. CASE ~DisableUnderWay /\ DisableUnderWay'
        <4>1. H!Disable
          BY <2>3, <2>8, <3>1 DEF HeatIsRun, H!Disable
        <4> QED
          BY <4>1 DEF H!Next
      <3>2. CASE DisableUnderWay' <=> DisableUnderWay
        <4>1. UNCHANGED H!heater
          BY <2>3, <2>8, <3>2 DEF HeatIsRun, H!heater
        <4> QED
          BY <4>1
      <3> QED
        BY <2>2, <3>1, <3>2
    <2> QED
      BY <2>5, <2>6, <2>7, <2>8, RunChange
  <1> QED
    BY <1>1, <1>3, HeatInvariant, PTL DEF Spec, IsFailSafeHeater, H!Spec
=============================================================================
