-------------------------- MODULE HeatControlTypes --------------------------
(***************************************************************************)
(* Type correctness of the control core, for every number of channels, all *)
(* mailbox, buffer and list sizes, and any number of presses and faults.   *)
(***************************************************************************)
EXTENDS HeatControl, TLAPS

-----------------------------------------------------------------------------
(***************************************************************************)
(* Mailboxes.                                                              *)
(***************************************************************************)

\* Posting keeps a mailbox within its size.
LEMMA PostType ==
  ASSUME NEW M, NEW mb \in Seq(M), NEW msg \in M
  PROVE  /\ Append(mb, msg) \in Seq(M)
         /\ <<msg>> \o mb \in Seq(M)
         /\ Len(Append(mb, msg)) = Len(mb) + 1
         /\ Len(<<msg>> \o mb) = Len(mb) + 1
         /\ Len(mb) \in Nat
  OBVIOUS

\* Fetching takes a message and shortens the mailbox.
LEMMA FetchType ==
  ASSUME NEW M, NEW mb \in Seq(M), mb # << >>
  PROVE  /\ Head(mb) \in M
         /\ Tail(mb) \in Seq(M)
         /\ Len(Tail(mb)) = Len(mb) - 1
         /\ Len(mb) \in Nat \ {0}
  OBVIOUS

LEMMA SendErrMailType ==
  ASSUME MailboxTypeOK, SendErrMail, UNCHANGED <<fuzzyreg_mb, steril_mb>>
  PROVE  MailboxTypeOK'
  BY MailboxSizes DEF MailboxTypeOK, SendErrMail

LEMMA SendMailToRegulatorType ==
  ASSUME MailboxTypeOK, NEW msg \in RegulatorMsg, SendMailToRegulator(msg),
         UNCHANGED <<error_mb, steril_mb>>
  PROVE  MailboxTypeOK'
  <1>1. fuzzyreg_mb' \in Seq(RegulatorMsg)
        /\ Len(fuzzyreg_mb') <= FUZZYREG_MAILBOX_SIZE
    BY PostType, MailboxSizes DEF MailboxTypeOK, SendMailToRegulator
  <1> QED
    BY <1>1 DEF MailboxTypeOK

LEMMA SendDisableMailType ==
  ASSUME MailboxTypeOK, SendDisableMailToRegulator,
         UNCHANGED <<error_mb, steril_mb>>
  PROVE  MailboxTypeOK'
  <1>1. "DISABLE" \in RegulatorMsg
    BY DEF RegulatorMsg
  <1>2. fuzzyreg_mb' \in Seq(RegulatorMsg)
        /\ Len(fuzzyreg_mb') <= FUZZYREG_MAILBOX_SIZE
    BY <1>1, PostType, MailboxSizes
       DEF MailboxTypeOK, SendDisableMailToRegulator
  <1> QED
    BY <1>2 DEF MailboxTypeOK

LEMMA SendMailToSterilizerType ==
  ASSUME MailboxTypeOK, NEW msg \in SterilizerMsg, SendMailToSterilizer(msg),
         UNCHANGED <<error_mb, fuzzyreg_mb>>
  PROVE  MailboxTypeOK'
  <1>1. steril_mb' \in Seq(SterilizerMsg)
        /\ Len(steril_mb') <= STERILIZER_MAILBOX_SIZE
    BY PostType, MailboxSizes DEF MailboxTypeOK, SendMailToSterilizer
  <1> QED
    BY <1>1 DEF MailboxTypeOK

LEMMA FetchRegulatorMailType ==
  ASSUME MailboxTypeOK, fuzzyreg_mb # << >>, fuzzyreg_mb' = Tail(fuzzyreg_mb),
         UNCHANGED <<error_mb, steril_mb>>
  PROVE  MailboxTypeOK' /\ Head(fuzzyreg_mb) \in RegulatorMsg
  <1>1. fuzzyreg_mb' \in Seq(RegulatorMsg)
        /\ Len(fuzzyreg_mb') <= FUZZYREG_MAILBOX_SIZE
        /\ Head(fuzzyreg_mb) \in RegulatorMsg
    BY FetchType, MailboxSizes DEF MailboxTypeOK
  <1> QED
    BY <1>1 DEF MailboxTypeOK

LEMMA FetchSterilizerMailType ==
  ASSUME MailboxTypeOK, SterTakeMail, UNCHANGED <<error_mb, fuzzyreg_mb>>
  PROVE  MailboxTypeOK' /\ Head(steril_mb) \in SterilizerMsg
  <1>1. steril_mb' \in Seq(SterilizerMsg)
        /\ Len(steril_mb') <= STERILIZER_MAILBOX_SIZE
        /\ Head(steril_mb) \in SterilizerMsg
    BY FetchType, MailboxSizes DEF MailboxTypeOK, SterTakeMail
  <1> QED
    BY <1>1 DEF MailboxTypeOK

-----------------------------------------------------------------------------
(***************************************************************************)
(* The regulator.                                                          *)
(***************************************************************************)
LEMMA RegulatorTypes ==
  ASSUME MailboxTypeOK, FileBufferTypeOK, RegulatorTypeOK, Threadregulator
  PROVE  MailboxTypeOK' /\ FileBufferTypeOK' /\ RegulatorTypeOK'
  <1> USE DEF mailboxes, fileBuffers
  <1>1. CASE RegFetch
    <2>1. MailboxTypeOK' /\ Head(fuzzyreg_mb) \in RegulatorMsg
      BY <1>1, FetchRegulatorMailType DEF RegFetch
    <2>2. TargetOf(Head(fuzzyreg_mb)) \in RegState
      BY <2>1 DEF TargetOf, RegulatorMsg, RegState
    <2>3. RegulatorTypeOK'
      BY <1>1, <2>2, RegulatorConstants
         DEF RegFetch, RegulatorTypeOK, RegPc, Channel
    <2> QED
      BY <1>1, <2>1, <2>3 DEF RegFetch, FileBufferTypeOK
  <1>2. CASE RegNoMail
    BY <1>2 DEF RegNoMail, MailboxTypeOK, FileBufferTypeOK, RegulatorTypeOK,
                RegPc
  <1>3. CASE RegOutput
    <2>1. ccr' \in [Channel -> DutyCycles]
      BY <1>3, RegulatorConstants DEF RegOutput, RegulatorTypeOK
    <2> QED
      BY <1>3, <2>1 DEF RegOutput, MailboxTypeOK, FileBufferTypeOK,
                        RegulatorTypeOK, RegPc
  <1>4. CASE RegNotify
    <2>1. /\ notify' \in [Channel -> BOOLEAN]
          /\ dutycycle' \in [Channel -> DutyCycles]
      BY <1>4, RegulatorConstants DEF RegNotify, RegulatorTypeOK
    <2>2. reg_ch' \in Channel
      BY <1>4, RegulatorConstants DEF RegNotify, RegulatorTypeOK, Channel
    <2> QED
      BY <1>4, <2>1, <2>2 DEF RegNotify, MailboxTypeOK, FileBufferTypeOK,
                              RegulatorTypeOK, RegPc
  <1>5. CASE RegNoSample
    BY <1>5 DEF RegNoSample, MailboxTypeOK, FileBufferTypeOK, RegulatorTypeOK,
                RegPc
  <1>6. CASE RegSample
    BY <1>6, RegulatorConstants
       DEF RegSample, MailboxTypeOK, FileBufferTypeOK, RegulatorTypeOK, RegPc,
           Channel
  <1>7. CASE RegCheckTemp
    BY <1>7 DEF RegCheckTemp, MailboxTypeOK, FileBufferTypeOK,
                RegulatorTypeOK, RegPc
  <1>8. ASSUME NextChannel PROVE reg_pc' \in RegPc /\ reg_ch' \in Channel
    BY <1>8, RegulatorConstants DEF NextChannel, RegulatorTypeOK, RegPc, Channel
  <1>9. CASE RegSetDuty
    <2>1. dutycycle' \in [Channel -> DutyCycles]
      BY <1>9 DEF RegSetDuty, RegulatorTypeOK
    <2>2. reg_pc' \in RegPc /\ reg_ch' \in Channel
      BY <1>8, <1>9 DEF RegSetDuty, RegulatorTypeOK, RegPc
    <2> QED
      BY <1>9, <2>1, <2>2 DEF RegSetDuty, MailboxTypeOK, FileBufferTypeOK,
                              RegulatorTypeOK
  <1>10. CASE RegSendErrMail
    <2>1. MailboxTypeOK'
      BY <1>10, SendErrMailType DEF RegSendErrMail
    <2>2. reg_pc' \in RegPc /\ reg_ch' \in Channel
      BY <1>8, <1>10 DEF RegSendErrMail, RegulatorTypeOK, RegPc
    <2> QED
      BY <1>10, <2>1, <2>2 DEF RegSendErrMail, FileBufferTypeOK,
                               RegulatorTypeOK
  <1>11. CASE RegOpenLog
    BY <1>11 DEF RegOpenLog, MailboxTypeOK, FileBufferTypeOK, RegulatorTypeOK,
                 RegPc
  <1>12. CASE RegSaveLog
    <2>1. log_free' \in 0 .. FILE_BUFFER_SIZE
      BY <1>12, FileBufferConstants DEF RegSaveLog, PutLogItem,
                                        FileBufferTypeOK
    <2> QED
      BY <1>12, <2>1 DEF RegSaveLog, MailboxTypeOK, FileBufferTypeOK,
                         RegulatorTypeOK, RegPc
  <1>13. CASE RegFuzzyErrors
    BY <1>13 DEF RegFuzzyErrors, MailboxTypeOK, FileBufferTypeOK,
                 RegulatorTypeOK, RegPc
  <1> QED
    BY <1>1, <1>2, <1>3, <1>4, <1>5, <1>6, <1>7, <1>9, <1>10, <1>11, <1>12,
       <1>13 DEF Threadregulator

-----------------------------------------------------------------------------
(***************************************************************************)
(* The sterilizer.  While it writes there is at least one line to post.    *)
(***************************************************************************)
WritesLines == ster_pc = "write" => lines > 0

LEMMA RecordType ==
  ASSUME SterilizerTypeOK, NEW b \in BOOLEAN, PutResult(b)
  PROVE  list' \in Seq(BOOLEAN) /\ Len(list') <= RESULT_LIST_SIZE
  <1>1. CASE Len(list) < RESULT_LIST_SIZE
    <2>1. list' = Append(list, b) /\ list \in Seq(BOOLEAN)
      BY <1>1 DEF SterilizerTypeOK, PutResult
    <2>2. list' \in Seq(BOOLEAN) /\ Len(list') = Len(list) + 1 /\ Len(list) \in Nat
      BY <2>1, PostType
    <2> QED
      BY <1>1, <2>2, SterilizerConstants
  <1>2. CASE ~(Len(list) < RESULT_LIST_SIZE)
    BY <1>2 DEF SterilizerTypeOK, PutResult
  <1> QED
    BY <1>1, <1>2

LEMMA SleepType ==
  ASSUME SterilizerTypeOK, Sleep \/ SleepAfterSave
  PROVE  ster_pc' = "fetch" /\ until' \in 0 .. SAVE_INTERVAL
  BY SterilizerConstants DEF SterilizerTypeOK, Sleep, SleepAfterSave

LEMMA SterilizerTypes ==
  ASSUME MailboxTypeOK, FileBufferTypeOK, SterilizerTypeOK, WritesLines,
         NEW sterile \in BOOLEAN, Threadsterilizer(sterile)
  PROVE  MailboxTypeOK' /\ FileBufferTypeOK' /\ SterilizerTypeOK' /\ WritesLines'
  <1> USE DEF mailboxes, fileBuffers, SterilizerState, SterilizerPc
  <1>1. ASSUME SterTakeMail, UNCHANGED <<error_mb, fuzzyreg_mb, fileBuffers>>
        PROVE  /\ MailboxTypeOK' /\ FileBufferTypeOK'
               /\ ster_pc = "fetch"
    BY <1>1, FetchSterilizerMailType DEF FileBufferTypeOK, SterTakeMail
  <1>2. ASSUME UNCHANGED <<mailboxes, fileBuffers>>
        PROVE  MailboxTypeOK' /\ FileBufferTypeOK'
    BY <1>2 DEF MailboxTypeOK, FileBufferTypeOK
  <1>3. CASE SterIgnore
    BY <1>1, <1>3 DEF SterIgnore, SterilizerTypeOK, WritesLines
  <1>4. CASE SterNoMail
    BY <1>2, <1>4 DEF SterNoMail, SterilizerTypeOK, WritesLines
  <1>5. CASE SterChangeState
    BY <1>1, <1>5 DEF SterChangeState, SterilizerTypeOK, WritesLines
  <1>6. CASE SterBeginStart
    <2>1. list' \in Seq(BOOLEAN) /\ Len(list') <= RESULT_LIST_SIZE
      BY <1>6, SterilizerConstants DEF SterBeginStart
    <2> QED
      BY <1>1, <1>6, <2>1 DEF SterBeginStart, SterilizerTypeOK, WritesLines
  <1>7. CASE SterStart
    <2>1. MailboxTypeOK' /\ FileBufferTypeOK'
      BY <1>7, SendMailToRegulatorType
         DEF SterStart, FileBufferTypeOK, RegulatorMsg
    <2> QED
      BY <1>7, <2>1, SterilizerConstants
         DEF SterStart, SterilizerTypeOK, WritesLines
  <1>8. CASE SterBeginStop
    BY <1>1, <1>8 DEF SterBeginStop, SterilizerTypeOK, WritesLines
  <1>9. CASE SterStop
    <2>1. MailboxTypeOK' /\ FileBufferTypeOK'
      BY <1>9, SendMailToRegulatorType
         DEF SterStop, FileBufferTypeOK, RegulatorMsg
    <2>2. ster_pc' \in {"state", "fetch"} /\ until' \in 0 .. SAVE_INTERVAL
      BY <1>9, SleepType DEF SterStop, SterilizerTypeOK
    <2> QED
      BY <1>9, <2>1, <2>2 DEF SterStop, SterilizerTypeOK, WritesLines
  <1>10. CASE SterIdle
    BY <1>2, <1>10, SleepType DEF SterIdle, SterilizerTypeOK, WritesLines
  <1>11. CASE SterRecord(sterile)
    BY <1>2, <1>11, SleepType, RecordType
       DEF SterRecord, SterilizerTypeOK, WritesLines
  <1>12. CASE SterSwing(sterile)
    <2>1. num_of_swing' \in 0 .. NUM_OF_TEMP_SWING + 1
      BY <1>12, SterilizerConstants DEF SterSwing, SterilizerTypeOK
    <2>2. list' \in Seq(BOOLEAN) /\ Len(list') <= RESULT_LIST_SIZE
      BY <1>12, SterilizerConstants DEF SterSwing
    <2> QED
      BY <1>2, <1>12, <2>1, <2>2, SleepType
         DEF SterSwing, SterilizerTypeOK, WritesLines
  <1>13. CASE SterFail(sterile)
    BY <1>2, <1>13, RecordType DEF SterFail, SterilizerTypeOK, WritesLines
  <1>14. CASE SterCheckSize(sterile)
    <2>1. /\ ster_pc' \in {"end", "fetch"} /\ until' \in 0 .. SAVE_INTERVAL
          /\ finalresult' \in BOOLEAN
      BY <1>14, SleepType DEF SterCheckSize, SterilizerTypeOK
    <2> QED
      BY <1>2, <1>14, <2>1 DEF SterCheckSize, SterilizerTypeOK, WritesLines
  <1>15. CASE SterSkipSave
    BY <1>2, <1>15, SleepType DEF SterSkipSave, SterilizerTypeOK, WritesLines
  <1>16. CASE SterOpenResult
    <2>1. lines' \in 0 .. RESULT_LIST_SIZE + ExtraLines /\ lines' > 0
      BY <1>16, SterilizerConstants
         DEF SterOpenResult, SterilizerTypeOK, ExtraLines
    <2> QED
      BY <1>2, <1>16, <2>1 DEF SterOpenResult, SterilizerTypeOK, WritesLines
  <1>17. CASE SterSaveString
    <2>1. FileBufferTypeOK' /\ MailboxTypeOK'
      BY <1>17, FileBufferConstants
         DEF SterSaveString, PutResultItem, FileBufferTypeOK, MailboxTypeOK
    <2>2. /\ lines' \in 0 .. RESULT_LIST_SIZE + ExtraLines
          /\ lines # 1 => lines' > 0
      BY <1>17, SterilizerConstants
         DEF SterSaveString, SterilizerTypeOK, WritesLines, ExtraLines
    <2>3. CASE lines = 1
      BY <1>17, <2>1, <2>2, <2>3, SleepType
         DEF SterSaveString, SterilizerTypeOK, WritesLines
    <2>4. CASE lines # 1
      BY <1>17, <2>1, <2>2, <2>4
         DEF SterSaveString, SterilizerTypeOK, WritesLines
    <2> QED
      BY <2>3, <2>4
  <1>18. CASE SterBeginPrint
    BY <1>2, <1>18 DEF SterBeginPrint, SterilizerTypeOK, WritesLines
  <1>19. CASE SterEndPrint
    BY <1>2, <1>19, SleepType DEF SterEndPrint, SterilizerTypeOK, WritesLines
  <1> QED
    BY <1>3, <1>4, <1>5, <1>6, <1>7, <1>8, <1>9, <1>10, <1>11, <1>12, <1>13,
       <1>14, <1>15, <1>16, <1>17, <1>18, <1>19 DEF Threadsterilizer

-----------------------------------------------------------------------------
(***************************************************************************)
(* The errorhandler and the environment.                                   *)
(***************************************************************************)
LEMMA ErrorHandlerTypes ==
  ASSUME MailboxTypeOK, ErrorHandlerTypeOK, Threaderrorhandler
  PROVE  MailboxTypeOK' /\ ErrorHandlerTypeOK'
  <1> USE DEF mailboxes, errorhandler
  <1>1. ASSUME ErrTakeMail, UNCHANGED <<fuzzyreg_mb, steril_mb>>
        PROVE  MailboxTypeOK'
    BY <1>1, MailboxSizes DEF ErrTakeMail, MailboxTypeOK
  <1>2. CASE ErrBootFuse
    <2>1. MailboxTypeOK'
      BY <1>2, SendErrMailType DEF ErrBootFuse, MailboxTypeOK
    <2> QED
      BY <1>2, <2>1, ErrorHandlerConstants DEF ErrBootFuse, ErrorHandlerTypeOK
  <1>3. CASE ErrBootEnd
    BY <1>3 DEF ErrBootEnd, MailboxTypeOK, ErrorHandlerTypeOK
  <1>4. CASE ErrList
    BY <1>1, <1>4, ErrorHandlerConstants DEF ErrList, ErrorHandlerTypeOK
  <1>5. CASE ErrUnderflow
    BY <1>1, <1>5 DEF ErrUnderflow, ErrorHandlerTypeOK
  <1>6. CASE ErrDisableRegulator
    BY <1>6, SendDisableMailType DEF ErrDisableRegulator, ErrorHandlerTypeOK
  <1>7. CASE ErrStopSterilizer
    BY <1>7, SendMailToSterilizerType
       DEF ErrStopSterilizer, ErrorHandlerTypeOK, SterilizerMsg
  <1> QED
    BY <1>2, <1>3, <1>4, <1>5, <1>6, <1>7 DEF Threaderrorhandler

\* The invariant: types, and a line to post while the sterilizer writes.
Typed == TypeOK /\ WritesLines

LEMMA InitTypes == Init => Typed
  <1> SUFFICES ASSUME Init PROVE Typed
    OBVIOUS
  <1>1. MailboxTypeOK
    BY MailboxSizes DEF Init, MailboxInit, MailboxTypeOK
  <1>2. FileBufferTypeOK
    <2>1. FILE_BUFFER_SIZE \in 0 .. FILE_BUFFER_SIZE
      BY FileBufferConstants
    <2> QED
      BY <2>1 DEF Init, FileBufferInit, FileBufferTypeOK, SdcState
  <1>3. RegulatorTypeOK
    <2>1. 0 \in Channel
      BY RegulatorConstants DEF Channel
    <2>2. /\ dutycycle \in [Channel -> DutyCycles]
          /\ ccr \in [Channel -> DutyCycles]
          /\ notify \in [Channel -> BOOLEAN]
      BY RegulatorConstants DEF Init, RegulatorInit
    <2> QED
      BY <2>1, <2>2 DEF Init, RegulatorInit, RegulatorTypeOK, RegState, RegPc
  <1>4. SterilizerTypeOK /\ WritesLines
    <2>1. /\ 0 \in 0 .. NUM_OF_TEMP_SWING + 1
          /\ 0 \in 0 .. SAVE_INTERVAL
          /\ 0 \in 0 .. RESULT_LIST_SIZE + ExtraLines
      BY SterilizerConstants DEF ExtraLines
    <2>2. list \in Seq(BOOLEAN) /\ Len(list) <= RESULT_LIST_SIZE
      BY SterilizerConstants DEF Init, SterilizerInit
    <2> QED
      BY <2>1, <2>2 DEF Init, SterilizerInit, SterilizerTypeOK,
                        SterilizerState, SterilizerPc, WritesLines
  <1>5. ErrorHandlerTypeOK
    <2>1. 0 \in 0 .. ERROR_LIST_MAX_SIZE /\ 0 \in 0 .. FUSE_NUM
      BY ErrorHandlerConstants
    <2> QED
      BY <2>1 DEF Init, ErrorHandlerInit, ErrorHandlerTypeOK
  <1>6. 0 \in 0 .. MaxPresses /\ 0 \in 0 .. MaxFaults
    BY EnvironmentBounds
  <1> QED
    BY <1>1, <1>2, <1>3, <1>4, <1>5, <1>6 DEF Init, Typed, TypeOK

LEMMA StepTypes == Typed /\ [Next]_vars => Typed'
  <1> SUFFICES ASSUME Typed, [Next]_vars PROVE Typed'
    OBVIOUS
  <1> USE DEF Typed, TypeOK
  <1>a. UNCHANGED mailboxes => MailboxTypeOK'
    BY DEF mailboxes, MailboxTypeOK
  <1>b. UNCHANGED fileBuffers => FileBufferTypeOK'
    BY DEF fileBuffers, FileBufferTypeOK
  <1>c. UNCHANGED regulator => RegulatorTypeOK'
    BY DEF regulator, RegulatorTypeOK
  <1>d. UNCHANGED sterilizer => SterilizerTypeOK' /\ WritesLines'
    BY DEF sterilizer, SterilizerTypeOK, WritesLines
  <1>e. UNCHANGED errorhandler => ErrorHandlerTypeOK'
    BY DEF errorhandler, ErrorHandlerTypeOK
  <1>f. UNCHANGED environment =>
          /\ init_end' \in BOOLEAN
          /\ presses' \in 0 .. MaxPresses
          /\ faults' \in 0 .. MaxFaults
    BY DEF environment
  <1>1. CASE RegulatorStep
    BY <1>1, <1>d, <1>e, <1>f, RegulatorTypes DEF RegulatorStep
  <1>2. CASE SterilizerStep
    <2>1. is_sterile \in BOOLEAN
      BY DEF RegulatorTypeOK
    <2> QED
      BY <1>2, <1>c, <1>e, <1>f, <2>1, SterilizerTypes DEF SterilizerStep
  <1>3. CASE ErrorHandlerStep
    BY <1>3, <1>b, <1>c, <1>d, <1>f, ErrorHandlerTypes DEF ErrorHandlerStep
  <1>4. CASE PwmInterrupt
    <2>1. PICK c \in Channel : PwmPeriod(c)
      BY <1>4 DEF PwmInterrupt
    <2>2. RegulatorTypeOK' /\ UNCHANGED mailboxes /\ UNCHANGED fileBuffers
      BY <2>1 DEF PwmPeriod, RegulatorTypeOK
    <2> QED
      BY <1>4, <1>a, <1>b, <1>d, <1>e, <1>f, <2>2 DEF PwmInterrupt
  <1>5. CASE RaiseError
    BY <1>5, <1>b, <1>c, <1>d, <1>e, SendErrMailType, EnvironmentBounds
       DEF RaiseError
  <1>6. CASE SensorInitEnd
    BY <1>6, <1>b, <1>c, <1>d, <1>e, SendMailToSterilizerType
       DEF SensorInitEnd, SterilizerMsg
  <1>7. CASE PressButton
    <2>1. PICK msg \in {"START", "STOP", "PRINT"} : SendMailToSterilizer(msg)
      BY <1>7 DEF PressButton
    <2>2. MailboxTypeOK'
      BY <1>7, <2>1, SendMailToSterilizerType DEF PressButton, SterilizerMsg
    <2> QED
      BY <1>7, <1>b, <1>c, <1>d, <1>e, <2>2, EnvironmentBounds DEF PressButton
  <1>8. CASE CardWrites
    <2>1. FileBufferTypeOK'
      BY <1>8, FileBufferConstants
         DEF CardWrites, CardWriteLog, CardWriteResult, FileBufferTypeOK
    <2> QED
      BY <1>8, <1>a, <1>c, <1>d, <1>e, <1>f, <2>1 DEF CardWrites
  <1>9. CASE CardChanges
    <2>1. FileBufferTypeOK'
      BY <1>9, FileBufferConstants
         DEF CardChanges, CardConnect, CardInsert, CardRemove,
             FileBufferTypeOK, SdcState
    <2> QED
      BY <1>9, <1>a, <1>c, <1>d, <1>e, <1>f, <2>1 DEF CardChanges
  <1>10. CASE UNCHANGED vars
    BY <1>10, <1>a, <1>b, <1>c, <1>d, <1>e, <1>f DEF vars
  <1> QED
    BY <1>1, <1>2, <1>3, <1>4, <1>5, <1>6, <1>7, <1>8, <1>9, <1>10 DEF Next

LEMMA TypedInvariant == Spec => []Typed
  BY InitTypes, StepTypes, PTL DEF Spec

\* Type correctness of the control core.  In particular no post overruns a
\* mailbox, the channel index stays within the heaters, and no record
\* overruns the result list.
THEOREM TypeCorrect == Spec => []TypeOK
  BY TypedInvariant, PTL DEF Typed
=============================================================================
