-------------------------- MODULE CardHandlerProofs --------------------------
(***************************************************************************)
(* Proofs about the cardhandler, for every polling interval, buffer size   *)
(* and number of lines, for all cards, failures and swaps.                 *)
(***************************************************************************)
EXTENDS CardHandler, TLAPS

-----------------------------------------------------------------------------
(***************************************************************************)
(* The inductive invariant.                                                *)
(***************************************************************************)
\* A writer that posts has lines left to post.
PostingInv == \A f \in File : wr_pc[f] = "post" => left[f] > 0

\* The thread looks at the files only on a usable card.
LoopInv == pc \in Filing => Usable(state)

\* The counter has counted down one for each poll that saw the card.
CountInv == cnt + seen = SDC_POLLING_INTERVAL

\* The thread believes in a card, or is about to mount one.
Believing == Mounted /\ pc # "removed"
Inserting == pc \in {"connect", "mount", "failed"}

\* Whoever believes in a card whose removal was noticed, or is about to mount
\* one, has the removal among the events to come, and so has a second card.
EventInv ==
  /\ cnt > 0 /\ (Believing \/ Inserting \/ "inserted" \in events)
       => "removed" \in events
  /\ (Believing \/ Inserting) /\ "inserted" \in events
       => "removed" \in events
  /\ Believing /\ Inserting => "removed" \in events
  /\ pc = "mount" => connected
  /\ pc \in {"failed", "removed"} => ~connected

CardInv ==
  /\ TypeOK
  /\ PostingInv
  /\ LoopInv
  /\ CountInv
  /\ BusyMeansOpen
  /\ EventInv
  /\ StateFollowsDriver

-----------------------------------------------------------------------------
(***************************************************************************)
(* The invariant holds and is kept, conjunct by conjunct.                  *)
(***************************************************************************)
LEMMA InitCard == Init => CardInv
  <1> SUFFICES ASSUME Init PROVE CardInv
    OBVIOUS
  <1> USE CardHandlerConstants DEF Init
  <1>1. TypeOK
    <2>1. \A f \in File : left[f] <= Lines(f)
      BY DEF Lines
    <2>2. cnt \in 0 .. SDC_POLLING_INTERVAL /\ seen \in 0 .. SDC_POLLING_INTERVAL
      OBVIOUS
    <2>3. swaps \in 0 .. MaxSwaps /\ pc \in Handling \cup Filing \cup {"wait"}
      OBVIOUS
    <2>4. /\ events \subseteq Event
          /\ state \in State
          /\ file \in File
      BY DEF State, File, Event
    <2>5. /\ isopen \in [File -> BOOLEAN]
          /\ close \in [File -> BOOLEAN]
          /\ lines \in [File -> 0 .. FILE_BUFFER_SIZE]
          /\ wr_pc \in [File -> {"idle", "post", "close"}]
          /\ left \in [File -> Nat]
      OBVIOUS
    <2> QED
      BY <2>1, <2>2, <2>3, <2>4, <2>5 DEF TypeOK
  <1>2. PostingInv /\ LoopInv /\ CountInv
    BY DEF PostingInv, LoopInv, CountInv, Filing
  <1>3. BusyMeansOpen /\ EventInv /\ StateFollowsDriver
    BY DEF BusyMeansOpen, EventInv, StateFollowsDriver, Mounted, Believing,
           Inserting
  <1> QED
    BY <1>1, <1>2, <1>3 DEF CardInv

LEMMA KeepTypes ==
  ASSUME TypeOK, PostingInv, Next
  PROVE  TypeOK'
  <1> USE CardHandlerConstants
      DEF TypeOK, monitor, files, writers, State, Event, Handling, Filing
  <1>1. CASE SwapCard
    BY <1>1 DEF SwapCard
  <1>2. CASE PollPresent
    BY <1>2 DEF PollPresent
  <1>3. CASE PollAbsent
    BY <1>3 DEF PollAbsent
  <1>4. CASE InsertHandler
    BY <1>4 DEF InsertHandler
  <1>a. CASE Connects \/ MountFails
    BY <1>a DEF Connects, MountFails
  <1>b. CASE ConnectFails \/ Mounts \/ CardFailed
    BY <1>b DEF ConnectFails, Mounts, CardFailed, EndDispatch
  <1>5. CASE RemoveHandler
    BY <1>5 DEF RemoveHandler
  <1>c. CASE CardRemoved
    BY <1>c DEF CardRemoved, EndDispatch
  <1>6. CASE NoEvent
    BY <1>6 DEF NoEvent, EndDispatch
  <1>7. CASE WriteLine
    <2>1. lines' \in [File -> 0 .. FILE_BUFFER_SIZE]
      BY <1>7 DEF WriteLine
    <2> QED
      BY <1>7, <2>1 DEF WriteLine
  <1>8. CASE CheckClose
    BY <1>8 DEF CheckClose, NextFile, File
  <1>9. CASE CloseFile
    BY <1>9 DEF CloseFile
  <1>d. CASE FileClosed
    BY <1>d DEF FileClosed, NextFile, File
  <1>10. ASSUME NEW f \in File, Writer(f) PROVE TypeOK'
    <2>1. Lines(f) \in Nat \ {0}
      BY DEF Lines
    <2>2. CASE OpenFile(f)
      <3>1. left' \in [File -> Nat]
        BY <2>1, <2>2 DEF OpenFile
      <3>2. \A g \in File : left'[g] <= Lines(g)
        BY <2>1, <2>2 DEF OpenFile, Lines
      <3> QED
        BY <2>2, <3>1, <3>2 DEF OpenFile
    <2>3. CASE PostLine(f)
      <3>1. left[f] \in Nat \ {0}
        BY <2>3 DEF PostLine, PostingInv
      <3>2. left' \in [File -> Nat]
        BY <2>3, <3>1 DEF PostLine
      <3>3. \A g \in File : left'[g] <= Lines(g)
        BY <2>3, <3>1 DEF PostLine, Lines
      <3>4. lines' \in [File -> 0 .. FILE_BUFFER_SIZE]
        BY <2>3 DEF PostLine
      <3> QED
        BY <2>3, <3>2, <3>3, <3>4 DEF PostLine
    <2>4. CASE RequestClose(f)
      BY <2>4 DEF RequestClose
    <2> QED
      BY <1>10, <2>2, <2>3, <2>4 DEF Writer
  <1> QED
    BY <1>1, <1>2, <1>3, <1>4, <1>5, <1>6, <1>7, <1>8, <1>9, <1>10, <1>a,
       <1>b, <1>c, <1>d DEF Next, Poll, Threadcardhandler

LEMMA KeepPosting ==
  ASSUME TypeOK, PostingInv, Next
  PROVE  PostingInv'
  <1> USE DEF PostingInv, writers
  <1>1. CASE UNCHANGED writers
    BY <1>1
  <1>2. ASSUME NEW f \in File, Writer(f) PROVE PostingInv'
    <2>1. left[f] \in Nat /\ Lines(f) \in Nat \ {0}
      BY CardHandlerConstants DEF TypeOK, Lines
    <2>2. CASE OpenFile(f)
      BY <2>1, <2>2 DEF OpenFile, TypeOK
    <2>3. CASE PostLine(f)
      BY <2>1, <2>3 DEF PostLine, TypeOK
    <2>4. CASE RequestClose(f)
      BY <2>4 DEF RequestClose, TypeOK
    <2> QED
      BY <1>2, <2>2, <2>3, <2>4 DEF Writer
  <1>3. SwapCard \/ Poll \/ Threadcardhandler => UNCHANGED writers
    BY DEF SwapCard, Poll, PollPresent, PollAbsent, Threadcardhandler,
           InsertHandler, Connects, ConnectFails, Mounts, MountFails,
           CardFailed, RemoveHandler, CardRemoved, NoEvent, WriteLine,
           CheckClose, CloseFile, FileClosed
  <1> QED
    BY <1>1, <1>2, <1>3 DEF Next

LEMMA KeepLoop ==
  ASSUME LoopInv, Next
  PROVE  LoopInv'
  <1> USE DEF LoopInv, Usable, Filing
  <1>1. CASE UNCHANGED <<pc, state>>
    BY <1>1
  <1>2. CASE InsertHandler \/ Connects \/ MountFails \/ RemoveHandler
    BY <1>2 DEF InsertHandler, Connects, MountFails, RemoveHandler
  <1>6. CASE ConnectFails \/ Mounts \/ CardFailed \/ CardRemoved \/ NoEvent
    BY <1>6 DEF ConnectFails, Mounts, CardFailed, CardRemoved, NoEvent,
                EndDispatch
  <1>3. CASE WriteLine
    BY <1>3 DEF WriteLine
  <1>4. CASE CheckClose \/ CloseFile \/ FileClosed
    BY <1>4 DEF CheckClose, CloseFile, FileClosed, NextFile
  <1>5. SwapCard \/ Poll \/ (\E f \in File : Writer(f))
          => UNCHANGED <<pc, state>>
    BY DEF SwapCard, Poll, PollPresent, PollAbsent, Writer, OpenFile,
           PostLine, RequestClose
  <1> QED
    BY <1>1, <1>2, <1>3, <1>4, <1>5, <1>6 DEF Next, Threadcardhandler

LEMMA KeepCount ==
  ASSUME TypeOK, CountInv, Next
  PROVE  CountInv'
  <1> USE DEF CountInv
  <1>1. CASE UNCHANGED <<cnt, seen>>
    BY <1>1
  <1>2. CASE Poll
    BY <1>2, CardHandlerConstants DEF Poll, PollPresent, PollAbsent, TypeOK
  <1>3. SwapCard \/ Threadcardhandler \/ (\E f \in File : Writer(f))
          => UNCHANGED <<cnt, seen>>
    BY DEF SwapCard, Threadcardhandler, InsertHandler, Connects,
           ConnectFails, Mounts, MountFails, CardFailed, RemoveHandler,
           CardRemoved, NoEvent, WriteLine, CheckClose, CloseFile,
           FileClosed, Writer, OpenFile, PostLine, RequestClose, monitor
  <1> QED
    BY <1>1, <1>2, <1>3 DEF Next

LEMMA KeepBusy ==
  ASSUME TypeOK, BusyMeansOpen, Next
  PROVE  BusyMeansOpen'
  <1> USE DEF BusyMeansOpen, files
  <1>1. CASE UNCHANGED <<pc, state, isopen>>
    BY <1>1
  <1>2. CASE Mounts \/ CardFailed \/ CardRemoved \/ FileClosed
    BY <1>2, CardHandlerConstants DEF Mounts, CardFailed, CardRemoved, FileClosed
  <1>3. CASE WriteLine
    BY <1>3 DEF WriteLine, TypeOK
  <1>4. CASE CloseFile
    BY <1>4 DEF CloseFile
  <1>5. ASSUME NEW f \in File, OpenFile(f) PROVE BusyMeansOpen'
    BY <1>5 DEF OpenFile, TypeOK
  <1>6. /\ SwapCard \/ Poll => UNCHANGED <<pc, state, isopen>>
        /\ \A f \in File : PostLine(f) \/ RequestClose(f)
             => UNCHANGED <<pc, state, isopen>>
    BY DEF SwapCard, Poll, PollPresent, PollAbsent, PostLine, RequestClose
  <1>7. CASE \/ InsertHandler \/ Connects \/ ConnectFails \/ MountFails
             \/ RemoveHandler \/ NoEvent \/ CheckClose
    <2>1. pc # "closed" /\ UNCHANGED <<state, isopen>>
      BY <1>7 DEF InsertHandler, Connects, ConnectFails, MountFails,
                  RemoveHandler, NoEvent, CheckClose
    <2> QED
      BY <2>1
  <1> QED
    BY <1>1, <1>2, <1>3, <1>4, <1>5, <1>6, <1>7
       DEF Next, Threadcardhandler, Writer

\* Every stage of the handlers keeps what is shown and what is to come.
LEMMA KeepEvents ==
  ASSUME TypeOK, LoopInv, EventInv, StateFollowsDriver, Next
  PROVE  EventInv' /\ StateFollowsDriver'
  <1> USE DEF EventInv, StateFollowsDriver, Mounted, Believing, Inserting,
              monitor
  <1>1. CASE UNCHANGED <<pc, cnt, events, state, connected>>
    BY <1>1
  <1>2. CASE PollPresent
    <2>1. cnt' <= cnt /\ (cnt' > 0 => cnt > 0) /\ (cnt = 1 => cnt' = 0)
      BY <1>2, CardHandlerConstants DEF PollPresent, TypeOK
    <2> QED
      BY <1>2, <2>1 DEF PollPresent, TypeOK
  <1>3. CASE PollAbsent
    BY <1>3, CardHandlerConstants DEF PollAbsent, TypeOK
  <1>4. CASE InsertHandler
    BY <1>4 DEF InsertHandler
  <1>5. CASE Connects
    BY <1>5 DEF Connects
  <1>6. CASE ConnectFails
    BY <1>6 DEF ConnectFails, EndDispatch
  <1>7. CASE Mounts
    BY <1>7, CardHandlerConstants DEF Mounts, EndDispatch
  <1>8. CASE MountFails
    BY <1>8 DEF MountFails
  <1>9. CASE CardFailed
    BY <1>9 DEF CardFailed, EndDispatch
  <1>10. CASE RemoveHandler
    BY <1>10 DEF RemoveHandler
  <1>11. CASE CardRemoved
    BY <1>11 DEF CardRemoved, EndDispatch
  <1>12. CASE NoEvent
    BY <1>12 DEF NoEvent, EndDispatch
  <1>13. CASE WriteLine \/ CheckClose
    BY <1>13 DEF WriteLine, CheckClose, NextFile, LoopInv, Usable, Filing
  <1>14. CASE CloseFile \/ FileClosed
    BY <1>14 DEF CloseFile, FileClosed, NextFile, LoopInv, Usable, Filing
  <1>15. SwapCard \/ (\E f \in File : Writer(f))
           => UNCHANGED <<pc, cnt, events, state, connected>>
    BY DEF SwapCard, Writer, OpenFile, PostLine, RequestClose
  <1> QED
    BY <1>1, <1>2, <1>3, <1>4, <1>5, <1>6, <1>7, <1>8, <1>9, <1>10, <1>11,
       <1>12, <1>13, <1>14, <1>15 DEF Next, Poll, Threadcardhandler

LEMMA KeepCard == CardInv /\ [Next]_vars => CardInv'
  <1> SUFFICES ASSUME CardInv, [Next]_vars PROVE CardInv'
    OBVIOUS
  <1>1. CASE Next
    BY <1>1, KeepTypes, KeepPosting, KeepLoop, KeepCount, KeepBusy, KeepEvents
       DEF CardInv
  <1>2. CASE UNCHANGED vars
    <2> USE <1>2 DEF vars, monitor, files, writers
    <2>1. TypeOK'
      BY DEF CardInv, TypeOK
    <2>2. PostingInv' /\ LoopInv' /\ CountInv'
      BY DEF CardInv, PostingInv, LoopInv, CountInv
    <2>3. BusyMeansOpen' /\ EventInv' /\ StateFollowsDriver'
      BY DEF CardInv, BusyMeansOpen, EventInv, StateFollowsDriver, Mounted,
             Believing, Inserting
    <2> QED
      BY <2>1, <2>2, <2>3 DEF CardInv
  <1> QED
    BY <1>1, <1>2

LEMMA CardInvariant == Spec => []CardInv
  BY InitCard, KeepCard, PTL DEF Spec

-----------------------------------------------------------------------------
(***************************************************************************)
(* The results.                                                            *)
(***************************************************************************)

\* The cardhandler is type correct: counters, buffers and loop variables
\* stay in their bounds.
THEOREM TypeCorrect == Spec => []TypeOK
  BY CardInvariant, PTL DEF CardInv

\* A card that is shown as busy has an open file, or one whose flags have
\* just been cleared.
THEOREM BusyIsOpen == Spec => []BusyMeansOpen
  BY CardInvariant, PTL DEF CardInv

\* What is shown of the card agrees with the driver, but while a card is
\* being mounted, and while a removal is yet to be handled or in hand.
THEOREM DriverFollowed == Spec => []StateFollowsDriver
  BY CardInvariant, PTL DEF CardInv

\* Every insertion that is broadcast has been seen in SDC_POLLING_INTERVAL
\* successive polls.
THEOREM InsertionsAreDebounced == Spec => DebouncedInsertion
  <1>1. ASSUME CardInv, [Next]_vars
        PROVE  [events' \ events = {"inserted"}
                  => seen' = SDC_POLLING_INTERVAL]_vars
    <2>1. CardInv'
      BY <1>1, KeepCard
    <2>2. CASE PollPresent
      <3>1. events' \ events = {"inserted"} => cnt = 1
        BY <2>2 DEF PollPresent
      <3> QED
        BY <1>1, <2>1, <2>2, <3>1, CardHandlerConstants
           DEF CardInv, CountInv, TypeOK, PollPresent
    <2>3. CASE ~PollPresent
      <3>1. events' \ events # {"inserted"}
        BY <1>1, <2>3
           DEF Next, vars, monitor, SwapCard, Poll, PollAbsent,
               Threadcardhandler, InsertHandler, Connects, ConnectFails,
               Mounts, MountFails, CardFailed, RemoveHandler, CardRemoved,
               NoEvent, WriteLine, CheckClose, CloseFile, FileClosed, Writer,
               OpenFile, PostLine, RequestClose
      <3> QED
        BY <3>1
    <2> QED
      BY <2>2, <2>3
  <1> QED
    BY <1>1, CardInvariant, PTL DEF Spec, DebouncedInsertion

-----------------------------------------------------------------------------
(***************************************************************************)
(* The two flags of a file are set by its writer and cleared by the        *)
(* cardhandler, between any two steps of each other.                       *)
(***************************************************************************)
\* A file that is open has its writer at work, or is to be closed.  When the
\* cardhandler clears the flags of a file that was opened again in the
\* meantime, it drops the request to close it only together with the file
\* (cardhandler.c 300-332).
OpenFilesAreClosed ==
  \A f \in File : isopen[f] /\ wr_pc[f] = "idle" => close[f]

THEOREM NoFileStaysOpen == Spec => []OpenFilesAreClosed
  <1> USE DEF OpenFilesAreClosed
  <1>1. Init => OpenFilesAreClosed
    BY DEF Init
  <1>2. TypeOK /\ OpenFilesAreClosed /\ [Next]_vars => OpenFilesAreClosed'
    <2> SUFFICES ASSUME TypeOK, OpenFilesAreClosed, [Next]_vars
                 PROVE  OpenFilesAreClosed'
      OBVIOUS
    <2> USE DEF TypeOK, files, writers
    <2>1. CASE UNCHANGED <<isopen, close, wr_pc>>
      BY <2>1
    <2>2. CASE CloseFile
      BY <2>2 DEF CloseFile
    <2>3. ASSUME NEW f \in File, OpenFile(f) PROVE OpenFilesAreClosed'
      BY <2>3 DEF OpenFile
    <2>4. ASSUME NEW f \in File, PostLine(f) PROVE OpenFilesAreClosed'
      BY <2>4 DEF PostLine
    <2>5. ASSUME NEW f \in File, RequestClose(f) PROVE OpenFilesAreClosed'
      BY <2>5 DEF RequestClose
    <2>6. SwapCard \/ Poll \/ InsertHandler \/ Connects \/ ConnectFails
            \/ Mounts \/ MountFails \/ CardFailed \/ RemoveHandler
            \/ CardRemoved \/ NoEvent \/ WriteLine \/ CheckClose
            \/ FileClosed \/ UNCHANGED vars
            => UNCHANGED <<isopen, close, wr_pc>>
      BY DEF SwapCard, Poll, PollPresent, PollAbsent, InsertHandler, Connects,
             ConnectFails, Mounts, MountFails, CardFailed, RemoveHandler,
             CardRemoved, NoEvent, WriteLine, CheckClose, FileClosed, vars
    <2> QED
      BY <2>1, <2>2, <2>3, <2>4, <2>5, <2>6 DEF Next, Threadcardhandler, Writer
  <1> QED
    BY <1>1, <1>2, TypeCorrect, PTL DEF Spec

-----------------------------------------------------------------------------
(***************************************************************************)
(* The cardhandler implements FileBuffers.                                 *)
(***************************************************************************)

\* The abstract state of the card, and the empty items of the buffers.
Sdc == IF state \in {"READY", "BUSY"} THEN "READY"
       ELSE IF state = "FULL" THEN "FULL"
       ELSE IF connected THEN "MOUNTING" ELSE "ABSENT"

LogFree == FILE_BUFFER_SIZE - lines["log"]

ResultFree == FILE_BUFFER_SIZE - lines["result"]

\* Only the stages of the handlers that change the driver or the state, and
\* a line that is written or posted, are seen.
LEMMA StepsImplementFileBuffers ==
  CardInv /\ [Next]_vars => [FB!FileBufferNext]_(FB!fileBuffers)
  <1> SUFFICES ASSUME CardInv, [Next]_vars
               PROVE  \/ FB!FileBufferNext
                      \/ UNCHANGED <<Sdc, LogFree, ResultFree>>
    BY DEF FB!fileBuffers, Sdc, LogFree, ResultFree
  <1> USE DEF files
  <1>0. /\ lines["log"] \in 0 .. FILE_BUFFER_SIZE
        /\ lines["result"] \in 0 .. FILE_BUFFER_SIZE
        /\ lines \in [File -> 0 .. FILE_BUFFER_SIZE]
        /\ state \in State
    BY DEF CardInv, TypeOK, File
  <1>1. CASE UNCHANGED <<state, connected, lines>>
    BY <1>1 DEF Sdc, LogFree, ResultFree
  <1>a. ASSUME UNCHANGED lines, Sdc' = "ABSENT"
        PROVE  FB!FileBufferNext \/ UNCHANGED <<Sdc, LogFree, ResultFree>>
    <2>1. UNCHANGED <<LogFree, ResultFree>>
      BY <1>a DEF LogFree, ResultFree
    <2> QED
      BY <1>a, <2>1
         DEF FB!FileBufferNext, FB!CardRemove, Sdc, LogFree, ResultFree
  <1>2. CASE InsertHandler \/ RemoveHandler \/ MountFails
    <2>1. UNCHANGED <<state, lines>> /\ connected' = FALSE
      BY <1>2 DEF InsertHandler, RemoveHandler, MountFails
    <2>2. Sdc' = "ABSENT" \/ UNCHANGED <<Sdc, LogFree, ResultFree>>
      BY <2>1 DEF Sdc, LogFree, ResultFree
    <2> QED
      BY <1>a, <2>1, <2>2
  <1>3. CASE CardFailed \/ CardRemoved
    <2>1. UNCHANGED lines /\ Sdc' = "ABSENT"
      BY <1>3 DEF CardFailed, CardRemoved, CardInv, EventInv, StateFollowsDriver,
                  Mounted, Sdc
    <2> QED
      BY <1>a, <2>1
  <1>b. CASE Connects
    <2>1. UNCHANGED <<state, lines>> /\ connected' = TRUE
      BY <1>b DEF Connects
    <2>2. UNCHANGED <<LogFree, ResultFree>>
      BY <2>1 DEF LogFree, ResultFree
    <2>3. UNCHANGED Sdc \/ (Sdc = "ABSENT" /\ Sdc' = "MOUNTING")
      BY <2>1 DEF Sdc
    <2> QED
      BY <2>2, <2>3, CardHandlerConstants
         DEF FB!FileBufferNext, FB!CardConnect, Sdc, LogFree, ResultFree
  <1>c. CASE Mounts
    <2>1. UNCHANGED <<LogFree, ResultFree>>
      BY <1>c DEF Mounts, LogFree, ResultFree
    <2>2. Sdc' \in Cards
      BY <1>c, CardHandlerConstants DEF Mounts, Sdc
    <2>3. Sdc # "ABSENT"
      BY <1>c DEF Mounts, CardInv, EventInv, Sdc
    <2> QED
      BY <2>1, <2>2, <2>3
         DEF FB!FileBufferNext, FB!CardInsert, Sdc, LogFree, ResultFree
  <1>4. CASE WriteLine
    <2>1. Sdc = "READY" /\ UNCHANGED Sdc
      BY <1>4 DEF WriteLine, CardInv, LoopInv, Filing, Usable, Sdc
    <2>2. CASE UNCHANGED lines
      BY <2>1, <2>2 DEF LogFree, ResultFree
    <2>3. CASE file = "log" /\ lines["log"] > 0 /\ isopen[file]
      <3>1. LogFree' = LogFree + 1 /\ UNCHANGED ResultFree
        BY <1>0, <1>4, <2>3, CardHandlerConstants
           DEF WriteLine, File, LogFree, ResultFree
      <3>2. LogFree < FILE_BUFFER_SIZE
        BY <1>0, <2>3, CardHandlerConstants DEF LogFree
      <3> QED
        BY <2>1, <3>1, <3>2
           DEF FB!FileBufferNext, FB!CardWriteLog, Sdc, LogFree, ResultFree
    <2>4. CASE file = "result" /\ lines["result"] > 0 /\ isopen[file]
      <3>1. ResultFree' = ResultFree + 1 /\ UNCHANGED LogFree
        BY <1>0, <1>4, <2>4, CardHandlerConstants
           DEF WriteLine, File, LogFree, ResultFree
      <3>2. ResultFree < FILE_BUFFER_SIZE
        BY <1>0, <2>4, CardHandlerConstants DEF ResultFree
      <3> QED
        BY <2>1, <3>1, <3>2
           DEF FB!FileBufferNext, FB!CardWriteResult, Sdc, LogFree, ResultFree
    <2>5. file \in {"result", "log"}
      BY DEF CardInv, TypeOK, File
    <2>6. isopen[file] /\ lines[file] = 0 => UNCHANGED lines
      BY <1>0, <1>4 DEF WriteLine
    <2> QED
      BY <1>0, <1>4, <2>2, <2>3, <2>4, <2>5, <2>6 DEF WriteLine
  <1>5. CASE FileClosed
    BY <1>5 DEF FileClosed, CardInv, LoopInv, Filing, Usable, Sdc, LogFree,
                ResultFree
  <1>6. ASSUME NEW f \in File, PostLine(f)
        PROVE  FB!FileBufferNext
    <2>1. UNCHANGED Sdc
      BY <1>6 DEF PostLine, Sdc
    <2>2. CASE f = "log"
      <3>1. /\ LogFree > 0
            /\ LogFree' = LogFree - 1
            /\ UNCHANGED ResultFree
        BY <1>0, <1>6, <2>2, CardHandlerConstants
           DEF PostLine, File, LogFree, ResultFree
      <3> QED
        BY <2>1, <3>1
           DEF FB!FileBufferNext, FB!PutLogItem, Sdc, LogFree, ResultFree
    <2>3. CASE f = "result"
      <3>1. /\ ResultFree > 0
            /\ ResultFree' = ResultFree - 1
            /\ UNCHANGED LogFree
        BY <1>0, <1>6, <2>3, CardHandlerConstants
           DEF PostLine, File, LogFree, ResultFree
      <3> QED
        BY <2>1, <3>1
           DEF FB!FileBufferNext, FB!PutResultItem, Sdc, LogFree, ResultFree
    <2> QED
      BY <2>2, <2>3 DEF File
  <1>7. /\ SwapCard \/ Poll \/ ConnectFails \/ NoEvent \/ CheckClose
             \/ CloseFile \/ UNCHANGED vars
             => UNCHANGED <<state, connected, lines>>
        /\ \A f \in File : OpenFile(f) \/ RequestClose(f)
             => UNCHANGED <<state, connected, lines>>
    BY DEF SwapCard, Poll, PollPresent, PollAbsent, ConnectFails, NoEvent,
           CheckClose, CloseFile, OpenFile, RequestClose, vars
  <1> QED
    BY <1>1, <1>2, <1>3, <1>4, <1>5, <1>6, <1>7, <1>b, <1>c
       DEF Next, Threadcardhandler, Writer

\* What the control threads assume of the file buffers is what the
\* cardhandler does, for every card, failure and swap.
THEOREM KeepsFileBuffers == Spec => ImplementsFileBuffers
  <1>1. Init => FB!FileBufferInit
    BY CardHandlerConstants DEF Init, FB!FileBufferInit, File
  <1> QED
    BY <1>1, CardInvariant, StepsImplementFileBuffers, PTL
       DEF Spec, ImplementsFileBuffers, FB!FileBufferSpec
=============================================================================
