----------------------------- MODULE CardHandler -----------------------------
(***************************************************************************)
(* The cardhandler: a timer that polls the card slot and broadcasts an     *)
(* event when a card was inserted (seen in SDC_POLLING_INTERVAL polls) or  *)
(* removed, and a thread that in each pass of its loop handles one event,  *)
(* writes one line of each open file, and closes the files that are to be  *)
(* closed and have no line left.                                           *)
(*                                                                         *)
(* Connecting and mounting a card takes many transfers, during which other *)
(* threads run, so that the handlers are split at every change that others *)
(* can see: of the driver, of the state and of the flags of a file.        *)
(*                                                                         *)
(* The result file is opened, written and closed by the sterilizer, the    *)
(* log file by the regulator.  Both run at a higher priority, so that they *)
(* may do so between any two steps of the cardhandler.  Of the lines only  *)
(* their number is kept.                                                   *)
(***************************************************************************)
EXTENDS Naturals

CONSTANTS
  SDC_POLLING_INTERVAL,   \* polls until a card counts as inserted (10)
  FILE_BUFFER_SIZE,       \* items of each file buffer (10 in appconf.h)
  ResultLines,            \* lines of a result file
  Cards,                  \* the cards at hand: "READY" for a good one, "FULL"
  Failures,               \* what may fail with a card: "connect", "mount"
  Hasty,                  \* a card may go in and out between two polls
  MaxSwaps                \* bound: how often a card goes in or out

ASSUME CardHandlerConstants ==
  /\ SDC_POLLING_INTERVAL \in Nat \ {0}
  /\ FILE_BUFFER_SIZE \in Nat \ {0}
  /\ ResultLines \in Nat \ {0}
  /\ Cards \subseteq {"READY", "FULL"} /\ Cards # {}
  /\ Failures \subseteq {"connect", "mount"}
  /\ Hasty \in BOOLEAN
  /\ MaxSwaps \in Nat

VARIABLES
  inserted,    \* a card is in the slot (blkIsInserted)
  swaps,       \* how often a card went in or out, for the bound
  cnt,         \* the debounce counter
  seen,        \* history: successive polls that have seen the card
  events,      \* events that are pending for the thread
  state,       \* cardhandler.state
  connected,   \* the driver is connected to a card (BLK_READY)
  pc,          \* where the thread is in its loop or in a handler
  file,        \* the file that it deals with
  isopen,      \* isopen and close of the two files
  close,
  lines,       \* lines in the two file buffers
  wr_pc,       \* where the writer of each file is
  left         \* lines that it has yet to post

monitor == <<inserted, swaps, cnt, seen>>
files   == <<isopen, close, lines>>
writers == <<wr_pc, left>>
vars    == <<monitor, events, state, connected, pc, file, files, writers>>

File  == {"result", "log"}
Event == {"inserted", "removed"}
State == {"NOTINSERTED", "ERROR", "BUSY", "READY", "FULL"}

\* Where the thread can be in the handlers, and in its work on the files.
Handling == {"connect", "mount", "failed", "removed"}
Filing   == {"write", "check", "close", "closed"}

\* saveLog posts two lines each time it has opened the log file.
Lines(f) == IF f = "log" THEN 2 ELSE ResultLines

TypeOK ==
  /\ inserted \in BOOLEAN
  /\ swaps \in 0 .. MaxSwaps
  /\ cnt \in 0 .. SDC_POLLING_INTERVAL
  /\ seen \in 0 .. SDC_POLLING_INTERVAL
  /\ events \subseteq Event
  /\ state \in State
  /\ connected \in BOOLEAN
  /\ pc \in Handling \cup Filing \cup {"wait"}
  /\ file \in File
  /\ isopen \in [File -> BOOLEAN]
  /\ close \in [File -> BOOLEAN]
  /\ lines \in [File -> 0 .. FILE_BUFFER_SIZE]
  /\ wr_pc \in [File -> {"idle", "post", "close"}]
  /\ left \in [File -> Nat]
  /\ \A f \in File : left[f] <= Lines(f)

Init ==
  /\ inserted \in BOOLEAN
  /\ swaps = 0
  /\ cnt = SDC_POLLING_INTERVAL
  /\ seen = 0
  /\ events = {}
  /\ state = "NOTINSERTED"
  /\ connected = FALSE
  /\ pc = "wait"
  /\ file = "result"
  /\ isopen = [f \in File |-> FALSE]
  /\ close = [f \in File |-> FALSE]
  /\ lines = [f \in File |-> 0]
  /\ wr_pc = [f \in File |-> "idle"]
  /\ left = [f \in File |-> 0]

-----------------------------------------------------------------------------
(***************************************************************************)
(* The slot and the timer callback tmrfunc.                                *)
(***************************************************************************)
Noticed == inserted <=> cnt = 0

SwapCard ==
  /\ swaps < MaxSwaps
  /\ Hasty \/ Noticed
  /\ swaps' = swaps + 1
  /\ inserted' = ~inserted
  /\ UNCHANGED <<cnt, seen, events, state, connected, pc, file, files,
                 writers>>

\* Mutant: the counter runs on below zero.
PollPresentUnderflow ==
  /\ inserted
  /\ cnt' = cnt - 1
  /\ events' = IF cnt = 1 THEN events \cup {"inserted"} ELSE events
  /\ seen' = IF seen < SDC_POLLING_INTERVAL THEN seen + 1 ELSE seen
  /\ UNCHANGED <<inserted, swaps, state, connected, pc, file, files, writers>>

PollPresent ==
  /\ inserted
  /\ cnt' = IF cnt > 0 THEN cnt - 1 ELSE 0
  /\ events' = IF cnt = 1 THEN events \cup {"inserted"} ELSE events
  /\ seen' = IF seen < SDC_POLLING_INTERVAL THEN seen + 1 ELSE seen
  /\ UNCHANGED <<inserted, swaps, state, connected, pc, file, files, writers>>

\* Mutant: a bouncing contact does not restart the counter.
PollAbsentKeepsCount ==
  /\ ~inserted
  /\ cnt' = IF cnt = 0 THEN SDC_POLLING_INTERVAL ELSE cnt
  /\ events' = IF cnt = 0 THEN events \cup {"removed"} ELSE events
  /\ seen' = 0
  /\ UNCHANGED <<inserted, swaps, state, connected, pc, file, files, writers>>

\* Mutant: the removal is not broadcast.
PollAbsentSilent ==
  /\ ~inserted
  /\ cnt' = SDC_POLLING_INTERVAL
  /\ seen' = 0
  /\ UNCHANGED <<inserted, swaps, events, state, connected, pc, file, files,
                 writers>>

PollAbsent ==
  /\ ~inserted
  /\ cnt' = SDC_POLLING_INTERVAL
  /\ events' = IF cnt = 0 THEN events \cup {"removed"} ELSE events
  /\ seen' = 0
  /\ UNCHANGED <<inserted, swaps, state, connected, pc, file, files, writers>>

Poll == PollPresent \/ PollAbsent

-----------------------------------------------------------------------------
(***************************************************************************)
(* Events.  chEvtWaitOneTimeout returns one pending event, an insertion    *)
(* before a removal.  The files are looked at only on a usable card.       *)
(***************************************************************************)

\* Mutant: a busy card is not written to.
UsableNotBusy(s) == s = "READY"

\* Mutant: a full card is written to as well.
UsableFull(s) == s \in {"READY", "BUSY", "FULL"}

Usable(s) == s \in {"READY", "BUSY"}

EndDispatch == pc' = IF Usable(state') THEN "write" ELSE "wait"

\* sdcConnect puts the driver into BLK_CONNECTING before anything else.
InsertHandler ==
  /\ pc = "wait"
  /\ "inserted" \in events
  /\ events' = events \ {"inserted"}
  /\ connected' = FALSE
  /\ pc' = "connect"
  /\ UNCHANGED <<monitor, state, file, files, writers>>

\* A transfer fails because the card is out, or because it is a bad one.
MayFail(step) == ~inserted \/ step \in Failures

Connects ==
  /\ pc = "connect"
  /\ inserted
  /\ connected' = TRUE
  /\ pc' = "mount"
  /\ UNCHANGED <<monitor, events, state, file, files, writers>>

ConnectFails ==
  /\ pc = "connect"
  /\ MayFail("connect")
  /\ UNCHANGED state
  /\ EndDispatch
  /\ UNCHANGED <<monitor, events, connected, file, files, writers>>

\* f_mount and f_getfree succeed.  The card may have been taken out since
\* its last transfer.
Mounts ==
  /\ pc = "mount"
  /\ state' \in Cards
  /\ EndDispatch
  /\ UNCHANGED <<monitor, events, connected, file, files, writers>>

\* Mutant: the driver stays connected to a card that does not mount.
MountFailsConnected ==
  /\ pc = "mount"
  /\ MayFail("mount")
  /\ pc' = "failed"
  /\ UNCHANGED <<monitor, events, state, connected, file, files, writers>>

\* f_mount or f_getfree fails, and the driver is disconnected.
MountFails ==
  /\ pc = "mount"
  /\ MayFail("mount")
  /\ connected' = FALSE
  /\ pc' = "failed"
  /\ UNCHANGED <<monitor, events, state, file, files, writers>>

CardFailed ==
  /\ pc = "failed"
  /\ state' = "ERROR"
  /\ EndDispatch
  /\ UNCHANGED <<monitor, events, connected, file, files, writers>>

RemoveHandler ==
  /\ pc = "wait"
  /\ events = {"removed"}
  /\ events' = {}
  /\ connected' = FALSE
  /\ pc' = "removed"
  /\ UNCHANGED <<monitor, state, file, files, writers>>

CardRemoved ==
  /\ pc = "removed"
  /\ state' = "NOTINSERTED"
  /\ EndDispatch
  /\ UNCHANGED <<monitor, events, connected, file, files, writers>>

NoEvent ==
  /\ pc = "wait"
  /\ events = {}
  /\ UNCHANGED state
  /\ EndDispatch
  /\ UNCHANGED <<monitor, events, connected, file, files, writers>>

-----------------------------------------------------------------------------
(***************************************************************************)
(* The files, first the result file, then the log file.                    *)
(***************************************************************************)
NextFile ==
  IF file = "result"
  THEN pc' = "write" /\ file' = "log"
  ELSE pc' = "wait" /\ file' = "result"

\* An item is taken from the buffer, written and released; the result of
\* f_write is not looked at.
WriteLine ==
  /\ pc = "write"
  /\ pc' = "check"
  /\ IF isopen[file]
     THEN /\ state' = "BUSY"
          /\ lines' = [lines EXCEPT ![file] = IF @ > 0 THEN @ - 1 ELSE 0]
     ELSE UNCHANGED <<state, lines>>
  /\ UNCHANGED <<monitor, events, connected, file, isopen, close, writers>>

CheckClose ==
  /\ pc = "check"
  /\ IF close[file] /\ lines[file] = 0
     THEN pc' = "close" /\ UNCHANGED file
     ELSE NextFile
  /\ UNCHANGED <<monitor, events, state, connected, files, writers>>

\* f_close, then the flags are cleared.
CloseFile ==
  /\ pc = "close"
  /\ isopen' = [isopen EXCEPT ![file] = FALSE]
  /\ close' = [close EXCEPT ![file] = FALSE]
  /\ pc' = "closed"
  /\ UNCHANGED <<monitor, events, state, connected, file, lines, writers>>

\* Mutant: the card stays busy when its file is closed.
FileClosedStaysBusy ==
  /\ pc = "closed"
  /\ NextFile
  /\ UNCHANGED <<monitor, events, state, connected, files, writers>>

FileClosed ==
  /\ pc = "closed"
  /\ state' = "READY"
  /\ NextFile
  /\ UNCHANGED <<monitor, events, connected, files, writers>>

Threadcardhandler ==
  \/ InsertHandler \/ Connects \/ ConnectFails
  \/ Mounts \/ MountFails \/ CardFailed
  \/ RemoveHandler \/ CardRemoved \/ NoEvent
  \/ WriteLine \/ CheckClose \/ CloseFile \/ FileClosed

-----------------------------------------------------------------------------
(***************************************************************************)
(* The writers, which open a file only while the driver is connected:      *)
(* f_open asks the driver, not the cardhandler's state.                    *)
(***************************************************************************)
OpenFile(f) ==
  /\ wr_pc[f] = "idle"
  /\ connected
  /\ isopen' = [isopen EXCEPT ![f] = TRUE]
  /\ close' = [close EXCEPT ![f] = FALSE]
  /\ wr_pc' = [wr_pc EXCEPT ![f] = "post"]
  /\ left' = [left EXCEPT ![f] = Lines(f)]
  /\ UNCHANGED <<monitor, events, state, connected, pc, file, lines>>

PostLine(f) ==
  /\ wr_pc[f] = "post"
  /\ lines[f] < FILE_BUFFER_SIZE
  /\ lines' = [lines EXCEPT ![f] = @ + 1]
  /\ left' = [left EXCEPT ![f] = @ - 1]
  /\ wr_pc' = [wr_pc EXCEPT ![f] = IF left[f] = 1 THEN "close" ELSE "post"]
  /\ UNCHANGED <<monitor, events, state, connected, pc, file, isopen, close>>

RequestClose(f) ==
  /\ wr_pc[f] = "close"
  /\ close' = [close EXCEPT ![f] = TRUE]
  /\ wr_pc' = [wr_pc EXCEPT ![f] = "idle"]
  /\ UNCHANGED <<monitor, events, state, connected, pc, file, isopen, lines,
                 left>>

Writer(f) == OpenFile(f) \/ PostLine(f) \/ RequestClose(f)

Next ==
  \/ SwapCard \/ Poll \/ Threadcardhandler
  \/ \E f \in File : Writer(f)

Spec == Init /\ [][Next]_vars

\* The timer runs for ever, the thread loops for ever, and a writer goes on
\* with a file that it has opened.
FairSpec ==
  /\ Spec
  /\ WF_vars(Poll)
  /\ WF_vars(Threadcardhandler)
  /\ \A f \in File : WF_vars(PostLine(f) \/ RequestClose(f))

-----------------------------------------------------------------------------
(***************************************************************************)
(* Safety.                                                                 *)
(***************************************************************************)

\* "Busy" is shown only while a file is open, whichever of the two files
\* was closed last and however often the card was changed in between, but
\* for the moment in which the cardhandler has cleared the flags and not yet
\* set the state (cardhandler.c 282, 299-303, 307, 326-330).
BusyMeansOpen ==
  state = "BUSY" => pc = "closed" \/ \E f \in File : isopen[f]

\* What is shown of the card agrees with the driver.  The driver is ahead
\* only while a card is being mounted.  A state that still claims a mounted
\* card has a removal to come or in hand, so that the thread cannot get stuck
\* in it when an insertion fails (cardhandler.c 208-251).
Mounted == state \in {"READY", "BUSY", "FULL"}

StateFollowsDriver ==
  /\ connected => Mounted \/ pc = "mount"
  /\ Mounted /\ ~connected => "removed" \in events \/ pc = "removed"

\* An insertion is broadcast only after SDC_POLLING_INTERVAL successive
\* polls have seen the card (cardhandler.c 172-180).
DebouncedInsertion ==
  [][events' \ events = {"inserted"} => seen' = SDC_POLLING_INTERVAL]_vars

\* The cardhandler keeps what FileBuffers promises to the control threads:
\* lines leave the buffers only while a card is mounted and not full, one at
\* a time, and never more than were posted.
FB == INSTANCE FileBuffers WITH
  sdc         <- IF state \in {"READY", "BUSY"} THEN "READY"
                 ELSE IF state = "FULL" THEN "FULL"
                 ELSE IF connected THEN "MOUNTING" ELSE "ABSENT",
  log_free    <- FILE_BUFFER_SIZE - lines["log"],
  result_free <- FILE_BUFFER_SIZE - lines["result"]

ImplementsFileBuffers == FB!FileBufferSpec

-----------------------------------------------------------------------------
(***************************************************************************)
(* Liveness.                                                               *)
(***************************************************************************)

\* A card that is taken out for good is noticed, whatever was pending or
\* had failed before (cardhandler.c 183-186, 245-251).
RemovedCardIsNoticed == <>[]~inserted => <>[](state = "NOTINSERTED")

\* A writer waits for ever for an empty item only without a usable card, or
\* when the cardhandler has closed the file that the writer has just opened
\* (cardhandler.c 279-332): as long as the card and the file are there, the
\* buffer is drained, whatever the other file does.
WriterIsServed ==
  \A f \in File :
    \/ wr_pc[f] = "post" ~> wr_pc[f] # "post"
    \/ <>[](state \notin {"READY", "BUSY"})
    \/ <>[](~isopen[f])

\* A card that stays in the slot is mounted at last: "On insertion SDC
\* initialization and FS mount" (cardhandler.c 213-214).  It does not hold:
\* see the README.
InsertedCardIsMounted == <>[]inserted => <>[]Usable(state)

\* A writer gets all its lines into the buffer while a card stays in the
\* slot: "Write data for file buffer into the result and log file"
\* (cardhandler.c 258).  It does not hold for a full card: see the README.
LinesArePosted ==
  <>[]inserted => \A f \in File : wr_pc[f] = "post" ~> wr_pc[f] # "post"
=============================================================================
