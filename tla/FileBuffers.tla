---------------------------- MODULE FileBuffers ----------------------------
(***************************************************************************)
(* The two file buffers between the control threads and the cardhandler,   *)
(* as far as the control threads depend on them: how many empty items are  *)
(* left, and whether the card is there to drain them.  A producer that     *)
(* finds no empty item sleeps and asks again.                              *)
(***************************************************************************)
EXTENDS Naturals

CONSTANTS
  FILE_BUFFER_SIZE,   \* items of each file buffer (10 in appconf.h)
  Cards               \* the cards at hand: "READY" for a good one, "FULL"

ASSUME FileBufferConstants ==
  /\ FILE_BUFFER_SIZE \in Nat \ {0}
  /\ Cards \subseteq {"READY", "FULL"}

VARIABLES
  sdc,           \* the card: absent, being mounted, mounted, or full
  log_free,      \* empty items of the log file buffer
  result_free    \* empty items of the result file buffer

fileBuffers == <<sdc, log_free, result_free>>

\* SDC_NOTINSERTED and SDC_ERROR, the same while the driver is already
\* connected, SDC_READY and SDC_BUSY, SDC_FULL.
SdcState == {"ABSENT", "MOUNTING", "READY", "FULL"}

FileBufferTypeOK ==
  /\ sdc \in SdcState
  /\ log_free \in 0 .. FILE_BUFFER_SIZE
  /\ result_free \in 0 .. FILE_BUFFER_SIZE

FileBufferInit ==
  /\ sdc = "ABSENT"
  /\ log_free = FILE_BUFFER_SIZE
  /\ result_free = FILE_BUFFER_SIZE

\* An empty item is taken, filled and posted.
PutLogItem ==
  /\ log_free > 0
  /\ log_free' = log_free - 1

PutResultItem ==
  /\ result_free > 0
  /\ result_free' = result_free - 1

\* A file may open as soon as the driver is connected, also while the card
\* is still being mounted, and on a full card, which is not disconnected.
CanOpenFile == sdc # "ABSENT"

\* One pass of the cardhandler writes one item and releases it, but it
\* looks at the buffers only in SDC_READY and SDC_BUSY.
CardWriteLog ==
  /\ sdc = "READY"
  /\ log_free < FILE_BUFFER_SIZE
  /\ log_free' = log_free + 1
  /\ UNCHANGED <<sdc, result_free>>

CardWriteResult ==
  /\ sdc = "READY"
  /\ result_free < FILE_BUFFER_SIZE
  /\ result_free' = result_free + 1
  /\ UNCHANGED <<sdc, log_free>>

\* The driver connects to a card, before the card is mounted.
CardConnect ==
  /\ Cards # {}
  /\ sdc = "ABSENT"
  /\ sdc' = "MOUNTING"
  /\ UNCHANGED <<log_free, result_free>>

\* A card is mounted, also one that replaces a card whose removal has not
\* been noticed yet.
CardInsert ==
  /\ sdc # "ABSENT"
  /\ sdc' \in Cards
  /\ UNCHANGED <<log_free, result_free>>

CardRemove ==
  /\ sdc # "ABSENT"
  /\ sdc' = "ABSENT"
  /\ UNCHANGED <<log_free, result_free>>

\* The buffers by themselves: what the cardhandler promises to the threads.
FileBufferNext ==
  \/ PutLogItem /\ UNCHANGED <<sdc, result_free>>
  \/ PutResultItem /\ UNCHANGED <<sdc, log_free>>
  \/ CardWriteLog \/ CardWriteResult
  \/ CardConnect \/ CardInsert \/ CardRemove

FileBufferSpec == FileBufferInit /\ [][FileBufferNext]_fileBuffers
=============================================================================
