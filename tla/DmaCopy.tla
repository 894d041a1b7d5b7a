------------------------------- MODULE DmaCopy -------------------------------
(***************************************************************************)
(* How the sterilizer copies a line into a buffer item: it starts a DMA    *)
(* transfer, then locks the system and suspends itself; the interrupt at   *)
(* the end of the transfer resumes it.  The lock is taken after the        *)
(* transfer has been started, so that the interrupt may come first.        *)
(***************************************************************************)
VARIABLES
  ster_pc,   \* "idle", "started" (not yet suspended) or "suspended"
  dma,       \* a transfer is running
  thread     \* sterilizer.thread refers to the suspended thread

vars == <<ster_pc, dma, thread>>

TypeOK ==
  /\ ster_pc \in {"idle", "started", "suspended"}
  /\ dma \in BOOLEAN
  /\ thread \in BOOLEAN

Init ==
  /\ ster_pc = "idle"
  /\ dma = FALSE
  /\ thread = FALSE

\* dmaStartMemCopy.
StartCopy ==
  /\ ster_pc = "idle"
  /\ ster_pc' = "started"
  /\ dma' = TRUE
  /\ UNCHANGED thread

\* chSysLock and chThdSuspendS.
Suspend ==
  /\ ster_pc = "started"
  /\ ster_pc' = "suspended"
  /\ thread' = TRUE
  /\ UNCHANGED dma

\* wake_up_sterilizer: chThdResumeI does nothing without a reference.
WakeUpSterilizer ==
  /\ dma
  /\ dma' = FALSE
  /\ thread' = FALSE
  /\ ster_pc' = IF thread THEN "idle" ELSE ster_pc

Next == StartCopy \/ Suspend \/ WakeUpSterilizer

\* The thread goes on and a transfer ends.
Spec == Init /\ [][Next]_vars /\ WF_vars(Suspend) /\ WF_vars(WakeUpSterilizer)

\* Every copy returns: "DMA transfer end callback function, wakes up
\* sterilizer thread" (sterilizer.c 167).  It does not hold: the interrupt
\* that comes before the suspension wakes nobody, and no other will come.
CopyReturns == ster_pc = "started" ~> ster_pc = "idle"
=============================================================================
